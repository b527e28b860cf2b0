-------------------------- MODULE AgentLoopProofs ---------------------------
(***************************************************************************)
(* A run keeps its types and its counters below their limits, shows the    *)
(* prose of a turn once, answers only after the checks of what it edited,  *)
(* sends and returns histories that pair every call with its answer, and   *)
(* tells in them of every edit: for any batches of calls, limits and files.*)
(***************************************************************************)
EXTENDS AgentLoop, SequenceTheorems, WellFoundedInduction, TLAPS

Requesting == {"connect", "stream", "recover", "check", "stalled", "last", "failed"}
InBatch == step \in {"execute", "record"}
Comings == {"ok", "failed", "abort", "approved", "changed"}

\* TypeOK by parts.  The prose of a turn is shown by one stream at most, because a
\* stream that shows its prose begins only while none has.
EndOK ==
  /\ step \in Steps /\ outcome \in Outcomes
  /\ (step = "done") = (outcome # "running")
  /\ waited \in BOOLEAN
RequestOK ==
  /\ stage \in Stages /\ recovered \in BOOLEAN /\ forwarded \in BOOLEAN
  /\ reply \in Replies \cup Interrupted
  /\ attempt \in 0..(MaxReconnects + MaxStallRetries)
ShownInv ==
  /\ shown = IF forwarded THEN 1 ELSE 0
  /\ step \in {"connect", "stream"} /\ Visible => ~forwarded
PolicyBits == gate \in BOOLEAN /\ escalated \in BOOLEAN /\ checked \in BOOLEAN
PolicyOK ==
  /\ PolicyBits
  /\ turn \in 0..limit /\ limit \in {MaxTurns, EscalatedTurns}
  /\ nudges \in 0..MaxContinueNudges

\* The counters are below their limits until the run ends.
GuardOK ==
  /\ seen \subseteq Calls
  /\ failures \in [Calls -> 0..ToolFailureStopAt]
  /\ guard \in [empty : 0..MaxEmptyTurns, noAction : 0..MaxNoActionTurns,
                noOp : 0..NoOpStopAt]
  /\ step # "done" =>
       /\ \A c \in Calls : failures[c] < ToolFailureStopAt
       /\ guard.empty < MaxEmptyTurns /\ guard.noAction < MaxNoActionTurns
       /\ guard.noOp < NoOpStopAt

\* What the calls that ran came to is of the calls of the batch, from the next one
\* to be recorded on; a call that changed a file ran alone.
BatchInv ==
  /\ index \in Nat \ {0} /\ outcomes \in Seq(Comings)
  /\ InBatch => index <= Len(reply.calls)
  /\ step = "record" =>
       /\ outcomes # <<>> /\ index + Len(outcomes) - 1 <= Len(reply.calls)
       /\ \A k \in DOMAIN outcomes :
            /\ outcomes[k] \in Comes(reply.calls[index + k - 1])
            /\ outcomes[k] = "changed" => Len(outcomes) = 1

TypeInv ==
  DiagnosticsTypeOK /\ EndOK /\ RequestOK /\ ShownInv /\ PolicyOK /\ GuardOK /\ BatchInv

-----------------------------------------------------------------------------
(* The actions by what they do to the rest of the state: the requests of a *)
(* turn, the steps between turns, and the ends within a batch.             *)

Requests ==
  \/ Connected \/ ConnectRecovers \/ ConnectFails \/ Collect \/ Recover \/ CancelSeen
  \/ Reconnect \/ CheckedStream \/ StallRetry \/ NoStallRetry \/ LastRecover
  \/ LastReissued

Turns ==
  \/ BeginTurn \/ CutTurn \/ DroppedTurn \/ SilentTurn \/ ProseTurn
  \/ AfterBatch \/ LimitCancelled \/ LimitReached \/ Summary

Stops == AbortBatch \/ ApprovePlan \/ StopOnFailures

Compacted(m) == {m, WithUser(m)} \cup Compactions(m)
Closed(m) == Append(m, Assistant(turn, 0))
Grown(m) ==
  Compacted(m) \cup Compacted(WithUser(m))
    \cup {Closed(m), WithUser(Closed(m)), Closed(WithUser(m))}

LEMMA RequestStep ==
  ASSUME Requests
  PROVE  /\ step \in Requesting /\ step' \in Requesting \cup {"act", "done"}
         /\ UNCHANGED <<cancelled, diagnosticsVars, turn, batchVars, policyVars,
                        guardVars, waited>>
         /\ messages' \in Compacted(messages)
         /\ IF step' = "done" THEN outcome' \in {"error", "cancelled", "sentinelLost"}
                              ELSE UNCHANGED outcome
<1> USE DEF Keeps, Ends, Requesting, requestVars, Compacted
<1>1. CASE Connected
  BY <1>1 DEF Connected
<1>2. CASE ConnectRecovers
  BY <1>2 DEF ConnectRecovers, Shrinks, SummaryFails
<1>3. CASE ConnectFails
  BY <1>3 DEF ConnectFails
<1>4. CASE Collect
  BY <1>4 DEF Collect
<1>5. CASE Recover
  BY <1>5 DEF Recover, RecoverStream, Shrinks, SummaryFails
<1>6. CASE CancelSeen
  BY <1>6 DEF CancelSeen
<1>7. CASE Reconnect
  BY <1>7 DEF Reconnect
<1>8. CASE CheckedStream
  BY <1>8 DEF CheckedStream, Accept
<1>9. CASE StallRetry
  BY <1>9 DEF StallRetry
<1>10. CASE NoStallRetry
  BY <1>10 DEF NoStallRetry, Accept
<1>11. CASE LastRecover
  BY <1>11 DEF LastRecover, RecoverStream, Shrinks, SummaryFails, ErrorEnds
<1>12. CASE LastReissued
  BY <1>12 DEF LastReissued, Accept, ErrorEnds
<1> QED
  BY <1>1, <1>2, <1>3, <1>4, <1>5, <1>6, <1>7, <1>8, <1>9, <1>10, <1>11, <1>12 DEF Requests

LEMMA TurnStep ==
  ASSUME Turns
  PROVE  /\ step \in {"turn", "act", "after", "summary"}
         /\ step' \in {"turn", "connect", "summary", "done"}
         /\ UNCHANGED <<cancelled, version, queue, queued, worker, job, judged, batchVars>>
         /\ messages' \in Grown(messages)
         /\ turn' = IF step' = "connect" THEN turn + 1 ELSE turn
         /\ step' # "done" => UNCHANGED outcome
         /\ Delivered \/ UNCHANGED results
<1> USE DEF Grown, Compacted, Closed, Keeps, Ends, NextTurn, Answers, diagnosticsVars, batchVars
<1>1. CASE BeginTurn
  BY <1>1 DEF BeginTurn, Drain
<1>2. CASE CutTurn
  BY <1>2 DEF CutTurn, Acts, NoAction
<1>3. CASE DroppedTurn
  BY <1>3 DEF DroppedTurn, Ordinary, Acts, NoAction
<1>4. CASE SilentTurn
  BY <1>4 DEF SilentTurn, Ordinary, Acts, NoAction
<1>5. CASE ProseTurn
  BY <1>5 DEF ProseTurn, Ordinary, Acts, Finish
<1>6. CASE AfterBatch
  BY <1>6 DEF AfterBatch
<1>7. CASE LimitCancelled
  BY <1>7 DEF LimitCancelled
<1>8. CASE LimitReached
  BY <1>8 DEF LimitReached, Drain
<1>9. CASE Summary
  BY <1>9 DEF Summary
<1> QED
  BY <1>1, <1>2, <1>3, <1>4, <1>5, <1>6, <1>7, <1>8, <1>9 DEF Turns

LEMMA StopStep ==
  ASSUME Stops
  PROVE  /\ step = "record" /\ step' = "done"
         /\ messages' = CloseOut(Recorded, Unanswered)
         /\ outcomes' = <<>> /\ outcome' \in {"cancelled", "plan", "stopped"}
         /\ UNCHANGED <<cancelled, diagnosticsVars, turn, recovered, requestVars, index,
                        ran, policyVars, seen, guard, waited>>
BY DEF Stops, AbortBatch, ApprovePlan, StopOnFailures, StopsBatch, Ends

LEMMA StepCases ==
  ASSUME [Next]_vars
  PROVE  \/ Requests \/ Turns \/ BatchTurn \/ Execute \/ Stops \/ RecordResult
         \/ Diagnose \/ Cancel \/ UNCHANGED vars
BY DEF Next, Loop, Requests, Turns, Stops

-----------------------------------------------------------------------------
(* Types.                                                                  *)

LEMMA ReplyFields ==
  ASSUME NEW r \in Replies \cup Interrupted
  PROVE  /\ r.error \in Errors /\ r.calls \in Seq(Calls)
         /\ r.prose \in BOOLEAN
<1>1. <<>> \in Seq(Calls) /\ "none" \in Errors /\ "cancelled" \in Errors
      /\ \A b \in Batches : b \in Seq(Calls)
  BY BatchesAssumption DEF Errors
<1>2. CASE r \in Breaks
  <2>1. PICK e \in Errors, p \in BOOLEAN : r = Failed(e, p)
    BY <1>2 DEF Breaks
  <2> QED BY <1>1, <2>1 DEF Failed
<1>3. CASE r \in Texts
  <2>1. PICK p \in BOOLEAN, d \in BOOLEAN, n \in BOOLEAN : r = Spoke(p, <<>>, d, n)
    BY <1>3 DEF Texts
  <2> QED BY <1>1, <2>1 DEF Spoke
<1>4. CASE r \in Acting
  BY <1>1, <1>4 DEF Acting, Spoke
<1>5. CASE r \in CutOffs
  <2>1. PICK p \in BOOLEAN : r = CutOff(p)
    BY <1>5 DEF CutOffs
  <2> QED BY <1>1, <2>1 DEF CutOff, Spoke
<1>6. CASE r \in Interrupted
  <2>1. PICK p \in BOOLEAN : r = Failed("cancelled", p)
    BY <1>6 DEF Interrupted
  <2> QED BY <1>1, <2>1 DEF Failed
<1> QED BY <1>2, <1>3, <1>4, <1>5, <1>6 DEF Replies

LEMMA NoReplyIsReply == NoReply \in Replies
<1>1. \A p, d, r \in BOOLEAN : Spoke(p, <<>>, d, r) \in Replies
  BY DEF Replies, Texts
<1> QED BY <1>1, Zenon DEF NoReply

LEMMA InitType == Init => TypeInv
<1> SUFFICES ASSUME Init PROVE TypeInv
  OBVIOUS
<1>1. DiagnosticsTypeOK
  BY EmptySeq DEF Init, DiagnosticsInit, DiagnosticsTypeOK
<1>2. NoReply \in Replies
  BY NoReplyIsReply
<1>3. EndOK
  BY DEF Init, EndOK, Steps, Outcomes
<1>4. RequestOK
  <2>1. recovered \in BOOLEAN /\ forwarded \in BOOLEAN
    BY DEF Init
  <2> QED BY <1>2, <2>1, LimitsAssumption DEF Init, RequestOK, Stages
<1>8. ShownInv
  BY DEF Init, ShownInv
<1>6. PolicyOK
  <2>1. gate \in BOOLEAN /\ escalated \in BOOLEAN /\ checked \in BOOLEAN
    BY DEF Init
  <2> QED BY <2>1, LimitsAssumption DEF Init, PolicyOK, PolicyBits
<1>7. GuardOK
  BY LimitsAssumption DEF Init, GuardOK
<1>5. BatchInv
  BY DEF Init, BatchInv, InBatch, Comings
<1> QED BY <1>1, <1>3, <1>4, <1>5, <1>6, <1>7, <1>8 DEF TypeInv

LEMMA RequestsKeep ==
  ASSUME RequestOK, ShownInv, Requests
  PROVE  RequestOK' /\ ShownInv'
<1> USE LimitsAssumption
        DEF RequestOK, ShownInv, Keeps, Ends, requestVars, Visible, Stages
<1>1. CASE Connected
  BY <1>1 DEF Connected
<1>2. CASE ConnectRecovers
  BY <1>2 DEF ConnectRecovers, Shrinks, SummaryFails
<1>3. CASE ConnectFails
  BY <1>3 DEF ConnectFails
<1>4. CASE Collect
  <2>1. PICK r \in Replies \cup Interrupted : reply' = r /\ Shows(r)
    BY <1>4 DEF Collect
  <2>2. r.prose \in BOOLEAN
    BY ReplyFields
  <2>3. step = "stream" /\ step' \notin {"connect", "stream"}
    BY <1>4 DEF Collect
  <2> QED BY <1>4, <2>1, <2>2, <2>3 DEF Collect, Shows
<1>5. CASE Recover
  BY <1>5 DEF Recover, RecoverStream, Shrinks, SummaryFails
<1>6. CASE CancelSeen
  BY <1>6 DEF CancelSeen
<1>7. CASE Reconnect
  BY <1>7 DEF Reconnect, CanReconnect, Committed
<1>8. CASE CheckedStream
  BY <1>8 DEF CheckedStream, Accept
<1>9. CASE StallRetry
  BY <1>9 DEF StallRetry, CanRetryStall, Committed
<1>10. CASE NoStallRetry
  BY <1>10 DEF NoStallRetry, Accept
<1>11. CASE LastRecover
  BY <1>11 DEF LastRecover, RecoverStream, Shrinks, SummaryFails, ErrorEnds
<1>12. CASE LastReissued
  BY <1>12 DEF LastReissued, Accept, ErrorEnds
<1> QED
  BY <1>1, <1>2, <1>3, <1>4, <1>5, <1>6, <1>7, <1>8, <1>9, <1>10, <1>11, <1>12 DEF Requests

LEMMA Limits ==
  /\ MaxTurns \in Nat \ {0} /\ EscalatedTurns \in Nat \ {0}
  /\ MaxEmptyTurns \in Nat \ {0} /\ MaxNoActionTurns \in Nat \ {0}
  /\ ToolFailureStopAt \in Nat \ {0} /\ NoOpStopAt \in Nat \ {0}
  /\ MaxReconnects \in Nat /\ MaxStallRetries \in Nat /\ MaxContinueNudges \in Nat
BY LimitsAssumption

LEMMA PostureKeeps ==
  ASSUME PolicyOK, Posture
  PROVE  /\ limit' \in {MaxTurns, EscalatedTurns} /\ limit' >= limit
         /\ gate' \in BOOLEAN /\ escalated' \in BOOLEAN
<1>1. gate' \in BOOLEAN /\ escalated' \in BOOLEAN
  <2>1. gate \in BOOLEAN /\ escalated \in BOOLEAN
    BY DEF PolicyOK, PolicyBits
  <2>2. CASE UNCHANGED <<limit, gate, escalated>>
    BY <2>1, <2>2
  <2>3. CASE escalated' = TRUE /\ gate' \in {gate, TRUE}
    BY <2>1, <2>3
  <2> QED BY <2>2, <2>3 DEF Posture
<1>2. \/ limit' = limit
      \/ limit' = IF EscalatedTurns > limit THEN EscalatedTurns ELSE limit
  BY DEF Posture
<1>3. limit' \in {MaxTurns, EscalatedTurns} /\ limit' >= limit
  BY <1>2, Limits DEF PolicyOK
<1> QED BY <1>1, <1>3

LEMMA PolicySame ==
  ASSUME PolicyOK, UNCHANGED policyVars, turn' = turn
  PROVE  PolicyOK'
<1>1. PolicyBits'
  BY DEF PolicyOK, PolicyBits, policyVars
<1>2. limit' = limit /\ nudges' = nudges
  BY DEF policyVars
<1> QED BY <1>1, <1>2 DEF PolicyOK

\* What the steps between turns do to the counters of the policy and the guards.
LEMMA TurnsCount ==
  ASSUME EndOK, RequestOK, PolicyOK, GuardOK, Turns
  PROVE  EndOK' /\ PolicyOK' /\ GuardOK'
<1> USE Limits DEF EndOK, Steps, Outcomes, Keeps, Ends, NextTurn
<1>1. CASE BeginTurn
  <2>1. UNCHANGED policyVars /\ turn' = turn + 1 /\ turn < limit
    BY <1>1 DEF BeginTurn
  <2>2. PolicyBits' /\ limit' = limit /\ nudges' = nudges
    BY <2>1 DEF PolicyOK, PolicyBits, policyVars
  <2>3. PolicyOK'
    BY <2>1, <2>2 DEF PolicyOK
  <2> QED BY <1>1, <2>3 DEF BeginTurn, GuardOK, guardVars
<1>2. ASSUME NEW emptied \in 0..guard.empty + 1, NEW m, step = "act", NoAction(emptied, m)
      PROVE  EndOK' /\ PolicyOK' /\ GuardOK'
  <2>1. PolicyOK'
    BY <1>2, PolicySame DEF NoAction
  <2>2. GuardOK'
    <3>2. guard \in [empty : 0..MaxEmptyTurns, noAction : 0..MaxNoActionTurns, noOp : 0..NoOpStopAt]
          /\ guard.empty < MaxEmptyTurns /\ guard.noAction < MaxNoActionTurns
          /\ guard.noOp < NoOpStopAt
      BY <1>2 DEF GuardOK
    <3>1. guard' = [empty |-> emptied, noAction |-> guard.noAction + 1, noOp |-> guard.noOp]
      BY <1>2, <3>2 DEF NoAction
    <3>3. /\ guard' \in [empty : 0..MaxEmptyTurns, noAction : 0..MaxNoActionTurns, noOp : 0..NoOpStopAt]
          /\ guard'.empty = emptied /\ guard'.noAction = guard.noAction + 1
          /\ guard'.noOp < NoOpStopAt
      BY <3>1, <3>2
    <3>4. step' # "done" => emptied < MaxEmptyTurns /\ guard.noAction + 1 < MaxNoActionTurns
      BY <1>2, <3>2 DEF NoAction
    <3>5. UNCHANGED <<seen, failures>>
      BY <1>2 DEF NoAction
    <3> QED BY <1>2, <3>3, <3>4, <3>5 DEF GuardOK
  <2>3. EndOK'
    BY <1>2 DEF NoAction
  <2> QED BY <2>1, <2>2, <2>3
<1>3. guard.empty \in Nat /\ guard.noOp \in Nat
  BY DEF GuardOK
<1>4. CASE CutTurn \/ DroppedTurn \/ SilentTurn
  <2>1. step = "act" /\ \E n \in {0, guard.empty, guard.empty + 1}, m \in {messages, Answers(0)} :
                          NoAction(n, m)
    BY <1>4 DEF CutTurn, DroppedTurn, SilentTurn, Ordinary, Acts
  <2> QED BY <1>2, <1>3, <2>1
<1>5. CASE ProseTurn
  <2>1. EndOK'
    BY <1>5 DEF ProseTurn, Ordinary, Acts, Finish
  <2>2. turn' = turn /\ step = "act" /\ UNCHANGED <<seen, failures>>
        /\ guard' = [guard EXCEPT !.empty = 0, !.noAction = 0]
    BY <1>5 DEF ProseTurn, Ordinary, Acts
  <2>3. GuardOK'
    <3>1. guard' = [empty |-> 0, noAction |-> 0, noOp |-> guard.noOp]
      BY <2>2 DEF GuardOK
    <3> QED BY <2>2, <3>1 DEF GuardOK
  <2>4. CASE UNCHANGED policyVars
    BY <2>1, <2>2, <2>3, <2>4, PolicySame
  <2>5. CASE ~UNCHANGED policyVars
    <3>1. PICK admits, cue, pending \in BOOLEAN :
            LET verdict == Evaluate(admits, cue, pending)
            IN  /\ nudges' = IF verdict = "continue" THEN nudges + 1 ELSE nudges
                /\ checked' = (checked \/ verdict = "semanticCheck")
                /\ Posture
      BY <1>5, <2>5 DEF ProseTurn
    <3>2. Evaluate(admits, cue, pending) = "continue" => nudges < MaxContinueNudges
      BY DEF Evaluate
    <3>3. checked' \in BOOLEAN
      BY <3>1
    <3>4. PolicyBits'
      BY <3>1, <3>3, PostureKeeps DEF PolicyBits
    <3>5. nudges' \in 0..MaxContinueNudges
      BY <3>1, <3>2 DEF PolicyOK
    <3>6. limit' \in {MaxTurns, EscalatedTurns} /\ limit' >= limit
      BY <3>1, PostureKeeps
    <3> QED BY <2>1, <2>2, <2>3, <3>4, <3>5, <3>6 DEF PolicyOK
  <2> QED BY <2>1, <2>3, <2>4, <2>5
<1>6. CASE AfterBatch
  <2>1. turn' = turn /\ nudges' = nudges /\ checked' = checked
        /\ (Posture \/ UNCHANGED <<limit, gate, escalated>>)
    BY <1>6 DEF AfterBatch
  <2>2. limit' \in {MaxTurns, EscalatedTurns} /\ limit' >= limit
        /\ gate' \in BOOLEAN /\ escalated' \in BOOLEAN
    BY <2>1, PostureKeeps DEF PolicyOK, PolicyBits
  <2>3. PolicyBits'
    BY <2>1, <2>2 DEF PolicyOK, PolicyBits
  <2>4. PolicyOK'
    BY <2>1, <2>2, <2>3 DEF PolicyOK
  <2>5. PICK noOp \in {0, guard.noOp + 1} :
          /\ guard' = [guard EXCEPT !.noOp = noOp]
          /\ \/ noOp >= NoOpStopAt /\ Ends("stopped")
             \/ noOp < NoOpStopAt /\ NextTurn
    BY <1>6 DEF AfterBatch
  <2>6. step = "after" /\ seen' = seen \cup Range(reply.calls) /\ UNCHANGED failures
    BY <1>6 DEF AfterBatch
  <2>7. guard' = [empty |-> guard.empty, noAction |-> guard.noAction, noOp |-> noOp]
    BY <2>5 DEF GuardOK
  <2>8. Range(reply.calls) \subseteq Calls
    <3>1. reply.calls \in Seq(Calls)
      BY ReplyFields DEF RequestOK
    <3> QED BY <3>1 DEF Range
  <2>9. GuardOK'
    BY <1>3, <2>5, <2>6, <2>7, <2>8 DEF GuardOK
  <2>10. EndOK'
    BY <1>6, <2>5 DEF AfterBatch
  <2> QED BY <2>4, <2>9, <2>10
<1>7. CASE LimitCancelled
  BY <1>7, PolicySame DEF LimitCancelled, GuardOK, guardVars
<1>8. CASE LimitReached
  BY <1>8, PolicySame DEF LimitReached, GuardOK, guardVars
<1>9. CASE Summary
  BY <1>9, PolicySame DEF Summary, GuardOK, guardVars
<1> QED BY <1>1, <1>4, <1>5, <1>6, <1>7, <1>8, <1>9 DEF Turns


-----------------------------------------------------------------------------
(* The window of calls that run together.                                  *)

\* The order of the numbers, as a set of pairs.
Less == {p \in Nat \X Nat : p[1] < p[2]}

\* A set of naturals that is bounded and not empty has a greatest element.
LEMMA Greatest ==
  ASSUME NEW n \in Nat, NEW S, S \subseteq 0..n, S # {}
  PROVE  \E e \in S : \A o \in S : o <= e
<1> DEFINE T == {n - e : e \in S}
<1>1. IsWellFoundedOn(Less, Nat)
  BY NatLessThanWellFounded DEF OpToRel, Less
<1>2. T \subseteq Nat /\ T # {}
  <2>1. \A e \in S : e \in 0..n /\ n - e \in Nat /\ n - e \in T
    OBVIOUS
  <2> QED BY <2>1
<1>3. PICK x \in T : \A y \in T : ~(<<y, x>> \in Less)
  <2> HIDE DEF T
  <2> QED BY <1>1, <1>2, WFMin
<1>4. PICK e \in S : x = n - e
  OBVIOUS
<1>5. ASSUME NEW o \in S PROVE o <= e
  <2>1. o \in 0..n /\ e \in 0..n /\ n - o \in T /\ n - o \in Nat /\ n - e \in Nat
    OBVIOUS
  <2>2. ~(n - o < n - e)
    BY <1>3, <1>4, <2>1 DEF Less
  <2> QED BY <2>1, <2>2
<1> QED BY <1>4, <1>5

\* More than one call of the window are reads.
LEMMA WindowIs ==
  ASSUME reply.calls \in Seq(Calls), NEW i \in 1..Len(reply.calls)
  PROVE  /\ Window(i) \in i..Len(reply.calls)
         /\ Window(i) # i => \A k \in i..Window(i) : reply.calls[k] \in Reads
<1> DEFINE calls == reply.calls
           runs == {e \in i..Len(calls) :
                      /\ \A k \in i..e : calls[k] \in Reads
                      /\ \A k, l \in i..e : calls[k] = calls[l] => k = l}
<1>1. Window(i) = IF runs = {} THEN i ELSE CHOOSE e \in runs : \A o \in runs : o <= e
  BY DEF Window
<1>2. CASE runs = {}
  BY <1>1, <1>2
<1>3. CASE runs # {}
  <2>1. runs \subseteq 0..Len(calls) /\ Len(calls) \in Nat
    OBVIOUS
  <2>2. \E e \in runs : \A o \in runs : o <= e
    <3> HIDE DEF runs
    <3> QED BY <1>3, <2>1, Greatest
  <2>3. Window(i) \in runs
    <3> HIDE DEF runs
    <3> QED BY <1>1, <1>3, <2>2
  <2> QED BY <2>3
<1> QED BY <1>2, <1>3

LEMMA ComesTo ==
  ASSUME NEW c \in Calls
  PROVE  /\ Comes(c) \subseteq Comings
         /\ "changed" \in Comes(c) => c \in Files /\ c \notin Reads
<1>1. CASE c \in Reads
  BY <1>1, KindsAssumption DEF Comes, Comings
<1>2. CASE c \in Plans
  BY <1>2, KindsAssumption DEF Comes, Comings
<1>3. CASE c \in Files
  BY <1>3, KindsAssumption DEF Comes, Comings
<1> QED BY <1>1, <1>2, <1>3 DEF Calls


-----------------------------------------------------------------------------
(* The steps of the batch and of the diagnostics keep the types.           *)

LEMMA BatchTurnType ==
  ASSUME TypeInv, BatchTurn
  PROVE  TypeInv'
<1>1. PolicyOK'
  BY PolicySame DEF TypeInv, BatchTurn
<1>2. DiagnosticsTypeOK'
  BY DEF TypeInv, BatchTurn, DiagnosticsTypeOK, diagnosticsVars
<1>3. /\ step = "act" /\ step' = "execute" /\ index' = 1 /\ reply.calls # <<>>
      /\ UNCHANGED <<recovered, requestVars, outcomes, seen, failures, outcome, waited>>
      /\ guard' = [guard EXCEPT !.empty = 0, !.noAction = 0]
  BY DEF BatchTurn, Ordinary, Acts
<1>4. EndOK'
  BY <1>3 DEF TypeInv, EndOK, Steps
<1>5. RequestOK' /\ ShownInv'
  BY <1>3 DEF TypeInv, RequestOK, ShownInv, requestVars
<1>6. GuardOK'
  <2>1. guard' = [empty |-> 0, noAction |-> 0, noOp |-> guard.noOp]
    BY <1>3 DEF TypeInv, GuardOK
  <2> QED BY <1>3, <2>1, Limits DEF TypeInv, GuardOK
<1>7. BatchInv'
  <2>1. reply.calls \in Seq(Calls) /\ reply' = reply
    BY <1>3, ReplyFields DEF TypeInv, RequestOK, requestVars
  <2> QED BY <1>3, <2>1 DEF TypeInv, BatchInv, InBatch
<1> QED BY <1>1, <1>2, <1>4, <1>5, <1>6, <1>7 DEF TypeInv

\* What Execute does: a call that changes a file is the only one of its window.
LEMMA ExecuteStep ==
  ASSUME TypeInv, Execute
  PROVE  \E o \in Seq(Comings) :
           /\ step = "execute" /\ step' = "record" /\ outcomes' = o /\ o # <<>>
           /\ index + Len(o) - 1 <= Len(reply.calls)
           /\ \A k \in DOMAIN o : /\ o[k] \in Comes(reply.calls[index + k - 1])
                                  /\ o[k] = "changed" => Len(o) = 1
           /\ ran' = ran \cup {Call(turn, index + k - 1) :
                                 k \in {l \in DOMAIN o : o[l] = "changed"}}
           /\ version' = [f \in Files |->
                            IF \E k \in DOMAIN o : /\ o[k] = "changed"
                                                   /\ reply.calls[index + k - 1] = f
                              THEN version[f] + 1 ELSE version[f]]
           /\ UNCHANGED <<cancelled, messages, queue, queued, results, worker, job, judged,
                          turn, recovered, requestVars, index, policyVars, guardVars,
                          outcome, waited>>
<1>1. step = "execute" /\ index \in 1..Len(reply.calls) /\ reply.calls \in Seq(Calls)
  BY ReplyFields DEF Execute, TypeInv, BatchInv, InBatch, RequestOK
<1> DEFINE n == Window(index) - index + 1
<1>2. Window(index) \in index..Len(reply.calls)
      /\ (Window(index) # index => \A k \in index..Window(index) : reply.calls[k] \in Reads)
  BY <1>1, WindowIs
<1>3. n \in Nat \ {0} /\ index + n - 1 = Window(index)
  BY <1>1, <1>2
<1> HIDE DEF n
<1>4. PICK o \in [1..n -> UNION {Comes(c) : c \in Calls}] :
        /\ \A k \in 1..n : o[k] \in Comes(reply.calls[index + k - 1])
        /\ outcomes' = o
        /\ ran' = ran \cup {Call(turn, index + k - 1) : k \in {l \in 1..n : o[l] = "changed"}}
        /\ version' = [f \in Files |->
                         IF \E k \in 1..n : o[k] = "changed" /\ reply.calls[index + k - 1] = f
                           THEN version[f] + 1 ELSE version[f]]
  BY DEF Execute, n
<1>5. o \in Seq(Comings) /\ DOMAIN o = 1..n /\ Len(o) = n
  <2>1. UNION {Comes(c) : c \in Calls} \subseteq Comings
    BY ComesTo
  <2>2. o \in [1..n -> Comings]
    BY <2>1
  <2> QED BY <1>3, <2>2
<1>6. ASSUME NEW k \in 1..n, o[k] = "changed"
      PROVE  n = 1
  <2>1. index + k - 1 \in index..Window(index) /\ reply.calls[index + k - 1] \in Calls
    BY <1>1, <1>2, <1>3
  <2>2. reply.calls[index + k - 1] \notin Reads
    BY <1>4, <1>6, <2>1, ComesTo
  <2> QED BY <1>2, <1>3, <2>1, <2>2, <1>1
<1>7. /\ step' = "record"
      /\ UNCHANGED <<cancelled, messages, queue, queued, results, worker, job, judged,
                     turn, recovered, requestVars, index, policyVars, guardVars,
                     outcome, waited>>
  BY DEF Execute
<1>8. o # <<>> /\ index + Len(o) - 1 <= Len(reply.calls)
  BY <1>1, <1>2, <1>3, <1>5
<1> QED BY <1>1, <1>4, <1>5, <1>6, <1>7, <1>8


LEMMA ExecuteType ==
  ASSUME TypeInv, Execute
  PROVE  TypeInv'
<1>1. PICK o \in Seq(Comings) :
        /\ step = "execute" /\ step' = "record" /\ outcomes' = o /\ o # <<>>
        /\ index + Len(o) - 1 <= Len(reply.calls)
        /\ \A k \in DOMAIN o : /\ o[k] \in Comes(reply.calls[index + k - 1])
                               /\ o[k] = "changed" => Len(o) = 1
        /\ version' = [f \in Files |->
                         IF \E k \in DOMAIN o : /\ o[k] = "changed"
                                                /\ reply.calls[index + k - 1] = f
                           THEN version[f] + 1 ELSE version[f]]
        /\ UNCHANGED <<cancelled, messages, queue, queued, results, worker, job, judged,
                       turn, recovered, requestVars, index, policyVars, guardVars,
                       outcome, waited>>
  BY ExecuteStep
<1>2. DiagnosticsTypeOK'
  BY <1>1 DEF TypeInv, DiagnosticsTypeOK
<1>3. EndOK'
  BY <1>1 DEF TypeInv, EndOK, Steps
<1>4. RequestOK' /\ ShownInv'
  BY <1>1 DEF TypeInv, RequestOK, ShownInv, requestVars
<1>5. PolicyOK'
  BY <1>1, PolicySame DEF TypeInv
<1>6. GuardOK'
  BY <1>1 DEF TypeInv, GuardOK, guardVars
<1>7. BatchInv'
  <2>1. reply' = reply /\ index \in Nat \ {0} /\ index <= Len(reply.calls)
    BY <1>1 DEF requestVars, TypeInv, BatchInv, InBatch
  <2> QED BY <1>1, <2>1 DEF BatchInv, Comes
<1> QED BY <1>2, <1>3, <1>4, <1>5, <1>6, <1>7 DEF TypeInv

LEMMA CountsFailure ==
  ASSUME GuardOK, step = "record", reply.calls[index] \in Calls,
         NEW n \in Repeats(reply.calls[index])
  PROVE  n \in 0..ToolFailureStopAt
BY Limits DEF GuardOK, Repeats

LEMMA NextCall ==
  ASSUME TypeInv, InBatch
  PROVE  /\ reply.calls \in Seq(Calls) /\ index \in 1..Len(reply.calls)
         /\ reply.calls[index] \in Calls
<1>1. reply.calls \in Seq(Calls)
  BY ReplyFields DEF TypeInv, RequestOK
<1> QED BY <1>1 DEF TypeInv, BatchInv

LEMMA StopsType ==
  ASSUME TypeInv, Stops
  PROVE  TypeInv'
<1>1. /\ step = "record" /\ step' = "done"
      /\ outcomes' = <<>> /\ outcome' \in {"cancelled", "plan", "stopped"}
      /\ UNCHANGED <<cancelled, diagnosticsVars, turn, recovered, requestVars, index,
                     ran, policyVars, seen, guard, waited>>
  BY StopStep
<1>2. DiagnosticsTypeOK'
  BY <1>1 DEF TypeInv, DiagnosticsTypeOK, diagnosticsVars
<1>3. EndOK'
  BY <1>1 DEF TypeInv, EndOK, Steps, Outcomes
<1>4. RequestOK' /\ ShownInv'
  BY <1>1 DEF TypeInv, RequestOK, ShownInv, requestVars
<1>5. PolicyOK'
  BY <1>1, PolicySame DEF TypeInv
<1>6. GuardOK'
  <2>1. failures' \in [Calls -> 0..ToolFailureStopAt]
    <3>1. CASE UNCHANGED failures
      BY <3>1 DEF TypeInv, GuardOK
    <3>2. CASE StopOnFailures
      <4>1. PICK n \in Repeats(reply.calls[index]) :
              failures' = [failures EXCEPT ![reply.calls[index]] = n]
        BY <3>2 DEF StopOnFailures
      <4>2. n \in 0..ToolFailureStopAt
        BY <1>1, NextCall, CountsFailure DEF TypeInv, InBatch
      <4> QED BY <4>1, <4>2 DEF TypeInv, GuardOK
    <3> QED BY <3>1, <3>2 DEF Stops, AbortBatch, ApprovePlan
  <2> QED BY <1>1, <2>1 DEF TypeInv, GuardOK
<1>7. BatchInv'
  BY <1>1 DEF TypeInv, BatchInv, InBatch
<1> QED BY <1>2, <1>3, <1>4, <1>5, <1>6, <1>7 DEF TypeInv

\* A file enqueued waits in the queue, with a worker to come to it.
LEMMA EnqueueType ==
  ASSUME DiagnosticsTypeOK, NEW f \in Files, Enqueue(f)
  PROVE  /\ queue' \in Seq(Files) /\ queued' \subseteq Files /\ results' \in [Files -> Nat]
         /\ worker' \in {"off", "free", "busy"}
         /\ worker' # worker => worker = "off" /\ worker' = "free"
         /\ worker' = "off" => queue' = <<>>
<1>1. CASE f \in queued
  BY <1>1 DEF Enqueue, DiagnosticsTypeOK
<1>2. CASE f \notin queued
  <2>1. /\ queue' = Append(queue, f) /\ queued' = queued \cup {f}
        /\ results' = [results EXCEPT ![f] = 0]
        /\ worker' = IF worker = "off" /\ queue' # <<>> THEN "free" ELSE worker
    BY <1>2 DEF Enqueue
  <2> QED BY <2>1 DEF DiagnosticsTypeOK
<1> QED BY <1>1, <1>2

\* A result recorded: the next one, the next call, or the end of the batch.
LEMMA RecordGoesOn ==
  ASSUME TypeInv, RecordResult
  PROVE  /\ step = "record" /\ step' \in {"record", "execute", "after"}
         /\ outcomes' = Tail(outcomes) /\ reply' = reply
         /\ step' # "record" => Len(outcomes) = 1
         /\ step' = "after" => index = Len(reply.calls)
         /\ step' \in {"record", "execute"} => index' = index + 1 /\ index < Len(reply.calls)
<1>1. step = "record" /\ index \in Nat \ {0} /\ index <= Len(reply.calls)
      /\ Len(outcomes) \in Nat \ {0} /\ index + Len(outcomes) - 1 <= Len(reply.calls)
      /\ reply.calls \in Seq(Calls)
  BY NextCall DEF RecordResult, TypeInv, BatchInv, InBatch
<1>2. /\ outcomes' = Tail(outcomes) /\ reply' = reply
      /\ index' = IF index < Len(reply.calls) THEN index + 1 ELSE 1
      /\ step' = CASE Len(outcomes) > 1 -> "record"
                   [] Len(outcomes) = 1 /\ index < Len(reply.calls) -> "execute"
                   [] OTHER -> "after"
  BY DEF RecordResult, requestVars
<1>3. CASE Len(outcomes) > 1
  BY <1>1, <1>2, <1>3
<1>4. CASE Len(outcomes) = 1 /\ index < Len(reply.calls)
  BY <1>1, <1>2, <1>4
<1>5. CASE Len(outcomes) = 1 /\ index = Len(reply.calls)
  BY <1>1, <1>2, <1>5
<1>6. index < Len(reply.calls) \/ index = Len(reply.calls)
  <2>1. Len(reply.calls) \in Nat
    BY <1>1
  <2> QED BY <1>1, <2>1
<1>7. Len(outcomes) > 1 \/ Len(outcomes) = 1
  BY <1>1
<1> QED BY <1>3, <1>4, <1>5, <1>6, <1>7

LEMMA RecordType ==
  ASSUME TypeInv, RecordResult
  PROVE  TypeInv'
<1>1. /\ step = "record" /\ step' \in {"record", "execute", "after"}
      /\ outcomes' = Tail(outcomes) /\ reply' = reply
      /\ step' # "record" => Len(outcomes) = 1
      /\ step' \in {"record", "execute"} => index' = index + 1 /\ index < Len(reply.calls)
  BY RecordGoesOn
<1>2. /\ UNCHANGED <<cancelled, version, job, judged, turn, recovered, requestVars,
                     policyVars, seen, guard, outcome, waited>>
      /\ index' \in {index + 1, 1}
  BY DEF RecordResult
<1>3. outcomes \in Seq(Comings) /\ outcomes # <<>> /\ index \in Nat \ {0}
      /\ reply.calls \in Seq(Calls) /\ reply.calls[index] \in Calls
      /\ Head(outcomes) \in Comes(reply.calls[index])
      /\ index + Len(outcomes) - 1 <= Len(reply.calls)
  BY <1>1, NextCall DEF TypeInv, BatchInv, InBatch
<1>4. DiagnosticsTypeOK'
  <2>1. CASE Head(outcomes) = "changed"
    <3>1. reply.calls[index] \in Files
      BY <1>3, <2>1, ComesTo
    <3>2. Enqueue(reply.calls[index])
      BY <2>1 DEF RecordResult
    <3> QED BY <1>2, <3>1, <3>2, EnqueueType DEF TypeInv, DiagnosticsTypeOK
  <2>2. CASE UNCHANGED <<queue, queued, results, worker>>
    BY <1>2, <2>2 DEF TypeInv, DiagnosticsTypeOK
  <2> QED BY <2>1, <2>2 DEF RecordResult
<1>5. EndOK'
  BY <1>1, <1>2 DEF TypeInv, EndOK, Steps
<1>6. RequestOK' /\ ShownInv'
  BY <1>1, <1>2 DEF TypeInv, RequestOK, ShownInv, requestVars
<1>7. PolicyOK'
  BY <1>2, PolicySame DEF TypeInv
<1>8. GuardOK'
  <2>1. PICK n \in Repeats(reply.calls[index]) :
          /\ n < ToolFailureStopAt
          /\ failures' = [failures EXCEPT ![reply.calls[index]] = n]
    BY DEF RecordResult
  <2>2. n \in 0..ToolFailureStopAt
    BY <1>1, <1>3, CountsFailure DEF TypeInv
  <2> QED BY <1>1, <1>2, <1>3, <2>1, <2>2 DEF TypeInv, GuardOK
<1>9. BatchInv'
  <2>1. Tail(outcomes) \in Seq(Comings) /\ Len(Tail(outcomes)) = Len(outcomes) - 1
        /\ \A k \in 1..Len(outcomes) - 1 : Tail(outcomes)[k] = outcomes[k + 1]
    BY <1>3
  <2>2. index' \in Nat \ {0} /\ outcomes' \in Seq(Comings)
    BY <1>1, <1>2, <1>3, <2>1
  <2>3. InBatch' => index' <= Len(reply'.calls)
    BY <1>1, <1>3 DEF InBatch
  <2>4. CASE step' = "record"
    <3>1. index' = index + 1 /\ reply' = reply /\ Len(outcomes) > 1
      BY <1>1, <1>3, <2>4, RecordGoesOn DEF RecordResult
    <3>2. ASSUME NEW k \in DOMAIN outcomes'
          PROVE  /\ outcomes'[k] \in Comes(reply.calls[index' + k - 1])
                 /\ outcomes'[k] # "changed"
      <4>1. k + 1 \in DOMAIN outcomes /\ outcomes'[k] = outcomes[k + 1]
            /\ index' + k - 1 = index + (k + 1) - 1
        <5>1. Len(outcomes) \in Nat /\ DOMAIN outcomes' = 1..Len(outcomes) - 1
              /\ DOMAIN outcomes = 1..Len(outcomes)
          BY <1>1, <1>3, <2>1
        <5>2. k \in 1..Len(outcomes) - 1
          BY <5>1
        <5>3. k + 1 \in DOMAIN outcomes
          BY <5>1, <5>2
        <5>4. outcomes'[k] = outcomes[k + 1]
          BY <1>1, <2>1, <5>2
        <5>5. index' + k - 1 = index + (k + 1) - 1
          BY <1>3, <3>1, <5>1, <5>2
        <5> QED BY <5>3, <5>4, <5>5
      <4> QED BY <1>1, <3>1, <4>1 DEF TypeInv, BatchInv
    <3>3. outcomes' # <<>> /\ index' + Len(outcomes') - 1 <= Len(reply.calls)
      <4> DEFINE o == Len(outcomes)
                 q == Len(reply.calls)
      <4>1. /\ o \in Nat /\ q \in Nat /\ index \in Nat
            /\ index + o - 1 <= q /\ o > 1 /\ index' = index + 1
        BY <1>1, <1>3, <3>1 DEF TypeInv, BatchInv
      <4>2. outcomes' \in Seq(Comings) /\ Len(outcomes') = o - 1
        BY <1>1, <2>1, <2>2
      <4> HIDE DEF o, q
      <4>3. o - 1 # 0 /\ index' + (o - 1) - 1 <= q
        BY <4>1
      <4>4. outcomes' # <<>>
        BY <4>2, <4>3
      <4> QED BY <4>2, <4>3, <4>4 DEF q
    <3> QED BY <2>2, <2>3, <3>1, <3>2, <3>3 DEF BatchInv, Comes
  <2>5. CASE step' # "record"
    BY <2>2, <2>3, <2>5 DEF BatchInv
  <2> QED BY <2>4, <2>5
<1> QED BY <1>4, <1>5, <1>6, <1>7, <1>8, <1>9 DEF TypeInv


LEMMA DiagnoseType ==
  ASSUME TypeInv, Diagnose
  PROVE  TypeInv'
<1> USE DEF TypeInv, DiagnosticsTypeOK
<1>1. Worker /\ UNCHANGED loopVars
  BY DEF Diagnose
<1>2. DiagnosticsTypeOK'
  <2>1. CASE Take
    <3>1. Head(queue) \in Files /\ Tail(queue) \in Seq(Files) /\ version[Head(queue)] \in Nat
      BY <2>1 DEF Take
    <3> QED BY <2>1, <3>1 DEF Take
  <2>2. CASE ReadFile
    BY <2>2 DEF ReadFile
  <2>3. ASSUME NEW found \in BOOLEAN, StoreVerdict(found) PROVE DiagnosticsTypeOK'
    BY <2>3 DEF StoreVerdict
  <2>4. CASE WorkerExits
    BY <2>4 DEF WorkerExits
  <2> QED BY <1>1, <2>1, <2>2, <2>3, <2>4 DEF Worker
<1>3. UNCHANGED <<step, outcome, waited, stage, recovered, reply, attempt, forwarded, shown,
                  turn, policyVars, guardVars, index, outcomes>>
  BY <1>1 DEF loopVars, requestVars, batchVars
<1>4. PolicyOK'
  BY <1>3, PolicySame
<1>5. EndOK' /\ RequestOK' /\ ShownInv'
  BY <1>3 DEF EndOK, RequestOK, ShownInv, Visible
<1>6. GuardOK' /\ BatchInv'
  BY <1>3 DEF guardVars, GuardOK, BatchInv, InBatch, Comes
<1> QED BY <1>2, <1>4, <1>5, <1>6


\* A loop's step that is not a request leaves the next one's readiness alone, or resets it.
LEMMA TurnsType ==
  ASSUME TypeInv, Turns
  PROVE  TypeInv'
<1>1. /\ step' \in {"turn", "connect", "summary", "done"}
      /\ UNCHANGED <<cancelled, version, queue, queued, worker, job, judged, batchVars>>
      /\ Delivered \/ UNCHANGED results
  BY TurnStep
<1>2. EndOK' /\ PolicyOK' /\ GuardOK'
  BY TurnsCount DEF TypeInv
<1>3. DiagnosticsTypeOK'
  BY <1>1 DEF TypeInv, DiagnosticsTypeOK, Delivered
<1>4. RequestOK' /\ ShownInv'
  <2>1. CASE BeginTurn
    <3>1. /\ stage' = "first" /\ attempt' = 0 /\ ~forwarded' /\ shown' = 0 /\ reply' = NoReply
          /\ recovered' = recovered
      BY <2>1 DEF BeginTurn
    <3>2. recovered' \in BOOLEAN /\ forwarded' \in BOOLEAN
      BY <2>1 DEF BeginTurn, TypeInv, RequestOK
    <3>3. ShownInv'
      BY <3>1 DEF ShownInv
    <3> QED BY <3>1, <3>2, <3>3, NoReplyIsReply, Limits DEF RequestOK, Stages
  <2>2. CASE LimitReached
    BY <2>2 DEF LimitReached, TypeInv, RequestOK, ShownInv
  <2>3. CASE ~BeginTurn /\ ~LimitReached
    <3>1. UNCHANGED <<recovered, requestVars>> /\ step' \notin {"connect", "stream"}
      BY <2>3 DEF Turns, CutTurn, DroppedTurn, SilentTurn, NoAction, ProseTurn, Finish,
                  AfterBatch, LimitCancelled, Summary, Ends, NextTurn, Keeps
    <3> QED BY <3>1 DEF TypeInv, RequestOK, ShownInv, requestVars
  <2> QED BY <2>1, <2>2, <2>3
<1>5. BatchInv'
  BY <1>1 DEF TypeInv, BatchInv, InBatch, batchVars
<1> QED BY <1>2, <1>3, <1>4, <1>5 DEF TypeInv

LEMMA RequestsType ==
  ASSUME TypeInv, Requests
  PROVE  TypeInv'
<1>1. /\ step \in Requesting /\ step' \in Requesting \cup {"act", "done"}
      /\ UNCHANGED <<cancelled, diagnosticsVars, turn, batchVars, policyVars,
                     guardVars, waited>>
      /\ IF step' = "done" THEN outcome' \in {"error", "cancelled", "sentinelLost"}
                           ELSE UNCHANGED outcome
  BY RequestStep
<1>2. DiagnosticsTypeOK'
  BY <1>1 DEF TypeInv, DiagnosticsTypeOK, diagnosticsVars
<1>3. EndOK'
  BY <1>1 DEF TypeInv, EndOK, Steps, Outcomes, Requesting
<1>4. RequestOK' /\ ShownInv'
  BY RequestsKeep DEF TypeInv
<1>5. PolicyOK'
  BY <1>1, PolicySame DEF TypeInv
<1>6. GuardOK'
  BY <1>1 DEF TypeInv, GuardOK, guardVars, Requesting
<1>7. BatchInv'
  BY <1>1 DEF TypeInv, BatchInv, InBatch, batchVars, Requesting
<1> QED BY <1>2, <1>3, <1>4, <1>5, <1>6, <1>7 DEF TypeInv

\* A step that leaves the loop alone and the diagnostics' types.
LEMMA CancelType ==
  ASSUME TypeInv, Cancel \/ UNCHANGED vars
  PROVE  TypeInv'
<1>1. UNCHANGED <<loopVars, diagnosticsVars>> /\ cancelled' \in BOOLEAN
  BY DEF Cancel, vars, TypeInv, DiagnosticsTypeOK
<1>2. UNCHANGED <<step, outcome, waited, stage, recovered, reply, attempt, forwarded, shown,
                  turn, policyVars, guardVars, index, outcomes>>
  BY <1>1 DEF loopVars, requestVars, batchVars
<1>3. DiagnosticsTypeOK'
  BY <1>1 DEF TypeInv, DiagnosticsTypeOK, diagnosticsVars
<1>4. PolicyOK'
  BY <1>2, PolicySame DEF TypeInv
<1>5. EndOK' /\ RequestOK' /\ ShownInv'
  BY <1>2 DEF TypeInv, EndOK, RequestOK, ShownInv, Visible
<1>6. GuardOK' /\ BatchInv'
  BY <1>2 DEF TypeInv, guardVars, GuardOK, BatchInv, InBatch, Comes
<1> QED BY <1>3, <1>4, <1>5, <1>6 DEF TypeInv

LEMMA TypeStep == TypeInv /\ [Next]_vars => TypeInv'
BY StepCases, RequestsType, TurnsType, BatchTurnType, ExecuteType, StopsType, RecordType,
   DiagnoseType, CancelType

LEMMA TypeFromInv == TypeInv => TypeOK
<1> SUFFICES ASSUME TypeInv PROVE TypeOK
  OBVIOUS
<1>1. {gate, escalated, recovered, forwarded, checked, waited} \subseteq BOOLEAN
  BY Zenon DEF TypeInv, PolicyOK, PolicyBits, RequestOK, EndOK
<1>2. shown \in Nat
  BY DEF TypeInv, ShownInv
<1> QED BY <1>1, <1>2 DEF TypeInv, TypeOK, EndOK, RequestOK, PolicyOK, GuardOK

LEMMA TypeHolds == Spec => []TypeInv
<1> QED BY InitType, TypeStep, PTL DEF Spec

\* A run stays within its types and its limits: the turns of a turn limit that an
\* escalation may raise, the retries, the nudges, the counters of the guards, which
\* only the step that ends the run lets reach their limits (loop.go, Run).
THEOREM TypesHold == Spec => []TypeOK
BY TypeHolds, TypeFromInv, PTL

\* The prose of a turn is shown once (loop.go, streamWithReconnect and the stall
\* retry): no stream that shows its text begins after one has shown some.
THEOREM ShownOnce == Spec => []ProseOnce
<1>1. TypeInv => ProseOnce
  BY DEF TypeInv, ShownInv, ProseOnce
<1> QED BY TypeHolds, <1>1, PTL


-----------------------------------------------------------------------------
(* The checks of edited files.                                             *)

InQueue(f) == \E i \in DOMAIN queue : queue[i] = f

\* The change of a file that is not recorded yet, so the file is not enqueued for it.
Coming(f) ==
  /\ step = "record"
  /\ \E k \in DOMAIN outcomes : outcomes[k] = "changed" /\ reply.calls[index + k - 1] = f

\* The content of a file is, or is going to be, judged.
Covered(f) ==
  \/ InQueue(f) \/ Coming(f)
  \/ /\ \A j \in job : j.file = f => j.at = version[f]
     /\ judged[f] = version[f] \/ \E j \in job : j.file = f

WorkerInv ==
  /\ worker # "busy" => job = {}
  /\ \A j, k \in job : j = k
  /\ worker = "off" => queue = <<>> \/ cancelled
  /\ \A f \in queued : InQueue(f)

CheckInv ==
  /\ outcome = "running" => \A f \in Files : Covered(f)
  /\ outcome = "answer" /\ ~cancelled /\ ~waited =>
       worker = "off" /\ \A f \in Files : judged[f] = version[f] /\ results[f] = 0

CheckedInv == TypeInv /\ WorkerInv /\ CheckInv

LEMMA InitChecked == Init => CheckedInv
<1> SUFFICES ASSUME Init PROVE CheckedInv
  OBVIOUS
<1>1. WorkerInv
  BY DEF Init, DiagnosticsInit, WorkerInv
<1>2. CheckInv
  BY DEF Init, DiagnosticsInit, CheckInv, Covered
<1> QED BY <1>1, <1>2, InitType DEF CheckedInv

\* Nothing is covered less when the queue, the job and the versions stay and no change
\* is on its way.
LEMMA CoveredStays ==
  ASSUME step # "record", UNCHANGED <<version, queue, job, judged>>,
         NEW f \in Files, Covered(f)
  PROVE  Covered(f)'
BY DEF Covered, InQueue, Coming

LEMMA WorkerStays ==
  ASSUME WorkerInv, UNCHANGED <<cancelled, queue, queued, worker, job>>
  PROVE  WorkerInv'
BY DEF WorkerInv, InQueue

LEMMA AnswerStep ==
  ASSUME Turns, outcome # "answer", outcome' = "answer"
  PROVE  /\ UNCHANGED <<cancelled, version, worker, job, judged>>
         /\ step # "record"
         /\ waited' \/ (Quiet /\ Blocks = {} /\ UNCHANGED results)
<1> USE DEF Ends, NextTurn
<1>1. CASE ProseTurn
  BY <1>1 DEF ProseTurn, Finish, Ordinary, Acts
<1>2. CASE ~ProseTurn
  BY <1>2 DEF Turns, BeginTurn, CutTurn, DroppedTurn, SilentTurn, NoAction, AfterBatch,
              LimitCancelled, LimitReached, Summary, Keeps
<1> QED BY <1>1, <1>2

LEMMA RequestsChecked ==
  ASSUME CheckedInv, Requests
  PROVE  WorkerInv' /\ CheckInv'
<1>1. /\ step \in Requesting
      /\ UNCHANGED <<cancelled, diagnosticsVars, waited>>
      /\ outcome' \in {"error", "cancelled", "sentinelLost", outcome}
  BY RequestStep
<1>2. step # "record" /\ outcome = "running"
  BY <1>1 DEF Requesting, CheckedInv, TypeInv, EndOK
<1>3. WorkerInv'
  BY <1>1, WorkerStays DEF CheckedInv, diagnosticsVars
<1>4. UNCHANGED <<version, queue, job, judged>>
  BY <1>1 DEF diagnosticsVars
<1> QED BY <1>1, <1>2, <1>3, <1>4, CoveredStays DEF CheckedInv, CheckInv

LEMMA TurnsChecked ==
  ASSUME CheckedInv, Turns
  PROVE  WorkerInv' /\ CheckInv'
<1>1. /\ step \in {"turn", "act", "after", "summary"}
      /\ UNCHANGED <<cancelled, version, queue, queued, worker, job, judged>>
  BY TurnStep
<1>2. step # "record" /\ outcome = "running"
  BY <1>1 DEF CheckedInv, TypeInv, EndOK
<1>3. WorkerInv'
  BY <1>1, WorkerStays DEF CheckedInv
<1>4. \A f \in Files : Covered(f) /\ Covered(f)'
  BY <1>1, <1>2, CoveredStays DEF CheckedInv, CheckInv
<1>5. ASSUME outcome' = "answer", ~cancelled', ~waited'
      PROVE  worker' = "off" /\ \A f \in Files : judged'[f] = version'[f] /\ results'[f] = 0
  <2>1. Quiet /\ Blocks = {} /\ UNCHANGED results
    BY <1>2, <1>5, AnswerStep
  <2>2. queue = <<>> /\ job = {}
    BY <1>1, <1>5, <2>1 DEF Quiet, CheckedInv, WorkerInv
  <2>3. \A f \in Files : judged[f] = version[f]
    BY <1>2, <1>4, <2>2 DEF Covered, InQueue, Coming
  <2>4. \A f \in Files : results[f] = 0
    BY <2>1 DEF Blocks
  <2> QED BY <1>1, <2>1, <2>3, <2>4 DEF Quiet
<1> QED BY <1>3, <1>4, <1>5 DEF CheckInv

LEMMA ExecuteChecked ==
  ASSUME CheckedInv, Execute
  PROVE  WorkerInv' /\ CheckInv'
<1>1. PICK o \in Seq(Comings) :
        /\ step = "execute" /\ step' = "record" /\ outcomes' = o
        /\ version' = [f \in Files |->
                         IF \E k \in DOMAIN o : /\ o[k] = "changed"
                                                /\ reply.calls[index + k - 1] = f
                           THEN version[f] + 1 ELSE version[f]]
        /\ UNCHANGED <<cancelled, queue, queued, results, worker, job, judged,
                       requestVars, index, outcome, waited>>
  BY ExecuteStep DEF CheckedInv
<1>2. WorkerInv'
  BY <1>1, WorkerStays DEF CheckedInv
<1>3. outcome = "running" /\ \A f \in Files : Covered(f)
  BY <1>1 DEF CheckedInv, TypeInv, EndOK, CheckInv
<1>4. ASSUME NEW f \in Files PROVE Covered(f)'
  <2>1. CASE \E k \in DOMAIN o : o[k] = "changed" /\ reply.calls[index + k - 1] = f
    BY <1>1, <2>1 DEF Covered, Coming, requestVars
  <2>2. CASE ~ \E k \in DOMAIN o : o[k] = "changed" /\ reply.calls[index + k - 1] = f
    <3>1. version'[f] = version[f] /\ ~Coming(f)
      BY <1>1, <2>2 DEF Coming
    <3> QED BY <1>1, <1>3, <3>1 DEF Covered, InQueue
  <2> QED BY <2>1, <2>2
<1> QED BY <1>1, <1>2, <1>3, <1>4 DEF CheckInv


LEMMA BatchTurnChecked ==
  ASSUME CheckedInv, BatchTurn
  PROVE  WorkerInv' /\ CheckInv'
<1>1. /\ step = "act"
      /\ UNCHANGED <<cancelled, version, queue, queued, results, worker, job, judged,
                     outcome, waited>>
  BY DEF BatchTurn, Ordinary, Acts, diagnosticsVars
<1>2. step # "record" /\ outcome = "running"
  BY <1>1 DEF CheckedInv, TypeInv, EndOK
<1>3. WorkerInv'
  BY <1>1, WorkerStays DEF CheckedInv
<1> QED BY <1>1, <1>2, <1>3, CoveredStays DEF CheckedInv, CheckInv

LEMMA StopsChecked ==
  ASSUME CheckedInv, Stops
  PROVE  WorkerInv' /\ CheckInv'
<1>1. /\ outcome' \in {"cancelled", "plan", "stopped"}
      /\ UNCHANGED <<cancelled, queue, queued, worker, job>>
  BY StopStep DEF diagnosticsVars
<1>2. WorkerInv'
  BY <1>1, WorkerStays DEF CheckedInv
<1> QED BY <1>1, <1>2 DEF CheckInv

\* The queue grows at its end, by a file that waits in it from then on.
LEMMA EnqueueQueues ==
  ASSUME DiagnosticsTypeOK, WorkerInv, NEW f \in Files, Enqueue(f)
  PROVE  /\ InQueue(f)' /\ \A g \in Files : InQueue(g) => InQueue(g)'
         /\ \A g \in queued' : InQueue(g)'
<1>1. CASE f \in queued
  BY <1>1 DEF Enqueue, WorkerInv, InQueue, DiagnosticsTypeOK
<1>2. CASE f \notin queued
  <2>1. queue' = Append(queue, f) /\ queued' = queued \cup {f} /\ queue \in Seq(Files)
        /\ queued \subseteq Files
    BY <1>2 DEF Enqueue, DiagnosticsTypeOK
  <2>2. InQueue(f)'
    <3>1. Len(queue) + 1 \in DOMAIN queue' /\ queue'[Len(queue) + 1] = f
      BY <2>1
    <3> QED BY <3>1 DEF InQueue
  <2>3. \A g \in Files : InQueue(g) => InQueue(g)'
    <3>1. \A i \in DOMAIN queue : i \in DOMAIN queue' /\ queue'[i] = queue[i]
      BY <2>1
    <3> QED BY <3>1 DEF InQueue
  <2> QED BY <2>1, <2>2, <2>3 DEF WorkerInv
<1> QED BY <1>1, <1>2

LEMMA RecordChecked ==
  ASSUME CheckedInv, RecordResult
  PROVE  WorkerInv' /\ CheckInv'
<1>1. /\ step = "record"
      /\ outcomes \in Seq(Comings) /\ outcomes # <<>> /\ index \in Nat \ {0}
      /\ \A k \in DOMAIN outcomes : outcomes[k] = "changed" => Len(outcomes) = 1
      /\ Head(outcomes) \in Comes(reply.calls[index]) /\ reply.calls[index] \in Calls
  <2>1. step = "record"
    BY DEF RecordResult
  <2> QED BY <2>1, NextCall DEF CheckedInv, TypeInv, BatchInv, InBatch
<1>2. UNCHANGED <<cancelled, version, job, judged, outcome, waited>>
  BY DEF RecordResult
<1>3. outcome = "running" /\ \A f \in Files : Covered(f)
  BY <1>1 DEF CheckedInv, TypeInv, EndOK, CheckInv
<1>4. CASE Head(outcomes) = "changed"
  <2> DEFINE g == reply.calls[index]
  <2>1. g \in Files /\ Enqueue(g)
    BY <1>1, <1>4, ComesTo DEF RecordResult
  <2>2. WorkerInv'
    <3>1. worker' # "busy" => worker # "busy"
      BY <2>1, EnqueueType DEF CheckedInv, TypeInv
    <3>2. worker' = "off" => queue' = <<>>
      BY <2>1, EnqueueType DEF CheckedInv, TypeInv
    <3> QED BY <1>2, <2>1, <3>1, <3>2, EnqueueQueues DEF CheckedInv, TypeInv, WorkerInv
  <2>3. ASSUME NEW f \in Files PROVE Covered(f)'
    <3>1. CASE f = g
      BY <2>1, <3>1, EnqueueQueues DEF CheckedInv, TypeInv, Covered
    <3>2. CASE InQueue(f)
      BY <2>1, <3>2, EnqueueQueues DEF CheckedInv, TypeInv, Covered
    <3>3. CASE f # g
      <4>1. ~Coming(f)
        BY <1>1, <1>4, <3>3 DEF Coming
      <4> QED BY <1>2, <1>3, <3>2, <4>1 DEF Covered
    <3> QED BY <3>1, <3>3
  <2> QED BY <1>2, <1>3, <2>2, <2>3 DEF CheckInv
<1>5. CASE Head(outcomes) # "changed"
  <2>1. UNCHANGED <<queue, queued, results, worker>>
    BY <1>5 DEF RecordResult
  <2>2. WorkerInv'
    BY <1>2, <2>1, WorkerStays DEF CheckedInv
  <2>3. \A f \in Files : ~Coming(f)
    BY <1>1, <1>5 DEF Coming
  <2>4. \A f \in Files : Covered(f)'
    BY <1>2, <1>3, <2>1, <2>3 DEF Covered, InQueue
  <2> QED BY <1>2, <1>3, <2>2, <2>4 DEF CheckInv
<1> QED BY <1>4, <1>5

LEMMA WorkerChecked ==
  ASSUME CheckedInv, Worker, UNCHANGED loopVars
  PROVE  WorkerInv' /\ CheckInv'
<1>0. /\ UNCHANGED <<outcome, waited, step, outcomes, reply, index>>
      /\ \A f \in Files : Coming(f)' <=> Coming(f)
  BY DEF loopVars, requestVars, batchVars, Coming
<1>1. CASE Take
  <2> DEFINE h == Head(queue)
  <2>1. /\ worker = "free" /\ queue \in Seq(Files) /\ queue # <<>> /\ job = {}
        /\ worker' = "busy" /\ job' = {[file |-> h, at |-> version[h]]}
        /\ queue' = Tail(queue) /\ queued' = queued \ {h}
        /\ UNCHANGED <<cancelled, version, results, judged>>
    BY <1>1 DEF Take, CheckedInv, WorkerInv, TypeInv, DiagnosticsTypeOK
  <2>2. ASSUME NEW f \in Files, f # h, InQueue(f) PROVE InQueue(f)'
    <3>1. PICK i \in DOMAIN queue : queue[i] = f
      BY <2>2 DEF InQueue
    <3>2. i - 1 \in DOMAIN queue' /\ queue'[i - 1] = f
      BY <2>1, <2>2, <3>1
    <3> QED BY <3>2 DEF InQueue
  <2>3. WorkerInv'
    BY <2>1, <2>2 DEF CheckedInv, TypeInv, DiagnosticsTypeOK, WorkerInv
  <2>4. ASSUME outcome' = "running", NEW f \in Files PROVE Covered(f)'
    <3>1. Covered(f)
      BY <1>0, <2>4 DEF CheckedInv, CheckInv
    <3>2. CASE f = h
      BY <2>1, <3>2 DEF Covered
    <3>3. CASE f # h
      BY <1>0, <2>1, <2>2, <3>1, <3>3 DEF Covered
    <3> QED BY <3>2, <3>3
  <2> QED BY <1>0, <2>1, <2>3, <2>4 DEF CheckedInv, CheckInv
<1>2. CASE ReadFile
  <2>1. PICK j \in job : job' = {[j EXCEPT !.at = version[j.file]]}
    BY <1>2 DEF ReadFile
  <2>2. UNCHANGED <<cancelled, version, queue, queued, results, worker, judged>>
    BY <1>2 DEF ReadFile
  <2>3. worker = "busy" /\ job = {j} /\ j \in [file : Files, at : Nat]
    BY <2>1 DEF CheckedInv, WorkerInv, TypeInv, DiagnosticsTypeOK
  <2>4. job' = {[file |-> j.file, at |-> version[j.file]]}
    BY <2>1, <2>3
  <2>5. WorkerInv'
    BY <2>2, <2>3, <2>4 DEF CheckedInv, WorkerInv, InQueue
  <2>6. \A f \in Files : Covered(f) => Covered(f)'
    BY <1>0, <2>2, <2>3, <2>4 DEF Covered, InQueue
  <2> QED BY <1>0, <2>2, <2>3, <2>5, <2>6 DEF CheckedInv, CheckInv
<1>3. CASE \E found \in BOOLEAN : StoreVerdict(found)
  <2>1. PICK j \in job : judged' = [judged EXCEPT ![j.file] = j.at]
    BY <1>3 DEF StoreVerdict
  <2>2. /\ worker' = "free" /\ job' = {}
        /\ UNCHANGED <<cancelled, version, queue, queued>>
    BY <1>3 DEF StoreVerdict
  <2>3. worker = "busy" /\ job = {j} /\ j.file \in Files /\ judged \in [Files -> Nat]
    BY <2>1 DEF CheckedInv, WorkerInv, TypeInv, DiagnosticsTypeOK
  <2>4. WorkerInv'
    BY <2>2, <2>3 DEF CheckedInv, WorkerInv, InQueue
  <2>5. \A f \in Files : Covered(f) => Covered(f)'
    BY <1>0, <2>1, <2>2, <2>3 DEF Covered, InQueue
  <2> QED BY <1>0, <2>2, <2>3, <2>4, <2>5 DEF CheckedInv, CheckInv
<1>4. CASE WorkerExits
  <2>1. /\ worker' = "off" /\ (queue = <<>> \/ cancelled) /\ job = {}
        /\ UNCHANGED <<cancelled, version, queue, queued, results, job, judged>>
        /\ worker = "free"
    BY <1>4 DEF WorkerExits, CheckedInv, WorkerInv
  <2>2. WorkerInv'
    BY <2>1 DEF CheckedInv, WorkerInv, InQueue
  <2>3. \A f \in Files : Covered(f) => Covered(f)'
    BY <1>0, <2>1 DEF Covered, InQueue
  <2> QED BY <1>0, <2>1, <2>2, <2>3 DEF CheckedInv, CheckInv
<1> QED BY <1>1, <1>2, <1>3, <1>4 DEF Worker

LEMMA CancelChecked ==
  ASSUME CheckedInv, Cancel \/ UNCHANGED vars
  PROVE  WorkerInv' /\ CheckInv'
<1>1. /\ UNCHANGED <<version, queue, queued, results, worker, job, judged,
                     outcome, waited, step, outcomes, reply, index>>
      /\ cancelled => cancelled'
  BY DEF Cancel, vars, loopVars, diagnosticsVars, requestVars, batchVars
<1>2. WorkerInv'
  BY <1>1 DEF CheckedInv, WorkerInv, InQueue
<1>3. \A f \in Files : Covered(f) => Covered(f)'
  BY <1>1 DEF Covered, InQueue, Coming
<1> QED BY <1>1, <1>2, <1>3 DEF CheckedInv, CheckInv

LEMMA CheckedStep == CheckedInv /\ [Next]_vars => CheckedInv'
<1> SUFFICES ASSUME CheckedInv, [Next]_vars PROVE CheckedInv'
  OBVIOUS
<1>1. TypeInv'
  BY TypeStep DEF CheckedInv
<1>2. WorkerInv' /\ CheckInv'
  BY StepCases, RequestsChecked, TurnsChecked, BatchTurnChecked, ExecuteChecked,
     StopsChecked, RecordChecked, WorkerChecked, CancelChecked DEF Diagnose
<1> QED BY <1>1, <1>2 DEF CheckedInv

\* An answer comes after the checks (async_diagnostics.go, drainFinal): the last content
\* of every edited file was judged and what was found is told, because the change of a
\* file is either judged or still to be, from the edit on, and a worker runs for it.
THEOREM ChecksBeforeAnswer == Spec => []AnswerAfterChecks
<1>1. CheckedInv => AnswerAfterChecks
  BY DEF CheckedInv, CheckInv, AnswerAfterChecks
<1> QED BY InitChecked, CheckedStep, <1>1, PTL DEF Spec


-----------------------------------------------------------------------------
(* What the operators of Transcript do to a history that is well formed.   *)

Items ==
  {User} \cup {Assistant(t, n) : t, n \in Nat} \cup {Result(Call(t, n)) : t, n \in Nat}
    \cup {Aborted(Call(t, n)) : t, n \in Nat}
Histories == {m \in Seq(Items) : m # <<>>}

LEMMA AssistantIs ==
  ASSUME NEW t \in Nat, NEW n \in Nat
  PROVE  /\ Assistant(t, n).role = "assistant"
         /\ Len(Assistant(t, n).calls) = n /\ DOMAIN Assistant(t, n).calls = 1..n
         /\ \A k \in 1..n : Assistant(t, n).calls[k] = Call(t, k)
<1>1. Assistant(t, n).calls = [i \in 1..n |-> Call(t, i)] /\ Assistant(t, n).role = "assistant"
  BY DEF Assistant
<1>2. [i \in 1..n |-> Call(t, i)] \in Seq({Call(t, i) : i \in 1..n})
  OBVIOUS
<1> QED BY <1>1, <1>2

LEMMA AssistantCalls ==
  ASSUME NEW x \in Items, x.role = "assistant"
  PROVE  /\ Len(x.calls) \in Nat /\ DOMAIN x.calls = 1..Len(x.calls)
         /\ \E t, n \in Nat : x = Assistant(t, n)
<1>1. \E t, n \in Nat : x = Assistant(t, n)
  BY DEF Items, User, Result, Aborted
<1> QED BY <1>1, AssistantIs

\* WellFormed but for the answers to the calls at p.
Paired(m, p) ==
  /\ m[1].role = "user"
  /\ \A i \in DOMAIN m \ {p} :
       m[i].role = "assistant" => AnsweredAt(m, i + 1, m[i].calls)
  /\ \A i \in DOMAIN m :
       m[i].role = "tool" =>
         \E j \in 1..(i - 1) : m[j].role = "assistant" /\ i <= j + Len(m[j].calls)

LEMMA WellFormedPaired ==
  ASSUME NEW m \in Histories
  PROVE  WellFormed(m) <=> Paired(m, 0)
BY DEF Histories, WellFormed, Paired

LEMMA AnsweredStays ==
  ASSUME NEW m \in Histories, NEW w \in Histories, Len(m) <= Len(w),
         \A i \in DOMAIN m : w[i] = m[i],
         NEW calls, Len(calls) \in Nat, DOMAIN calls = 1..Len(calls),
         NEW i \in Nat \ {0}, AnsweredAt(m, i, calls)
  PROVE  AnsweredAt(w, i, calls)
<1>1. /\ i + Len(calls) - 1 <= Len(m)
      /\ \A k \in DOMAIN calls : m[i + k - 1].role = "tool" /\ m[i + k - 1].call = calls[k]
  BY DEF AnsweredAt
<1>2. Len(m) \in Nat /\ Len(w) \in Nat /\ DOMAIN m = 1..Len(m)
  BY DEF Histories
<1>3. i + Len(calls) - 1 <= Len(w)
  BY <1>1, <1>2
<1>4. \A k \in DOMAIN calls : i + k - 1 \in DOMAIN m
  BY <1>1, <1>2
<1> QED BY <1>1, <1>3, <1>4 DEF AnsweredAt

LEMMA NoAnswers ==
  ASSUME NEW w \in Histories, NEW calls, Len(calls) = 0, DOMAIN calls = 1..0
  PROVE  AnsweredAt(w, Len(w) + 1, calls)
BY DEF AnsweredAt, Histories

\* A longer history is as well paired when what was appended is.
LEMMA PairedLonger ==
  ASSUME NEW m \in Histories, NEW w \in Histories, Len(m) <= Len(w),
         \A i \in DOMAIN m : w[i] = m[i],
         NEW p \in Nat, NEW q \in Nat, Paired(m, p),
         \A i \in DOMAIN w \ DOMAIN m :
           /\ w[i].role = "assistant" /\ i # q => AnsweredAt(w, i + 1, w[i].calls)
           /\ w[i].role = "tool" =>
                \E j \in 1..(i - 1) : w[j].role = "assistant" /\ i <= j + Len(w[j].calls),
         p \in DOMAIN m /\ p # q => AnsweredAt(w, p + 1, w[p].calls)
  PROVE  Paired(w, q)
<1>1. /\ Len(m) \in Nat \ {0} /\ DOMAIN m = 1..Len(m) /\ DOMAIN w = 1..Len(w) /\ Len(w) \in Nat
      /\ \A i \in DOMAIN m : m[i] \in Items
  BY DEF Histories
<1>2. w[1].role = "user"
  BY <1>1 DEF Paired
<1>3. ASSUME NEW i \in DOMAIN w \ {q}, w[i].role = "assistant"
      PROVE  AnsweredAt(w, i + 1, w[i].calls)
  <2>1. CASE i \in DOMAIN m \ {p}
    <3>1. AnsweredAt(m, i + 1, m[i].calls)
      BY <1>3, <2>1 DEF Paired
    <3>2. Len(m[i].calls) \in Nat /\ DOMAIN m[i].calls = 1..Len(m[i].calls)
      BY <1>1, <1>3, <2>1, AssistantCalls
    <3>3. i + 1 \in Nat \ {0} /\ w[i] = m[i]
      BY <1>1, <2>1
    <3> QED BY <3>1, <3>2, <3>3, AnsweredStays
  <2>2. CASE i \notin DOMAIN m
    BY <1>3, <2>2
  <2>3. CASE i = p /\ i \in DOMAIN m
    BY <1>3, <2>3
  <2> QED BY <2>1, <2>2, <2>3
<1>4. ASSUME NEW i \in DOMAIN w, w[i].role = "tool"
      PROVE  \E j \in 1..(i - 1) : w[j].role = "assistant" /\ i <= j + Len(w[j].calls)
  <2>1. CASE i \in DOMAIN m
    <3>1. PICK j \in 1..(i - 1) : m[j].role = "assistant" /\ i <= j + Len(m[j].calls)
      BY <1>4, <2>1 DEF Paired
    <3>2. j \in DOMAIN m
      BY <1>1, <2>1
    <3> QED BY <3>1, <3>2
  <2>2. CASE i \notin DOMAIN m
    BY <1>4, <2>2
  <2> QED BY <2>1, <2>2
<1> QED BY <1>2, <1>3, <1>4 DEF Paired

LEMMA AppendHistory ==
  ASSUME NEW m \in Histories, NEW x \in Items
  PROVE  /\ Append(m, x) \in Histories /\ Len(Append(m, x)) = Len(m) + 1
         /\ \A i \in DOMAIN m : Append(m, x)[i] = m[i]
         /\ Append(m, x)[Len(m) + 1] = x
         /\ DOMAIN Append(m, x) \ DOMAIN m = {Len(m) + 1}
         /\ Len(m) \in Nat \ {0}
BY DEF Histories

LEMMA WithUserIs ==
  ASSUME NEW m \in Histories
  PROVE  WithUser(m) = m \/ WithUser(m) = Append(m, User)
BY DEF WithUser

LEMMA WithUserWellFormed ==
  ASSUME NEW m \in Histories, WellFormed(m)
  PROVE  WithUser(m) \in Histories /\ WellFormed(WithUser(m))
<1>1. CASE WithUser(m) = Append(m, User)
  <2> DEFINE w == Append(m, User)
  <2>1. User \in Items /\ User.role = "user"
    BY DEF Items, User
  <2>2. /\ w \in Histories /\ Len(w) = Len(m) + 1 /\ \A i \in DOMAIN m : w[i] = m[i]
        /\ w[Len(m) + 1] = User /\ DOMAIN w \ DOMAIN m = {Len(m) + 1}
        /\ Len(m) \in Nat \ {0}
    BY <2>1, AppendHistory
  <2> HIDE DEF w
  <2>3. Paired(w, 0)
    <3>1. \A i \in DOMAIN w \ DOMAIN m : w[i].role = "user"
      BY <2>1, <2>2
    <3>2. Paired(m, 0) /\ 0 \in Nat /\ 0 \notin DOMAIN m /\ Len(m) <= Len(w)
      BY <2>2, WellFormedPaired DEF Histories
    <3> QED BY <2>2, <3>1, <3>2, PairedLonger
  <2> QED BY <1>1, <2>2, <2>3, WellFormedPaired DEF w
<1> QED BY <1>1, WithUserIs

\* An assistant message without calls needs no answers, one with calls opens a batch.
LEMMA ClosedWellFormed ==
  ASSUME NEW m \in Histories, NEW t \in Nat, WellFormed(m)
  PROVE  Append(m, Assistant(t, 0)) \in Histories /\ WellFormed(Append(m, Assistant(t, 0)))
<1> DEFINE w == Append(m, Assistant(t, 0))
<1>1. Assistant(t, 0) \in Items
  BY DEF Items
<1>2. /\ w \in Histories /\ Len(w) = Len(m) + 1 /\ \A i \in DOMAIN m : w[i] = m[i]
      /\ w[Len(m) + 1] = Assistant(t, 0) /\ DOMAIN w \ DOMAIN m = {Len(m) + 1}
      /\ Len(m) \in Nat \ {0}
  BY <1>1, AppendHistory
<1> HIDE DEF w
<1>3. w[Len(m) + 1].role = "assistant" /\ Len(w[Len(m) + 1].calls) = 0
      /\ DOMAIN w[Len(m) + 1].calls = 1..0
  BY <1>2, AssistantIs
<1>4. AnsweredAt(w, Len(m) + 1 + 1, w[Len(m) + 1].calls)
  BY <1>2, <1>3, NoAnswers
<1>5. Paired(w, 0)
  <2>1. Paired(m, 0) /\ 0 \in Nat /\ 0 \notin DOMAIN m /\ Len(m) <= Len(w)
    BY <1>2, WellFormedPaired DEF Histories
  <2> QED BY <1>2, <1>3, <1>4, <2>1, PairedLonger
<1> QED BY <1>2, <1>5, WellFormedPaired DEF w


LEMMA SafeBoundaryIs ==
  ASSUME NEW m \in Histories, NEW p \in 1..Len(m), SafeBoundary(m, p) # 1
  PROVE  SafeBoundary(m, p) \in 2..Len(m) /\ m[SafeBoundary(m, p)].role = "assistant"
<1> DEFINE starts == {i \in 1..p : m[i].role = "assistant"}
<1>1. SafeBoundary(m, p) =
        IF starts = {} THEN 1 ELSE CHOOSE i \in starts : \A j \in starts : j <= i
  BY DEF SafeBoundary
<1>2. starts # {} /\ starts \subseteq 0..p /\ p \in Nat /\ Len(m) \in Nat
  BY <1>1 DEF Histories
<1>3. SafeBoundary(m, p) \in starts
  <2> HIDE DEF starts
  <2>1. \E i \in starts : \A j \in starts : j <= i
    BY <1>2, Greatest
  <2> QED BY <1>1, <1>2, <2>1
<1> QED BY <1>2, <1>3

\* What remains after a compaction.
LEMMA SuffixIs ==
  ASSUME NEW m \in Histories, NEW b \in 2..Len(m)
  PROVE  LET w == <<User>> \o SubSeq(m, b, Len(m))
         IN  /\ w \in Histories /\ Len(w) = Len(m) - b + 2 /\ w[1] = User
             /\ \A i \in 2..Len(w) : w[i] = m[b + i - 2]
             /\ DOMAIN w = 1..Len(w) /\ Len(m) \in Nat
<1>1. User \in Items /\ <<User>> \in Seq(Items) /\ Len(m) \in Nat /\ m \in Seq(Items)
  BY DEF Items, Histories
<1>2. /\ SubSeq(m, b, Len(m)) \in Seq(Items)
      /\ Len(SubSeq(m, b, Len(m))) = Len(m) - b + 1
      /\ \A i \in 1..Len(m) - b + 1 : SubSeq(m, b, Len(m))[i] = m[b + i - 1]
  BY <1>1, SubSeqProperties
<1> DEFINE s == SubSeq(m, b, Len(m))
           w == <<User>> \o s
<1> HIDE DEF s
<1>3. w \in Seq(Items) /\ Len(w) = Len(m) - b + 2 /\ w[1] = User
  BY <1>1, <1>2 DEF s
<1>4. ASSUME NEW i \in 2..Len(w) PROVE w[i] = m[b + i - 2]
  <2>1. i - 1 \in 1..Len(m) - b + 1 /\ i \in Nat
    BY <1>1, <1>3
  <2>2. w[i] = s[i - 1]
    BY <1>1, <1>2, <2>1 DEF s
  <2>3. s[i - 1] = m[b + (i - 1) - 1]
    BY <1>2, <2>1 DEF s
  <2> QED BY <2>1, <2>2, <2>3
<1>5. w # <<>>
  BY <1>1, <1>3
<1> QED BY <1>1, <1>3, <1>4, <1>5 DEF Histories, s


\* The suffix starts on an assistant message, so no answer in it lost its call.
LEMMA SuffixWellFormed ==
  ASSUME NEW m \in Histories, WellFormed(m), NEW b \in 2..Len(m), m[b].role = "assistant"
  PROVE  WellFormed(<<User>> \o SubSeq(m, b, Len(m)))
<1> DEFINE w == <<User>> \o SubSeq(m, b, Len(m))
<1>1. /\ w \in Histories /\ Len(w) = Len(m) - b + 2 /\ w[1] = User
      /\ \A i \in 2..Len(w) : w[i] = m[b + i - 2]
      /\ DOMAIN w = 1..Len(w) /\ Len(m) \in Nat
  BY SuffixIs
<1> HIDE DEF w
<1>0. b \in Nat /\ 2 <= b /\ b <= Len(m) /\ Len(m) \in Nat
  BY <1>1
<1>2. User.role = "user"
  BY DEF User
<1>3. DOMAIN m = 1..Len(m) /\ \A i \in DOMAIN m : m[i] \in Items
  BY DEF Histories
<1>4. ASSUME NEW i \in DOMAIN w, w[i].role = "assistant"
      PROVE  AnsweredAt(w, i + 1, w[i].calls)
  <2>1. i \in 2..Len(w) /\ w[i] = m[b + i - 2] /\ b + i - 2 \in DOMAIN m
    BY <1>1, <1>2, <1>3, <1>4
  <2> DEFINE c == w[i].calls
  <2>2. AnsweredAt(m, (b + i - 2) + 1, c)
    BY <1>4, <2>1 DEF WellFormed
  <2>3. Len(c) \in Nat /\ DOMAIN c = 1..Len(c)
    BY <1>3, <1>4, <2>1, AssistantCalls
  <2> HIDE DEF c
  <2>4. /\ (b + i - 2) + 1 + Len(c) - 1 <= Len(m)
        /\ \A k \in DOMAIN c : /\ m[(b + i - 2) + 1 + k - 1].role = "tool"
                               /\ m[(b + i - 2) + 1 + k - 1].call = c[k]
    BY <2>2 DEF AnsweredAt
  <2>5. (i + 1) + Len(c) - 1 <= Len(w)
    BY <1>1, <2>1, <2>3, <2>4
  <2>6. ASSUME NEW k \in DOMAIN c
        PROVE  w[(i + 1) + k - 1] = m[(b + i - 2) + 1 + k - 1]
    <3>1. i + k \in 2..Len(w) /\ (i + 1) + k - 1 = i + k
          /\ (b + i - 2) + 1 + k - 1 = b + (i + k) - 2
      <4>1. i \in Nat /\ 2 <= i /\ k \in Nat /\ 1 <= k /\ k <= Len(c) /\ Len(w) \in Nat
        BY <1>0, <1>1, <2>1, <2>3
      <4>2. i + k <= Len(w)
        BY <2>3, <2>5, <4>1
      <4>3. i + k \in 2..Len(w)
        BY <4>1, <4>2
      <4>4. (i + 1) + k - 1 = i + k
        BY <4>1
      <4>5. (b + i - 2) + 1 + k - 1 = b + (i + k) - 2
        BY <1>0, <4>1
      <4> QED BY <4>3, <4>4, <4>5
    <3> QED BY <1>1, <3>1
  <2>7. AnsweredAt(w, i + 1, c)
    BY <2>4, <2>5, <2>6 DEF AnsweredAt
  <2> QED BY <2>7 DEF c
<1>5. ASSUME NEW i \in DOMAIN w, w[i].role = "tool"
      PROVE  \E j \in 1..(i - 1) : w[j].role = "assistant" /\ i <= j + Len(w[j].calls)
  <2>1. i \in 2..Len(w) /\ w[i] = m[b + i - 2] /\ b + i - 2 \in DOMAIN m
    BY <1>1, <1>2, <1>3, <1>5
  <2>2. PICK j \in 1..(b + i - 2) - 1 : m[j].role = "assistant"
                                        /\ b + i - 2 <= j + Len(m[j].calls)
    BY <1>5, <2>1 DEF WellFormed
  <2>3. j \in DOMAIN m /\ Len(m[j].calls) \in Nat /\ DOMAIN m[j].calls = 1..Len(m[j].calls)
    BY <1>3, <2>1, <2>2, AssistantCalls
  <2>4. j >= b
    <3>1. SUFFICES ASSUME j < b PROVE FALSE
      BY <2>3
    <3>2. AnsweredAt(m, j + 1, m[j].calls)
      BY <2>2, <2>3 DEF WellFormed
    <3>3. b - j \in DOMAIN m[j].calls /\ (j + 1) + (b - j) - 1 = b
      <4>1. j \in Nat /\ i \in Nat /\ 2 <= i /\ b <= j + Len(m[j].calls)
        <5> DEFINE l == Len(m[j].calls)
        <5>1. j \in Nat
          BY <1>3, <2>3
        <5>2. i \in Nat /\ 2 <= i
          BY <1>0, <1>1, <2>1
        <5>3. b + i - 2 <= j + l /\ l \in Nat
          BY <2>2, <2>3
        <5> HIDE DEF l
        <5>4. b <= j + l
          BY <1>0, <5>1, <5>2, <5>3
        <5> QED BY <5>1, <5>2, <5>4 DEF l
      <4>2. b - j \in 1..Len(m[j].calls)
        BY <1>0, <2>3, <3>1, <4>1
      <4>3. (j + 1) + (b - j) - 1 = b
        BY <1>0, <4>1
      <4> QED BY <2>3, <4>2, <4>3
    <3>4. m[(j + 1) + (b - j) - 1].role = "tool"
      BY <3>2, <3>3 DEF AnsweredAt
    <3> QED BY <3>3, <3>4
  <2>5. j - b + 2 \in 1..(i - 1) /\ j - b + 2 \in 2..Len(w) /\ b + (j - b + 2) - 2 = j
    <3>1. /\ j \in Nat /\ j <= (b + i - 2) - 1 /\ j <= Len(m) /\ j >= b /\ i \in Nat
          /\ Len(w) = Len(m) - b + 2
      BY <1>0, <1>1, <1>3, <2>1, <2>2, <2>3, <2>4
    <3> DEFINE l == Len(m)
               k == j - b + 2
    <3>2. l \in Nat /\ j <= l /\ Len(w) = l - b + 2
      BY <1>0, <3>1
    <3> HIDE DEF l
    <3>3. k \in Nat /\ k >= 2 /\ k <= i - 1 /\ b + k - 2 = j /\ i - 1 \in Nat
      BY <1>0, <3>1
    <3>4. k <= l - b + 2 /\ l - b + 2 \in Nat
      BY <1>0, <3>1, <3>2
    <3> HIDE DEF k
    <3>5. k \in 1..(i - 1)
      BY <3>3
    <3>6. k \in 2..Len(w)
      BY <3>2, <3>3, <3>4
    <3> QED BY <3>3, <3>5, <3>6 DEF k
  <2>6. w[j - b + 2] = m[j]
    BY <1>1, <2>5
  <2>7. i <= (j - b + 2) + Len(m[j].calls)
    <3>1. j \in Nat /\ i \in Nat
      BY <1>0, <1>1, <2>1, <2>2
    <3> QED BY <1>0, <2>2, <2>3, <3>1
  <2> QED BY <2>2, <2>5, <2>6, <2>7
<1>6. WellFormed(w)
  BY <1>1, <1>2, <1>4, <1>5 DEF WellFormed
<1> QED BY <1>6 DEF w

LEMMA CompactionIs ==
  ASSUME NEW m \in Histories, NEW w \in Compactions(m)
  PROVE  \E b \in 2..Len(m) :
           m[b].role = "assistant" /\ w = WithUser(<<User>> \o SubSeq(m, b, Len(m)))
<1>1. PICK p \in 1..Len(m) :
        /\ SafeBoundary(m, p) # 1
        /\ w = WithUser(<<User>> \o SubSeq(m, SafeBoundary(m, p), Len(m)))
  BY DEF Compactions
<1> QED BY <1>1, SafeBoundaryIs

Good(m) == m \in Histories /\ WellFormed(m)

LEMMA CompactedGood ==
  ASSUME NEW m, Good(m), NEW w \in Compacted(m)
  PROVE  Good(w)
<1>1. CASE w \in Compactions(m)
  <2>1. PICK b \in 2..Len(m) :
          m[b].role = "assistant" /\ w = WithUser(<<User>> \o SubSeq(m, b, Len(m)))
    BY <1>1, CompactionIs DEF Good
  <2>2. Good(<<User>> \o SubSeq(m, b, Len(m)))
    BY <2>1, SuffixIs, SuffixWellFormed DEF Good
  <2> QED BY <2>1, <2>2, WithUserWellFormed DEF Good
<1> QED BY <1>1, WithUserWellFormed DEF Compacted, Good

\* The steps between turns and the compactions keep a history well formed.
LEMMA GrownGood ==
  ASSUME turn \in Nat, NEW m, Good(m), NEW w \in Grown(m)
  PROVE  Good(w)
<1>1. \A h : Good(h) => Good(WithUser(h)) /\ Good(Closed(h))
  BY WithUserWellFormed, ClosedWellFormed DEF Good, Closed
<1> QED BY <1>1, CompactedGood DEF Grown


\* The last assistant message is at p, of turn t with n calls, and the calls before
\* next have their results after it.
OpenAt(m, p, t, n, next) ==
  /\ p \in DOMAIN m /\ m[p] = Assistant(t, n) /\ Len(m) = p + next - 1
  /\ \A k \in 1..next - 1 : m[p + k] = Result(Call(t, k))
  /\ Paired(m, p)

LEMMA AnswerIs ==
  ASSUME NEW t \in Nat, NEW k \in Nat
  PROVE  /\ Result(Call(t, k)) \in Items /\ Aborted(Call(t, k)) \in Items
         /\ Result(Call(t, k)).role = "tool" /\ Result(Call(t, k)).call = Call(t, k)
         /\ Aborted(Call(t, k)).role = "tool" /\ Aborted(Call(t, k)).call = Call(t, k)
         /\ ~Result(Call(t, k)).aborted /\ Aborted(Call(t, k)).aborted
<1>1. Result(Call(t, k)) \in Items /\ Aborted(Call(t, k)) \in Items
  BY DEF Items
<1> QED BY <1>1 DEF Result, Aborted

LEMMA CallsAnswered ==
  ASSUME NEW w, NEW p \in Nat, NEW t \in Nat, NEW n \in Nat,
         w[p] = Assistant(t, n), p + n <= Len(w),
         \A k \in 1..n : w[p + k].role = "tool" /\ w[p + k].call = Call(t, k)
  PROVE  AnsweredAt(w, p + 1, w[p].calls)
<1> DEFINE c == w[p].calls
<1>1. Len(c) = n /\ DOMAIN c = 1..n /\ \A k \in 1..n : c[k] = Call(t, k)
  BY AssistantIs
<1> HIDE DEF c
<1>2. (p + 1) + Len(c) - 1 = p + n /\ \A k \in 1..n : (p + 1) + k - 1 = p + k
  BY <1>1
<1>3. AnsweredAt(w, p + 1, c)
  BY <1>1, <1>2 DEF AnsweredAt
<1> QED BY <1>3 DEF c

LEMMA BatchOpens ==
  ASSUME NEW m, Good(m), NEW t \in Nat, NEW n \in Nat
  PROVE  LET w == Append(m, Assistant(t, n))
         IN  w \in Histories /\ OpenAt(w, Len(m) + 1, t, n, 1)
<1> DEFINE w == Append(m, Assistant(t, n))
<1>1. Assistant(t, n) \in Items /\ m \in Histories
  BY DEF Items, Good
<1>2. /\ w \in Histories /\ Len(w) = Len(m) + 1 /\ \A i \in DOMAIN m : w[i] = m[i]
      /\ w[Len(m) + 1] = Assistant(t, n) /\ DOMAIN w \ DOMAIN m = {Len(m) + 1}
      /\ Len(m) \in Nat \ {0}
  BY <1>1, AppendHistory
<1> HIDE DEF w
<1>3. w[Len(m) + 1].role = "assistant" /\ Len(m) + 1 \in Nat /\ Len(m) + 1 \in DOMAIN w
  BY <1>2, AssistantIs
<1>4. Paired(w, Len(m) + 1)
  <2>1. Paired(m, 0) /\ 0 \in Nat /\ 0 \notin DOMAIN m /\ Len(m) <= Len(w)
    BY <1>1, <1>2, WellFormedPaired DEF Histories, Good
  <2> QED BY <1>1, <1>2, <1>3, <2>1, PairedLonger
<1> QED BY <1>2, <1>3, <1>4 DEF OpenAt, w

LEMMA OpenRecords ==
  ASSUME NEW m \in Histories, NEW p \in Nat, NEW t \in Nat, NEW n \in Nat, NEW next \in 1..n,
         OpenAt(m, p, t, n, next)
  PROVE  LET w == Append(m, Result(Call(t, next)))
         IN  w \in Histories /\ OpenAt(w, p, t, n, next + 1)
<1> DEFINE w == Append(m, Result(Call(t, next)))
<1>1. /\ Result(Call(t, next)) \in Items /\ Result(Call(t, next)).role = "tool"
  BY AnswerIs
<1>2. /\ w \in Histories /\ Len(w) = Len(m) + 1 /\ \A i \in DOMAIN m : w[i] = m[i]
      /\ w[Len(m) + 1] = Result(Call(t, next)) /\ DOMAIN w \ DOMAIN m = {Len(m) + 1}
      /\ Len(m) \in Nat \ {0}
  BY <1>1, AppendHistory
<1> HIDE DEF w
<1>3. p \in DOMAIN m /\ m[p] = Assistant(t, n) /\ Len(m) = p + next - 1 /\ DOMAIN m = 1..Len(m)
  BY DEF OpenAt, Histories
<1>4. w[p].role = "assistant" /\ Len(w[p].calls) = n
  BY <1>2, <1>3, AssistantIs
<1>5. Len(m) + 1 <= p + n /\ p \in 1..(Len(m) + 1) - 1
  BY <1>2, <1>3
<1>6. Paired(w, p)
  <2>1. \A i \in DOMAIN w \ DOMAIN m :
          /\ w[i].role = "tool"
          /\ \E j \in 1..(i - 1) : w[j].role = "assistant" /\ i <= j + Len(w[j].calls)
    BY <1>1, <1>2, <1>4, <1>5
  <2>2. Paired(m, p) /\ Len(m) <= Len(w)
    BY <1>2 DEF OpenAt
  <2> QED BY <1>2, <2>1, <2>2, PairedLonger
<1>7. ASSUME NEW k \in 1..(next + 1) - 1 PROVE w[p + k] = Result(Call(t, k))
  <2>1. CASE k = next
    BY <1>2, <1>3, <2>1
  <2>2. CASE k # next
    <3>1. k \in 1..next - 1 /\ p + k \in DOMAIN m
      BY <1>3, <2>2
    <3> QED BY <1>2, <3>1 DEF OpenAt
  <2> QED BY <2>1, <2>2
<1>8. p \in DOMAIN w /\ w[p] = Assistant(t, n) /\ Len(w) = p + (next + 1) - 1
  BY <1>2, <1>3 DEF Histories
<1> QED BY <1>2, <1>6, <1>7, <1>8 DEF OpenAt, w

LEMMA OpenCompletes ==
  ASSUME NEW m \in Histories, NEW p \in Nat, NEW t \in Nat, NEW n \in Nat,
         OpenAt(m, p, t, n, n + 1)
  PROVE  WellFormed(m)
<1>1. /\ p \in DOMAIN m /\ m[p] = Assistant(t, n) /\ Len(m) = p + n
      /\ \A k \in 1..n : m[p + k] = Result(Call(t, k))
  BY DEF OpenAt
<1>2. AnsweredAt(m, p + 1, m[p].calls)
  <2>1. \A k \in 1..n : m[p + k].role = "tool" /\ m[p + k].call = Call(t, k)
    BY <1>1, AnswerIs
  <2>2. m[p] = Assistant(t, n) /\ p + n <= Len(m)
    BY <1>1
  <2> QED BY <2>1, <2>2, CallsAnswered, Zenon
<1>3. Paired(m, p) /\ Len(m) <= Len(m) /\ DOMAIN m \ DOMAIN m = {}
  BY DEF OpenAt, Histories
<1>4. Paired(m, 0)
  BY <1>2, <1>3, PairedLonger
<1> QED BY <1>4, WellFormedPaired


LEMMA Joined ==
  ASSUME NEW m \in Seq(Items), NEW s \in Seq(Items)
  PROVE  /\ Len(m \o s) = Len(m) + Len(s)
         /\ \A i \in 1..Len(m) : (m \o s)[i] = m[i]
         /\ \A k \in 1..Len(s) : (m \o s)[Len(m) + k] = s[k]
OBVIOUS

LEMMA Beyond ==
  ASSUME NEW a \in Nat, NEW r \in Nat, NEW i \in 1..a + r, i \notin 1..a
  PROVE  i - a \in 1..r /\ a + (i - a) = i /\ i \in Nat
OBVIOUS

LEMMA OpenCloses ==
  ASSUME NEW m \in Histories, NEW p \in Nat, NEW t \in Nat, NEW n \in Nat,
         NEW next \in 1..n + 1, OpenAt(m, p, t, n, next),
         NEW r \in Nat, r = n + 1 - next, NEW rest \in Seq(Items), Len(rest) = r,
         \A k \in 1..r : rest[k] = Aborted(Call(t, next - 1 + k))
  PROVE  Good(m \o rest)
<1> DEFINE w == m \o rest
<1>2. r \in Nat /\ \A k \in 1..r : next - 1 + k \in Nat
  OBVIOUS
<1>3. rest \in Seq(Items) /\ Len(rest) = r /\ \A k \in 1..r : rest[k] = Aborted(Call(t, next - 1 + k))
  OBVIOUS
<1>4. m \in Seq(Items) /\ Len(m) \in Nat \ {0} /\ DOMAIN m = 1..Len(m)
  BY DEF Histories
<1>5. w \in Seq(Items) /\ Len(w) = Len(m) + r /\ DOMAIN w = 1..Len(m) + r
      /\ (\A i \in DOMAIN m : w[i] = m[i])
      /\ \A k \in 1..r : w[Len(m) + k] = Aborted(Call(t, next - 1 + k))
  <2>1. /\ w \in Seq(Items) /\ Len(w) = Len(m) + r /\ DOMAIN w = 1..Len(w)
        /\ \A i \in 1..Len(m) + r : w[i] = IF i <= Len(m) THEN m[i] ELSE rest[i - Len(m)]
    <3>1. /\ w \in Seq(Items) /\ Len(w) = Len(m) + Len(rest)
          /\ \A i \in 1..Len(m) + Len(rest) :
               w[i] = IF i <= Len(m) THEN m[i] ELSE rest[i - Len(m)]
      BY <1>3, <1>4, ConcatProperties
    <3> HIDE DEF w
    <3> QED BY <1>3, <3>1
  <2>2. \A i \in 1..Len(m) : i \in 1..Len(m) + r /\ i <= Len(m)
    BY <1>2, <1>4
  <2>3. \A k \in 1..r : /\ Len(m) + k \in 1..Len(m) + r /\ ~(Len(m) + k <= Len(m))
                         /\ (Len(m) + k) - Len(m) = k
    BY <1>2, <1>4
  <2> HIDE DEF w
  <2> QED BY <1>3, <1>4, <2>1, <2>2, <2>3
<1> HIDE DEF w
<1>6. w \in Histories
  BY <1>4, <1>5, <1>2 DEF Histories
<1>7. p \in DOMAIN m /\ m[p] = Assistant(t, n) /\ Len(m) = p + next - 1 /\ Len(w) = p + n
  <2>1. p \in DOMAIN m /\ m[p] = Assistant(t, n) /\ Len(m) = p + next - 1
    BY DEF OpenAt
  <2>2. Len(w) = (p + next - 1) + (n + 1 - next)
    BY <1>5, <2>1
  <2> QED BY <2>1, <2>2
<1>8. w[p] = Assistant(t, n) /\ w[p].role = "assistant" /\ Len(w[p].calls) = n
  <2>1. w[p] = Assistant(t, n)
    BY <1>5, <1>7
  <2> QED BY <2>1, AssistantIs
<1>9. ASSUME NEW k \in 1..n PROVE w[p + k].role = "tool" /\ w[p + k].call = Call(t, k)
  <2>1. CASE k \in 1..next - 1
    <3>1. p + k \in DOMAIN m
      BY <1>4, <1>7, <2>1
    <3>2. w[p + k] = Result(Call(t, k))
      BY <1>5, <2>1, <3>1 DEF OpenAt
    <3> QED BY <3>2, AnswerIs
  <2>2. CASE k \notin 1..next - 1
    <3>1. /\ k - next + 1 \in 1..r /\ Len(m) + (k - next + 1) = p + k
          /\ next - 1 + (k - next + 1) = k
      BY <1>7, <2>2
    <3>2. w[p + k] = Aborted(Call(t, k))
      BY <1>5, <3>1
    <3> QED BY <3>2, AnswerIs
  <2> QED BY <2>1, <2>2
<1>10. AnsweredAt(w, p + 1, w[p].calls)
  <2>1. p + n <= Len(w)
    BY <1>7
  <2> QED BY <1>8, <1>9, <2>1, CallsAnswered, Zenon
<1>11. ASSUME NEW i \in DOMAIN w \ DOMAIN m
       PROVE  /\ w[i].role = "tool"
              /\ \E j \in 1..(i - 1) : w[j].role = "assistant" /\ i <= j + Len(w[j].calls)
  <2>1. i - Len(m) \in 1..r /\ Len(m) + (i - Len(m)) = i /\ i \in Nat
    <3>1. i \in 1..Len(m) + r /\ ~(i \in 1..Len(m))
      BY <1>4, <1>5
    <3>2. Len(m) \in Nat /\ r \in Nat
      BY <1>2, <1>4
    <3> QED BY <3>1, <3>2, Beyond, Zenon
  <2>2. w[i].role = "tool"
    <3>1. /\ w[Len(m) + (i - Len(m))] = Aborted(Call(t, next - 1 + (i - Len(m))))
          /\ next - 1 + (i - Len(m)) \in Nat
      BY <1>2, <1>5, <2>1, Zenon
    <3>2. w[i] = Aborted(Call(t, next - 1 + (i - Len(m))))
      BY <2>1, <3>1
    <3>3. Aborted(Call(t, next - 1 + (i - Len(m)))).role = "tool"
      BY <3>1, AnswerIs, Zenon
    <3> QED BY <3>2, <3>3
  <2>3. p \in 1..(i - 1) /\ i <= p + n
    BY <1>4, <1>5, <1>7, <2>1
  <2> QED BY <1>8, <2>2, <2>3
<1>12. Paired(w, 0)
  <2>1. Paired(m, p) /\ Len(m) <= Len(w) /\ 0 \in Nat
    BY <1>2, <1>4, <1>5 DEF OpenAt
  <2> QED BY <1>5, <1>6, <1>10, <1>11, <2>1, PairedLonger
<1>13. Good(w)
  BY <1>6, <1>12, WellFormedPaired DEF Good
<1> QED BY <1>13 DEF w


-----------------------------------------------------------------------------
(* The history answers every call, but for those of a batch that runs.     *)

\* Where the assistant message of the batch is.
Opening == Len(messages) - index + 1

HistoryInv ==
  /\ messages \in Histories
  /\ ~InBatch => WellFormed(messages)
  /\ InBatch => OpenAt(messages, Opening, turn, Len(reply.calls), index)

LEMMA InitHistory == Init => HistoryInv
<1> SUFFICES ASSUME Init PROVE HistoryInv
  OBVIOUS
<1>1. messages = <<User>> /\ ~InBatch
  BY DEF Init, InBatch
<1>2. User \in Items /\ User.role = "user"
  BY DEF Items, User
<1>3. <<User>> \in Seq(Items) /\ <<User>> # <<>> /\ DOMAIN <<User>> = {1} /\ <<User>>[1] = User
  BY <1>2
<1> QED BY <1>1, <1>2, <1>3 DEF HistoryInv, Histories, WellFormed

LEMMA BatchTypes ==
  ASSUME TypeInv, HistoryInv, InBatch
  PROVE  /\ turn \in Nat /\ Len(reply.calls) \in Nat /\ index \in 1..Len(reply.calls)
         /\ Opening \in Nat /\ Opening \in DOMAIN messages
<1>1. turn \in Nat
  BY Limits DEF TypeInv, PolicyOK
<1>2. Len(reply.calls) \in Nat /\ index \in 1..Len(reply.calls)
  BY NextCall
<1>3. Opening \in DOMAIN messages /\ DOMAIN messages = 1..Len(messages)
  BY DEF HistoryInv, OpenAt, Histories
<1> QED BY <1>1, <1>2, <1>3

\* A result is recorded after those of the calls before it.
LEMMA RecordedOpen ==
  ASSUME TypeInv, HistoryInv, step = "record"
  PROVE  /\ Recorded \in Histories /\ Len(Recorded) = Len(messages) + 1
         /\ OpenAt(Recorded, Opening, turn, Len(reply.calls), index + 1)
         /\ Recorded[Len(messages) + 1] = Result(Call(turn, index))
         /\ \A i \in DOMAIN messages : Recorded[i] = messages[i]
<1>1. /\ turn \in Nat /\ Len(reply.calls) \in Nat /\ index \in 1..Len(reply.calls)
      /\ Opening \in Nat /\ messages \in Histories /\ InBatch
      /\ OpenAt(messages, Opening, turn, Len(reply.calls), index)
  BY BatchTypes DEF InBatch, HistoryInv
<1>2. Result(Call(turn, index)) \in Items
  BY <1>1, AnswerIs
<1>3. /\ Append(messages, Result(Call(turn, index))) \in Histories
      /\ OpenAt(Append(messages, Result(Call(turn, index))), Opening, turn,
                Len(reply.calls), index + 1)
  BY <1>1, OpenRecords
<1> QED BY <1>1, <1>2, <1>3, AppendHistory DEF Recorded

\* The run stops in a batch: the rest gets placeholders.
LEMMA ClosedOut ==
  ASSUME TypeInv, HistoryInv, step = "record"
  PROVE  LET w == CloseOut(Recorded, Unanswered)
             r == Len(reply.calls) - index
         IN  /\ Good(w) /\ r \in Nat /\ Len(w) = Len(Recorded) + r
             /\ \A i \in DOMAIN Recorded : w[i] = Recorded[i]
             /\ \A k \in 1..r : w[Len(Recorded) + k] = Aborted(Call(turn, index + k))
<1> DEFINE n == Len(reply.calls)
           next == index + 1
           w == CloseOut(Recorded, Unanswered)
           r == n - index
<1>1. /\ turn \in Nat /\ n \in Nat /\ index \in 1..n /\ Opening \in Nat
      /\ Recorded \in Histories /\ OpenAt(Recorded, Opening, turn, n, next)
  BY BatchTypes, RecordedOpen DEF InBatch
<1>2. DOMAIN Unanswered = 1..r /\ \A k \in 1..r : Unanswered[k] = Call(turn, index + k)
  BY DEF Unanswered
<1> HIDE DEF n
<1>3. /\ next \in 1..n + 1 /\ r = n + 1 - next /\ r \in Nat
      /\ \A k \in 1..r : next - 1 + k = index + k
  BY <1>1
<1> HIDE DEF next
<1> HIDE DEF r
<1> DEFINE rest == [k \in DOMAIN Unanswered |-> Aborted(Unanswered[k])]
<1>4. /\ w = Recorded \o rest /\ rest \in Seq(Items) /\ Len(rest) = r
      /\ \A k \in 1..r : rest[k] = Aborted(Call(turn, next - 1 + k))
  <2>1. \A k \in 1..r : index + k \in Nat /\ Aborted(Call(turn, index + k)) \in Items
    BY <1>1, <1>3, AnswerIs
  <2>2. /\ rest \in Seq(Items) /\ Len(rest) = r
        /\ \A k \in 1..r : rest[k] = Aborted(Call(turn, index + k))
    BY <1>2, <1>3, <2>1
  <2> QED BY <1>3, <2>2 DEF CloseOut
<1> HIDE DEF w
<1> HIDE DEF rest
<1>5. /\ Good(w) /\ Len(w) = Len(Recorded) + r /\ \A i \in DOMAIN Recorded : w[i] = Recorded[i]
      /\ \A k \in 1..r : w[Len(Recorded) + k] = Aborted(Call(turn, next - 1 + k))
  <2>1. \A f \in 1..n + 1, l \in Nat, s \in Seq(Items) :
          (/\ OpenAt(Recorded, Opening, turn, n, f) /\ l = n + 1 - f /\ Len(s) = l
           /\ \A k \in 1..l : s[k] = Aborted(Call(turn, f - 1 + k)))
          => Good(Recorded \o s)
    <3>1. Recorded \in Histories /\ Opening \in Nat /\ turn \in Nat /\ n \in Nat
      BY <1>1
    <3> SUFFICES ASSUME NEW f \in 1..n + 1, NEW l \in Nat, NEW s \in Seq(Items),
                        OpenAt(Recorded, Opening, turn, n, f), l = n + 1 - f, Len(s) = l,
                        \A k \in 1..l : s[k] = Aborted(Call(turn, f - 1 + k))
                 PROVE  Good(Recorded \o s)
      BY Zenon
    <3>2. /\ OpenAt(Recorded, Opening, turn, n, f) /\ l = n + 1 - f /\ Len(s) = l
          /\ \A k \in 1..l : s[k] = Aborted(Call(turn, f - 1 + k))
      OBVIOUS
    <3> QED BY ONLY <3>1, <3>2, f \in 1..n + 1, l \in Nat, s \in Seq(Items), OpenCloses, SMTT(60)
  <2>2. Good(Recorded \o rest)
    BY <1>1, <1>3, <1>4, <2>1, Zenon
  <2>3. Recorded \in Seq(Items) /\ DOMAIN Recorded = 1..Len(Recorded)
    BY <1>1 DEF Histories
  <2>4. /\ Len(Recorded \o rest) = Len(Recorded) + r
        /\ \A i \in 1..Len(Recorded) : (Recorded \o rest)[i] = Recorded[i]
        /\ \A k \in 1..r : (Recorded \o rest)[Len(Recorded) + k] = rest[k]
    BY <1>3, <1>4, <2>3, Joined, Zenon
  <2> QED BY <1>4, <2>2, <2>3, <2>4
<1> QED BY <1>3, <1>5 DEF w, r, n

LEMMA HistoryStep ==
  ASSUME TypeInv, HistoryInv, [Next]_vars
  PROVE  HistoryInv'
<1>1. turn \in Nat
  BY Limits DEF TypeInv, PolicyOK
<1>2. CASE Requests
  <2>1. ~InBatch /\ ~InBatch' /\ messages' \in Compacted(messages)
    BY <1>2, RequestStep DEF InBatch, Requesting
  <2>2. Good(messages')
    BY <2>1, CompactedGood DEF Good, HistoryInv
  <2> QED BY <2>1, <2>2 DEF HistoryInv, Good
<1>3. CASE Turns
  <2>1. ~InBatch /\ ~InBatch' /\ messages' \in Grown(messages)
    BY <1>3, TurnStep DEF InBatch
  <2>2. Good(messages')
    BY <1>1, <2>1, GrownGood DEF Good, HistoryInv
  <2> QED BY <2>1, <2>2 DEF HistoryInv, Good
<1>4. CASE BatchTurn
  <2>1. /\ ~InBatch /\ InBatch' /\ index' = 1 /\ turn' = turn /\ reply' = reply
        /\ messages' = Append(messages, Assistant(turn, Len(reply.calls)))
    BY <1>4 DEF BatchTurn, Ordinary, Acts, InBatch, Answers, requestVars
  <2>2. Len(reply.calls) \in Nat
    BY ReplyFields DEF TypeInv, RequestOK
  <2>3. messages' \in Histories
        /\ OpenAt(messages', Len(messages) + 1, turn, Len(reply.calls), 1)
    BY <1>1, <2>1, <2>2, BatchOpens DEF Good, HistoryInv
  <2>4. Len(messages') - 1 + 1 = Len(messages) + 1
    BY <2>3 DEF OpenAt, Histories, HistoryInv
  <2> QED BY <2>1, <2>3, <2>4 DEF HistoryInv, Opening
<1>5. CASE Execute
  <2>1. InBatch /\ InBatch' /\ UNCHANGED <<messages, index, turn, reply>>
    BY <1>5 DEF Execute, InBatch, requestVars
  <2> QED BY <2>1 DEF HistoryInv, Opening
<1>6. CASE Stops
  <2>1. step = "record" /\ ~InBatch' /\ messages' = CloseOut(Recorded, Unanswered)
    BY <1>6, StopStep DEF InBatch
  <2>2. Good(messages')
    BY <2>1, ClosedOut
  <2> QED BY <2>1, <2>2 DEF HistoryInv, Good
<1>7. CASE RecordResult
  <2> DEFINE n == Len(reply.calls)
  <2>1. /\ step = "record" /\ messages' = Recorded /\ turn' = turn /\ reply' = reply
        /\ step' \in {"record", "execute", "after"}
        /\ step' = "after" => index = n
        /\ step' \in {"record", "execute"} => index' = index + 1
    BY <1>7, RecordGoesOn DEF RecordResult
  <2>2. /\ Recorded \in Histories /\ Len(Recorded) = Len(messages) + 1
        /\ OpenAt(Recorded, Opening, turn, n, index + 1)
    BY <2>1, RecordedOpen
  <2>3. Opening \in Nat /\ n \in Nat /\ index \in Nat /\ Len(messages) \in Nat
    BY <2>1, BatchTypes DEF InBatch, HistoryInv, Histories
  <2>4. CASE step' = "after"
    <3>1. WellFormed(Recorded)
      BY <1>1, <2>1, <2>2, <2>3, <2>4, OpenCompletes
    <3> QED BY <2>1, <2>2, <2>4, <3>1 DEF HistoryInv, InBatch
  <2>5. CASE step' # "after"
    <3>1. Opening' = Opening
      BY <2>1, <2>2, <2>3, <2>5 DEF Opening
    <3> QED BY <2>1, <2>2, <2>5, <3>1 DEF HistoryInv, InBatch
  <2> QED BY <2>4, <2>5
<1>8. CASE Diagnose \/ Cancel \/ UNCHANGED vars
  <2>1. UNCHANGED <<step, messages, index, turn, reply>>
    BY <1>8 DEF Diagnose, Cancel, vars, loopVars, requestVars, batchVars
  <2> QED BY <2>1 DEF HistoryInv, InBatch, Opening
<1> QED BY <1>2, <1>3, <1>4, <1>5, <1>6, <1>7, <1>8, StepCases

\* Every history that is sent or returned pairs its calls with their answers (loop.go,
\* appendAbortedToolResults; compaction.go, safeSuffixBoundary): outside a batch it is
\* well formed, and in one only the calls that are not recorded yet lack an answer.
THEOREM HistoryReplayable == Spec => []Replayable
<1>1. TypeInv /\ HistoryInv /\ [Next]_vars => TypeInv' /\ HistoryInv'
  BY TypeStep, HistoryStep
<1>2. HistoryInv => Replayable
  BY DEF HistoryInv, Replayable, InBatch
<1> QED BY InitType, InitHistory, <1>1, <1>2, PTL DEF Spec

-----------------------------------------------------------------------------
(* The history tells the truth about edits.                                *)

\* A call that is advertised has its result later on.
Told(m, c) ==
  \A i \in DOMAIN m :
    m[i].role = "assistant" /\ (\E k \in DOMAIN m[i].calls : m[i].calls[k] = c)
      => \E j \in i + 1..Len(m) : m[j] = Result(c)
Clear(m) == \A i \in DOMAIN m : m[i].role = "tool" => ~m[i].aborted

\* A call that changed a file is of an earlier turn, or of this one and not after the
\* call that is recorded next.
RanInv ==
  \A c \in ran :
    /\ \E t, i \in Nat : c = Call(t, i)
    /\ c.turn <= turn
    /\ step \in Requesting \cup {"act"} => c.turn < turn
    /\ step = "execute" /\ c.turn = turn => c.index < index
    /\ step = "record" /\ c.turn = turn => c.index <= index

ToldInv ==
  /\ \A c \in ran : Told(messages, c) \/ (step = "record" /\ c = Call(turn, index))
  /\ step # "done" => Clear(messages)
  /\ \A c \in ran : ~Holds(Aborted(c))

LEMMA InitTold == Init => RanInv /\ ToldInv
<1> SUFFICES ASSUME Init PROVE RanInv /\ ToldInv
  OBVIOUS
<1>1. ran = {} /\ messages = <<User>>
  BY DEF Init
<1>2. DOMAIN <<User>> = {1} /\ <<User>>[1] = User /\ User.role = "user"
  BY DEF User
<1> QED BY <1>1, <1>2 DEF RanInv, ToldInv, Clear

\* What an item appended to a history leaves told.
LEMMA AppendTold ==
  ASSUME NEW m \in Histories, NEW x \in Items
  PROVE  /\ Clear(m) /\ (x.role = "tool" => ~x.aborted) => Clear(Append(m, x))
         /\ \A c : (/\ Told(m, c)
                    /\ x.role = "assistant" => \A k \in DOMAIN x.calls : x.calls[k] # c)
                   => Told(Append(m, x), c)
<1> DEFINE w == Append(m, x)
<1>1. /\ Len(w) = Len(m) + 1 /\ \A i \in DOMAIN m : w[i] = m[i]
      /\ w[Len(m) + 1] = x /\ DOMAIN w \ DOMAIN m = {Len(m) + 1}
      /\ Len(m) \in Nat \ {0} /\ DOMAIN m = 1..Len(m)
  BY AppendHistory DEF Histories
<1> HIDE DEF w
<1>2. ASSUME Clear(m), x.role = "tool" => ~x.aborted PROVE Clear(w)
  BY <1>1, <1>2 DEF Clear
<1>3. ASSUME NEW c, Told(m, c),
             x.role = "assistant" => \A k \in DOMAIN x.calls : x.calls[k] # c
      PROVE  Told(w, c)
  <2> SUFFICES ASSUME NEW i \in DOMAIN w, w[i].role = "assistant",
                      NEW k \in DOMAIN w[i].calls, w[i].calls[k] = c
               PROVE  \E j \in i + 1..Len(w) : w[j] = Result(c)
    BY DEF Told
  <2>1. i \in DOMAIN m /\ w[i] = m[i]
    BY <1>1, <1>3
  <2>2. PICK j \in i + 1..Len(m) : m[j] = Result(c)
    BY <1>3, <2>1 DEF Told
  <2>3. j \in DOMAIN m /\ j \in i + 1..Len(w)
    BY <1>1, <2>1, <2>2
  <2> QED BY <1>1, <2>2, <2>3
<1> QED BY <1>2, <1>3 DEF w

\* What is told stays told when a history grows or is compacted between batches.
Inherits(w, m) == (Clear(m) => Clear(w)) /\ \A c : Told(m, c) => Told(w, c)

LEMMA AppendInherits ==
  ASSUME NEW m \in Histories, NEW t \in Nat
  PROVE  Inherits(WithUser(m), m) /\ Inherits(Append(m, Assistant(t, 0)), m)
<1>1. User \in Items /\ User.role = "user" /\ Assistant(t, 0) \in Items
  BY DEF Items, User
<1>2. Assistant(t, 0).role = "assistant" /\ DOMAIN Assistant(t, 0).calls = {}
  BY AssistantIs
<1>3. Inherits(Append(m, User), m)
  BY <1>1, AppendTold DEF Inherits
<1>4. Inherits(Append(m, Assistant(t, 0)), m)
  BY <1>1, <1>2, AppendTold DEF Inherits
<1> QED BY <1>3, <1>4, WithUserIs DEF Inherits

LEMMA SuffixInherits ==
  ASSUME NEW m \in Histories, NEW b \in 2..Len(m)
  PROVE  Inherits(<<User>> \o SubSeq(m, b, Len(m)), m)
<1> DEFINE w == <<User>> \o SubSeq(m, b, Len(m))
<1>1. /\ Len(w) = Len(m) - b + 2 /\ w[1] = User
      /\ \A i \in 2..Len(w) : w[i] = m[b + i - 2]
      /\ DOMAIN w = 1..Len(w) /\ Len(m) \in Nat
  BY SuffixIs
<1> HIDE DEF w
<1>2. User.role = "user" /\ b \in Nat /\ 2 <= b /\ b <= Len(m) /\ DOMAIN m = 1..Len(m)
  BY <1>1 DEF User, Histories
<1>3. ASSUME NEW i \in DOMAIN w, w[i].role # "user"
      PROVE  i \in 2..Len(w) /\ w[i] = m[b + i - 2] /\ b + i - 2 \in DOMAIN m
  BY <1>1, <1>2, <1>3
<1>4. ASSUME Clear(m) PROVE Clear(w)
  <2>1. \A i \in DOMAIN w : w[i].role = "tool" => w[i].role # "user"
    OBVIOUS
  <2> QED BY <1>3, <1>4, <2>1 DEF Clear
<1>5. ASSUME NEW c, Told(m, c) PROVE Told(w, c)
  <2> SUFFICES ASSUME NEW i \in DOMAIN w, w[i].role = "assistant",
                      NEW k \in DOMAIN w[i].calls, w[i].calls[k] = c
               PROVE  \E j \in i + 1..Len(w) : w[j] = Result(c)
    BY DEF Told
  <2>1. i \in 2..Len(w) /\ w[i] = m[b + i - 2] /\ b + i - 2 \in DOMAIN m
    BY <1>3
  <2>2. PICK j \in (b + i - 2) + 1..Len(m) : m[j] = Result(c)
    BY <1>5, <2>1 DEF Told
  <2>3. j - b + 2 \in i + 1..Len(w) /\ j - b + 2 \in 2..Len(w) /\ b + (j - b + 2) - 2 = j
    BY <1>1, <1>2, <2>1, <2>2
  <2>4. w[j - b + 2] = Result(c)
    BY <1>1, <2>2, <2>3
  <2> QED BY <2>3, <2>4
<1> QED BY <1>4, <1>5 DEF Inherits, w

LEMMA CompactedInherits ==
  ASSUME NEW m, Good(m), NEW w \in Compacted(m)
  PROVE  Inherits(w, m)
<1>1. CASE w \in Compactions(m)
  <2>1. PICK b \in 2..Len(m) :
          m[b].role = "assistant" /\ w = WithUser(<<User>> \o SubSeq(m, b, Len(m)))
    BY <1>1, CompactionIs DEF Good
  <2> DEFINE s == <<User>> \o SubSeq(m, b, Len(m))
  <2>2. s \in Histories /\ Inherits(s, m)
    BY SuffixIs, SuffixInherits DEF Good
  <2> HIDE DEF s
  <2>3. 0 \in Nat
    OBVIOUS
  <2>4. Inherits(WithUser(s), s)
    BY <2>2, <2>3, AppendInherits
  <2> QED BY <2>1, <2>2, <2>4 DEF Inherits, s
<1>2. 0 \in Nat /\ m \in Histories
  BY DEF Good
<1>3. Inherits(WithUser(m), m) /\ Inherits(m, m)
  BY <1>2, AppendInherits DEF Inherits
<1> QED BY <1>1, <1>3 DEF Compacted

LEMMA GrownInherits ==
  ASSUME turn \in Nat, NEW m, Good(m), NEW w \in Grown(m)
  PROVE  Inherits(w, m)
<1>1. \A h : Good(h) => /\ Good(WithUser(h)) /\ Good(Closed(h))
                        /\ Inherits(WithUser(h), h) /\ Inherits(Closed(h), h)
  BY WithUserWellFormed, ClosedWellFormed, AppendInherits DEF Good, Closed
<1>2. \A h : Good(h) => \A g \in Compacted(h) : Inherits(g, h)
  BY CompactedInherits
<1>3. CASE w \in Compacted(m)
  BY <1>2, <1>3
<1>4. CASE w \in Compacted(WithUser(m))
  BY <1>1, <1>2, <1>4 DEF Inherits
<1>5. CASE w \in {Closed(m), WithUser(Closed(m)), Closed(WithUser(m))}
  BY <1>1, <1>5 DEF Inherits
<1> QED BY <1>3, <1>4, <1>5 DEF Grown


LEMMA RanStep ==
  ASSUME TypeInv, RanInv, [Next]_vars
  PROVE  RanInv'
<1>1. turn \in Nat
  BY Limits DEF TypeInv, PolicyOK
<1>0. \A t, i \in Nat : Call(t, i).turn = t /\ Call(t, i).index = i
  BY DEF Call
<1>2. CASE Requests
  <2>1. /\ step \in Requesting /\ step' \in Requesting \cup {"act", "done"}
        /\ ran' = ran /\ turn' = turn
    BY <1>2, RequestStep DEF batchVars
  <2> QED BY <2>1 DEF RanInv, Requesting
<1>3. CASE Turns
  <2>1. /\ step \in {"turn", "act", "after", "summary"}
        /\ step' \in {"turn", "connect", "summary", "done"}
        /\ ran' = ran /\ turn' = IF step' = "connect" THEN turn + 1 ELSE turn
    BY <1>3, TurnStep DEF batchVars
  <2>2. \A c \in ran : c.turn \in Nat /\ c.turn <= turn
    BY <1>0 DEF RanInv
  <2>3. \A c \in ran : c.turn <= turn' /\ (step' = "connect" => c.turn < turn')
    BY <1>1, <2>1, <2>2
  <2> QED BY <2>1, <2>3 DEF RanInv, Requesting
<1>4. CASE BatchTurn
  <2>1. step = "act" /\ step' = "execute" /\ ran' = ran /\ turn' = turn
    BY <1>4 DEF BatchTurn, Ordinary, Acts
  <2>2. \A c \in ran : c.turn \in Nat /\ c.turn < turn
    BY <1>0, <2>1 DEF RanInv
  <2>3. \A c \in ran : c.turn # turn'
    BY <1>1, <2>1, <2>2
  <2> QED BY <2>1, <2>3 DEF RanInv, Requesting
<1>5. CASE Execute
  <2>1. PICK o \in Seq(Comings) :
          /\ step = "execute" /\ step' = "record"
          /\ \A k \in DOMAIN o : o[k] = "changed" => Len(o) = 1
          /\ ran' = ran \cup {Call(turn, index + k - 1) : k \in {l \in DOMAIN o : o[l] = "changed"}}
          /\ turn' = turn /\ index' = index
    BY <1>5, ExecuteStep
  <2>2. index \in Nat
    BY DEF TypeInv, BatchInv
  <2>3. \A k \in DOMAIN o : o[k] = "changed" => index + k - 1 = index
    BY <2>1, <2>2
  <2>4. \A c \in ran' : c \in ran \/ c = Call(turn, index)
    BY <2>1, <2>3
  <2>5. \A c \in ran : c.turn = turn => c.index \in Nat /\ c.index <= index
    BY <1>0, <2>1, <2>2 DEF RanInv
  <2>6. Call(turn, index).turn = turn /\ Call(turn, index).index = index
    BY <1>0, <1>1, <2>2
  <2>7. ASSUME NEW c \in ran'
        PROVE  (\E t, i \in Nat : c = Call(t, i)) /\ c.turn <= turn
               /\ (c.turn = turn => c.index <= index)
    <3>1. CASE c \in ran
      BY <2>5, <3>1 DEF RanInv
    <3>2. CASE c = Call(turn, index)
      BY <1>1, <2>2, <2>6, <3>2
    <3> QED BY <2>4, <3>1, <3>2
  <2> QED BY <2>1, <2>7 DEF RanInv, Requesting
<1>6. CASE Stops
  <2>1. step' = "done" /\ ran' = ran /\ turn' = turn
    BY <1>6, StopStep
  <2> QED BY <2>1 DEF RanInv, Requesting
<1>7. CASE RecordResult
  <2>1. /\ step = "record" /\ step' \in {"record", "execute", "after"}
        /\ ran' = ran /\ turn' = turn
        /\ step' \in {"record", "execute"} => index' = index + 1
    BY <1>7, RecordGoesOn DEF RecordResult
  <2>2. index \in Nat
    BY DEF TypeInv, BatchInv
  <2>3. \A c \in ran : c.turn = turn => c.index \in Nat /\ c.index <= index
    BY <1>0, <2>1 DEF RanInv
  <2>4. \A c \in ran : c.turn = turn /\ step' \in {"record", "execute"} =>
          c.index < index' /\ c.index <= index'
    BY <2>1, <2>2, <2>3
  <2> QED BY <2>1, <2>4 DEF RanInv, Requesting
<1>8. CASE Diagnose \/ Cancel \/ UNCHANGED vars
  <2>1. UNCHANGED <<step, ran, index, turn>>
    BY <1>8 DEF Diagnose, Cancel, vars, loopVars, batchVars
  <2> QED BY <2>1 DEF RanInv
<1> QED BY <1>2, <1>3, <1>4, <1>5, <1>6, <1>7, <1>8, StepCases


\* A recorded result tells of its call, and leaves what was told.
LEMMA RecordedTold ==
  ASSUME TypeInv, HistoryInv, Clear(messages), step = "record"
  PROVE  /\ Clear(Recorded) /\ Told(Recorded, Call(turn, index))
         /\ \A c : Told(messages, c) => Told(Recorded, c)
<1> DEFINE x == Result(Call(turn, index))
<1>1. /\ x \in Items /\ x.role = "tool" /\ ~x.aborted /\ messages \in Histories
  BY BatchTypes, AnswerIs DEF InBatch, HistoryInv
<1>2. Recorded = Append(messages, x)
  BY DEF Recorded
<1> HIDE DEF x
<1>3. Clear(Recorded) /\ \A c : Told(messages, c) => Told(Recorded, c)
  BY <1>1, <1>2, AppendTold
<1>4. /\ Len(Recorded) = Len(messages) + 1 /\ Recorded[Len(messages) + 1] = x
      /\ DOMAIN Recorded \ DOMAIN messages = {Len(messages) + 1}
      /\ Len(messages) \in Nat \ {0} /\ DOMAIN messages = 1..Len(messages)
  BY <1>1, <1>2, AppendHistory DEF Histories
<1>5. ASSUME NEW i \in DOMAIN Recorded, Recorded[i].role = "assistant"
      PROVE  \E j \in i + 1..Len(Recorded) : Recorded[j] = x
  <2>1. i \in DOMAIN messages
    BY <1>1, <1>4, <1>5
  <2>2. Len(messages) + 1 \in i + 1..Len(Recorded)
    BY <1>4, <2>1
  <2> QED BY <1>4, <2>2
<1>6. Told(Recorded, Call(turn, index))
  BY <1>5 DEF Told, x
<1> QED BY <1>3, <1>6

\* The placeholders of a batch that stops name calls that did not run.
LEMMA ClosedTold ==
  ASSUME TypeInv, HistoryInv, RanInv, ToldInv, step = "record"
  PROVE  LET w == CloseOut(Recorded, Unanswered)
         IN  \A c \in ran : Told(w, c) /\ \A i \in DOMAIN w : w[i] # Aborted(c)
<1> DEFINE w == CloseOut(Recorded, Unanswered)
           r == Len(reply.calls) - index
<1>1. /\ w \in Histories /\ r \in Nat /\ Len(w) = Len(Recorded) + r
      /\ \A i \in DOMAIN Recorded : w[i] = Recorded[i]
      /\ \A k \in 1..r : w[Len(Recorded) + k] = Aborted(Call(turn, index + k))
  BY ClosedOut DEF Good
<1>2. turn \in Nat /\ index \in Nat
  BY BatchTypes DEF InBatch
<1> HIDE DEF w
<1> HIDE DEF r
<1>3. Clear(Recorded) /\ \A c \in ran : Told(Recorded, c)
  BY RecordedTold DEF ToldInv
<1>4. Len(Recorded) \in Nat /\ DOMAIN Recorded = 1..Len(Recorded) /\ DOMAIN w = 1..Len(w)
  BY <1>1, RecordedOpen DEF Histories
<1>5. ASSUME NEW i \in DOMAIN w, i \notin DOMAIN Recorded
      PROVE  \E k \in 1..r : w[i] = Aborted(Call(turn, index + k))
  <2>1. i - Len(Recorded) \in 1..r /\ Len(Recorded) + (i - Len(Recorded)) = i
    BY <1>1, <1>4, <1>5, Beyond
  <2> QED BY <1>1, <2>1
<1>6. ASSUME NEW c \in ran PROVE Told(w, c)
  <2> SUFFICES ASSUME NEW i \in DOMAIN w, w[i].role = "assistant",
                      NEW k \in DOMAIN w[i].calls, w[i].calls[k] = c
               PROVE  \E j \in i + 1..Len(w) : w[j] = Result(c)
    BY DEF Told
  <2>1. i \in DOMAIN Recorded /\ w[i] = Recorded[i]
    BY <1>1, <1>5 DEF Aborted
  <2>2. PICK j \in i + 1..Len(Recorded) : Recorded[j] = Result(c)
    BY <1>3, <2>1 DEF Told
  <2>3. j \in DOMAIN Recorded /\ j \in i + 1..Len(w)
    BY <1>1, <1>4, <2>1, <2>2
  <2> QED BY <1>1, <2>2, <2>3
<1>7. ASSUME NEW c \in ran, NEW i \in DOMAIN w, w[i] = Aborted(c) PROVE FALSE
  <2>1. CASE i \in DOMAIN Recorded
    <3>1. w[i].role = "tool" /\ w[i].aborted
      BY <1>7 DEF Aborted
    <3> QED BY <1>1, <1>3, <2>1, <3>1 DEF Clear
  <2>2. CASE i \notin DOMAIN Recorded
    <3>1. PICK k \in 1..r : w[i] = Aborted(Call(turn, index + k))
      BY <1>5, <2>2
    <3>2. c = Call(turn, index + k)
      BY <1>7, <3>1 DEF Aborted
    <3>3. c.turn = turn /\ c.index = index + k
      BY <3>2 DEF Call
    <3>4. c.index <= index
      BY <3>3 DEF RanInv
    <3> QED BY <1>1, <1>2, <3>1, <3>3, <3>4
  <2> QED BY <2>1, <2>2
<1> QED BY <1>6, <1>7 DEF w

LEMMA ToldStep ==
  ASSUME TypeInv, HistoryInv, HistoryInv', RanInv, ToldInv, [Next]_vars
  PROVE  ToldInv'
<1>1. turn \in Nat
  BY Limits DEF TypeInv, PolicyOK
<1>0. ASSUME Clear(messages'), NEW R, ran' = R,
             \A c \in R : Told(messages', c) \/ (step' = "record" /\ c = Call(turn', index'))
      PROVE  ToldInv'
  BY <1>0 DEF ToldInv, Clear, Holds, Aborted
<1>2. ASSUME step # "done", ~InBatch, Inherits(messages', messages), ran' = ran
      PROVE  ToldInv'
  BY <1>0, <1>2 DEF ToldInv, Inherits, InBatch
<1>3. CASE Requests
  <2>1. step # "done" /\ ~InBatch /\ messages' \in Compacted(messages) /\ ran' = ran
    BY <1>3, RequestStep DEF InBatch, Requesting, batchVars
  <2> QED BY <1>2, <2>1, CompactedInherits DEF Good, HistoryInv
<1>4. CASE Turns
  <2>1. step # "done" /\ ~InBatch /\ messages' \in Grown(messages) /\ ran' = ran
    BY <1>4, TurnStep DEF InBatch, batchVars
  <2> QED BY <1>1, <1>2, <2>1, GrownInherits DEF Good, HistoryInv
<1>5. CASE BatchTurn
  <2> DEFINE x == Assistant(turn, Len(reply.calls))
  <2>1. step = "act" /\ messages' = Append(messages, x) /\ ran' = ran
    BY <1>5 DEF BatchTurn, Ordinary, Acts, Answers
  <2>2. Len(reply.calls) \in Nat
    BY ReplyFields DEF TypeInv, RequestOK
  <2>3. /\ x \in Items /\ x.role = "assistant"
        /\ \A k \in DOMAIN x.calls : x.calls[k].turn = turn
    <3>1. /\ x.role = "assistant" /\ DOMAIN x.calls = 1..Len(reply.calls)
          /\ \A k \in 1..Len(reply.calls) : x.calls[k] = Call(turn, k)
      BY <1>1, <2>2, AssistantIs
    <3>2. x \in Items
      BY <1>1, <2>2 DEF Items
    <3>3. \A k : Call(turn, k).turn = turn
      BY DEF Call
    <3> HIDE DEF x
    <3> QED BY <3>1, <3>2, <3>3
  <2> HIDE DEF x
  <2>4. \A c \in ran : Told(messages, c) /\ c.turn # turn
    <3>1. \A c \in ran : c.turn \in Nat /\ c.turn < turn
      BY <2>1 DEF RanInv, Call
    <3> QED BY <1>1, <2>1, <3>1 DEF ToldInv
  <2>5. messages \in Histories /\ Clear(messages)
    BY <2>1 DEF ToldInv, HistoryInv
  <2>6. \A c \in ran : Told(messages', c)
    BY <2>1, <2>3, <2>4, <2>5, AppendTold
  <2>7. Clear(messages')
    BY <2>1, <2>3, <2>5, AppendTold
  <2> QED BY <1>0, <2>1, <2>6, <2>7
<1>6. CASE Execute
  <2>1. PICK o \in Seq(Comings) :
          /\ step = "execute" /\ step' = "record"
          /\ \A k \in DOMAIN o : o[k] = "changed" => Len(o) = 1
          /\ ran' = ran \cup {Call(turn, index + k - 1) : k \in {l \in DOMAIN o : o[l] = "changed"}}
          /\ turn' = turn /\ index' = index /\ messages' = messages
    BY <1>6, ExecuteStep
  <2>2. \A k \in DOMAIN o : o[k] = "changed" => index + k - 1 = index
    BY <2>1 DEF TypeInv, BatchInv
  <2>3. \A c \in ran' : c \in ran \/ c = Call(turn, index)
    BY <2>1, <2>2
  <2>4. Clear(messages) /\ \A c \in ran : Told(messages, c)
    BY <2>1 DEF ToldInv
  <2> QED BY <1>0, <2>1, <2>3, <2>4
<1>7. CASE Stops
  <2>1. /\ step = "record" /\ step' = "done" /\ ran' = ran
        /\ messages' = CloseOut(Recorded, Unanswered)
    BY <1>7, StopStep
  <2>2. \A c \in ran : Told(messages', c) /\ \A i \in DOMAIN messages' : messages'[i] # Aborted(c)
    BY <2>1, ClosedTold
  <2> QED BY <2>1, <2>2 DEF ToldInv, Holds
<1>8. CASE RecordResult
  <2>1. step = "record" /\ messages' = Recorded /\ ran' = ran
    BY <1>8 DEF RecordResult
  <2>2. Clear(messages) /\ \A c \in ran : Told(messages, c) \/ c = Call(turn, index)
    BY <2>1 DEF ToldInv
  <2>3. Clear(messages') /\ \A c \in ran : Told(messages', c)
    BY <2>1, <2>2, RecordedTold
  <2> QED BY <1>0, <2>1, <2>3
<1>9. CASE Diagnose \/ Cancel \/ UNCHANGED vars
  <2>1. UNCHANGED <<step, messages, ran, index, turn>>
    BY <1>9 DEF Diagnose, Cancel, vars, loopVars, batchVars
  <2> QED BY <2>1 DEF ToldInv, Holds
<1> QED BY <1>3, <1>4, <1>5, <1>6, <1>7, <1>8, <1>9, StepCases

\* A call that changed a file is answered in the history by its result, never by the
\* placeholder for calls that did not run (loop.go, appendAbortedToolResults), as long
\* as the call is in the history: of an open batch, only the calls recorded next have
\* run, and a placeholder names a call after them.
THEOREM EditsTold == Spec => []EditsRecorded
<1> DEFINE IInv == TypeInv /\ HistoryInv /\ RanInv /\ ToldInv
<1>1. IInv /\ [Next]_vars => IInv'
  BY TypeStep, HistoryStep, RanStep, ToldStep
<1>2. IInv => EditsRecorded
  <2> SUFFICES ASSUME IInv, NEW c \in ran
               PROVE  ~Holds(Aborted(c)) /\ (Holds(Result(c)) \/ Elided(c) \/ InFlight(c))
    BY DEF EditsRecorded
  <2>1. ~Holds(Aborted(c))
    BY DEF ToldInv
  <2>2. CASE Told(messages, c)
    <3>1. DOMAIN messages = 1..Len(messages) /\ Len(messages) \in Nat
      BY DEF HistoryInv, Histories
    <3>2. \A i \in DOMAIN messages : \A j \in i + 1..Len(messages) : j \in DOMAIN messages
      BY <3>1
    <3> QED BY <2>1, <2>2, <3>2 DEF Told, Holds, Elided
  <2>3. CASE step = "record" /\ c = Call(turn, index)
    <3>1. c.turn = turn /\ c.index = index
      BY <2>3 DEF Call
    <3>2. index \in index..(index + Len(outcomes) - 1)
      BY <2>3 DEF TypeInv, BatchInv
    <3> QED BY <2>1, <2>3, <3>1, <3>2 DEF InFlight
  <2> QED BY <2>2, <2>3 DEF ToldInv
<1> QED BY InitType, InitHistory, InitTold, <1>1, <1>2, PTL DEF Spec

=============================================================================
