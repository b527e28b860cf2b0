----------------------------- MODULE Transcript -----------------------------
(***************************************************************************)
(* The history of a run as a provider sees it (internal/agent/loop.go,     *)
(* compaction.go).  An assistant message advertises tool calls, and a      *)
(* tool message answers one of them.  The leading system prompt is left    *)
(* out, and user messages in a row are one item: what they say (the        *)
(* request, notes, nudges, a summary) is not told apart.                   *)
(***************************************************************************)
EXTENDS Integers, Sequences, SequencesExt

\* A call is named by the turn that made it and its place in that turn.
Call(t, i) == [turn |-> t, index |-> i]
User == [role |-> "user"]
Assistant(t, n) == [role |-> "assistant", calls |-> [i \in 1..n |-> Call(t, i)]]
Result(c)  == [role |-> "tool", call |-> c, aborted |-> FALSE]
Aborted(c) == [role |-> "tool", call |-> c, aborted |-> TRUE]

WithUser(m) == IF Last(m).role = "user" THEN m ELSE Append(m, User)

CloseOutMutant(m, calls) == m

\* appendAbortedToolResults: a placeholder for every call that has no answer.
CloseOut(m, calls) == m \o [i \in DOMAIN calls |-> Aborted(calls[i])]

\* safeSuffixBoundary: the preserved suffix starts on an assistant message,
\* at or before the planned boundary; on the first message there is no such.
SafeBoundary(m, b) ==
  LET starts == {i \in 1..b : m[i].role = "assistant"}
  IN  IF starts = {} THEN 1 ELSE CHOOSE i \in starts : \A j \in starts : j <= i

\* The histories CompactMessages may make of m, for every boundary its plan
\* may choose, each followed by the resume cue: what comes before the
\* boundary becomes one user message.
Compactions(m) ==
  {WithUser(<<User>> \o SubSeq(m, b, Len(m))) :
     b \in {SafeBoundary(m, p) : p \in 1..Len(m)} \ {1}}

\* The items from i on answer the calls, in order.
AnsweredAt(m, i, calls) ==
  /\ i + Len(calls) - 1 <= Len(m)
  /\ \A k \in DOMAIN calls : m[i + k - 1].role = "tool" /\ m[i + k - 1].call = calls[k]

\* A provider that insists on pairing accepts m: it starts with the user, the
\* answers to an assistant's calls follow it at once and completely, and
\* no answer stands anywhere else.
WellFormed(m) ==
  /\ m[1].role = "user"
  /\ \A i \in DOMAIN m :
       m[i].role = "assistant" => AnsweredAt(m, i + 1, m[i].calls)
  /\ \A i \in DOMAIN m :
       m[i].role = "tool" =>
         \E j \in 1..(i - 1) :
           m[j].role = "assistant" /\ i <= j + Len(m[j].calls)
=============================================================================
