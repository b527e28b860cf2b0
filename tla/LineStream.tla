----------------------------- MODULE LineStream -----------------------------
(***************************************************************************)
(* What a client that follows a daemon session is promised: the lines of   *)
(* the session one after the other from some line on, or, where lines were *)
(* left out, how many.  SessionFanout implements it.                       *)
(***************************************************************************)
EXTENDS Integers, Sequences

CONSTANTS
  Sessions,
  Clients

VARIABLES
  written,  \* lines each session has written so far
  source,   \* the sessions a client follows: one, or none yet
  next,     \* the first line each client has heard nothing of
  got       \* what each client received: lines and gap notices

vars == <<written, source, next, got>>

LineItem(n) == [line |-> n, missed |-> 0]
GapItem(k)  == [line |-> 0, missed |-> k]

\* Lines that a received item accounts for.
Width(item) == IF item.line > 0 THEN 1 ELSE item.missed

Init ==
  /\ written = [s \in Sessions |-> 0]
  /\ source  = [c \in Clients |-> {}]
  /\ next    = [c \in Clients |-> 0]
  /\ got     = [c \in Clients |-> <<>>]

Write(s) ==
  /\ written' = [written EXCEPT ![s] = @ + 1]
  /\ UNCHANGED <<source, next, got>>

\* What came before line n is not part of the stream.
Follow(c, s, n) ==
  /\ source[c] = {}
  /\ source' = [source EXCEPT ![c] = {s}]
  /\ next'   = [next EXCEPT ![c] = n]
  /\ UNCHANGED <<written, got>>

Receive(c, item) ==
  /\ got'  = [got EXCEPT ![c] = Append(@, item)]
  /\ next' = [next EXCEPT ![c] = @ + Width(item)]
  /\ UNCHANGED <<written, source>>

NextLine(c) ==
  /\ \E s \in source[c] : next[c] <= written[s]
  /\ Receive(c, LineItem(next[c]))

\* k lines the client does not get: it is told so.
Gap(c, k) ==
  /\ \E s \in source[c] : next[c] + k <= written[s] + 1
  /\ Receive(c, GapItem(k))

Next ==
  \/ \E s \in Sessions : Write(s)
  \/ \E c \in Clients, s \in Sessions : \E n \in 1..(written[s] + 1) : Follow(c, s, n)
  \/ \E c \in Clients : NextLine(c)
  \/ \E c \in Clients : \E s \in source[c] : \E k \in 1..written[s] : Gap(c, k)

Spec == Init /\ [][Next]_vars

=============================================================================
