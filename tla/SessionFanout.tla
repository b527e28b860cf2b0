--------------------------- MODULE SessionFanout ----------------------------
(***************************************************************************)
(* The sessions of the daemon (internal/daemon/session.go) and the client  *)
(* connections that follow them (server.go): a session keeps its last      *)
(* lines, fans new ones out to subscribers over bounded channels, and is   *)
(* evicted from the registry once it has finished.                         *)
(*                                                                         *)
(* A session object and the ID it is registered under are different        *)
(* things: the ID of an evicted session may be used again.  Lines are      *)
(* numbered.  What the pool does between Started and the end of a session  *)
(* is module DaemonPool.                                                   *)
(***************************************************************************)
EXTENDS Integers, Sequences, FiniteSets

CONSTANTS
  Sessions,     \* session objects
  IDs,          \* session IDs
  IdOf,         \* the ID each session is started under
  Clients,      \* connections
  MaxBuffer,    \* lines a session keeps for late subscribers
  ChannelSize,  \* lines a subscriber's channel holds (256 in the code)
  MaxSessions,  \* registry size above which finished sessions are evicted
  MaxLines      \* bound: lines each session writes at most

ASSUME IdOfAssumption == IdOf \in [Sessions -> IDs]
ASSUME SizesAssumption ==
  /\ MaxBuffer \in Nat \ {0}
  /\ ChannelSize \in Nat \ {0}
  /\ MaxSessions \in Nat \ {0}
  /\ MaxLines \in [Sessions -> Nat]

VARIABLES
  state,     \* SessionState of each object; "none" before it exists
  lines,     \* lines each session has written
  buffer,    \* the ring of each session
  order,     \* registered sessions in creation order
  at,        \* where each connection's handler is
  sess,      \* the sessions a handler streams from: one, or none yet
  report,    \* the sessions whose error its end will report: one or none
  history,   \* buffered lines a handler has still to write
  chan,      \* each subscriber's channel
  dropped,   \* lines that did not fit in it since its last gap notice
  sub,       \* state of the subscription: none, live, closing, closed
  stopping,  \* Server.done is closed
  over,      \* history: how each connection ended
  next,      \* history: the first line each client has heard nothing of
  got        \* history: what each client received

sessionVars == <<state, lines, buffer>>
streamVars  == <<chan, dropped, sub>>
handlerVars == <<at, sess, report, history>>
heardVars   == <<next, got, over>>
vars == <<sessionVars, order, handlerVars, streamVars, stopping, heardVars>>

-----------------------------------------------------------------------------
States == {"none", "queued", "running", "done", "failed"}
Steps  == {"idle", "found", "attached", "stream", "gone"}
Subs   == {"none", "live", "closing", "closed"}
Ends   == {"open", "end", "error", "shutdown", "left"}

LineItem(n) == [line |-> n, missed |-> 0]
GapItem(k)  == [line |-> 0, missed |-> k]

\* Lines that an item accounts for.
Width(item) == IF item.line > 0 THEN 1 ELSE item.missed

Finished(s) == state[s] \in {"done", "failed"}

\* Manager.Get: at most one.
Registered(id) == {order[i] : i \in {j \in DOMAIN order : IdOf[order[j]] = id}}

Init ==
  /\ state  = [s \in Sessions |-> "none"]
  /\ lines  = [s \in Sessions |-> 0]
  /\ buffer = [s \in Sessions |-> <<>>]
  /\ order  = <<>>
  /\ at      = [c \in Clients |-> "idle"]
  /\ sess    = [c \in Clients |-> {}]
  /\ report  = [c \in Clients |-> {}]
  /\ history = [c \in Clients |-> <<>>]
  /\ chan    = [c \in Clients |-> <<>>]
  /\ dropped = [c \in Clients |-> 0]
  /\ sub     = [c \in Clients |-> "none"]
  /\ stopping = FALSE
  /\ over  = [c \in Clients |-> "open"]
  /\ next  = [c \in Clients |-> 0]
  /\ got   = [c \in Clients |-> <<>>]

-----------------------------------------------------------------------------
(* The session.                                                            *)

\* Keep the last n elements.
LastOfMutant(seq, n) ==
  IF Len(seq) > n + 1 THEN SubSeq(seq, Len(seq) - n + 1, Len(seq)) ELSE seq
LastOf(seq, n) ==
  IF Len(seq) > n THEN SubSeq(seq, Len(seq) - n + 1, Len(seq)) ELSE seq

\* pruneLocked: the oldest finished sessions, as many as are too many.
Prune(reg) ==
  LET excess  == Len(reg) - MaxSessions
      ended   == {i \in DOMAIN reg : Finished(reg[i])}
      evicted == {reg[i] : i \in {j \in ended :
                     Cardinality({k \in ended : k < j}) < excess}}
      kept[i \in 0..Len(reg)] ==
        IF i = 0 THEN <<>>
        ELSE IF reg[i] \in evicted THEN kept[i - 1] ELSE Append(kept[i - 1], reg[i])
  IN  kept[Len(reg)]

Started(s) ==
  /\ state[s] = "queued"
  /\ state' = [state EXCEPT ![s] = "running"]
  /\ UNCHANGED <<lines, buffer, order, handlerVars, streamVars, stopping, heardVars>>

\* A gap notice that is lost when the channel is full again.
DeliveredMutant(ch, d, n) ==
  LET room == ChannelSize - Len(ch) IN
  IF room = 0 THEN [ch |-> ch, d |-> d + 1]
  ELSE IF d > 0 /\ room > 1
       THEN [ch |-> ch \o <<GapItem(d), LineItem(n)>>, d |-> 0]
       ELSE [ch |-> Append(ch, LineItem(n)), d |-> 0]

\* The count is not reset by the notice.
DeliveredStaleMutant(ch, d, n) ==
  LET room == ChannelSize - Len(ch) IN
  IF room = 0 THEN [ch |-> ch, d |-> d + 1]
  ELSE IF d = 0 THEN [ch |-> Append(ch, LineItem(n)), d |-> 0]
  ELSE IF room = 1 THEN [ch |-> Append(ch, GapItem(d)), d |-> d + 1]
  ELSE [ch |-> ch \o <<GapItem(d), LineItem(n)>>, d |-> 0]

\* What one subscriber's channel and drop count become when line n is sent.
Delivered(ch, d, n) ==
  LET room == ChannelSize - Len(ch) IN
  IF d > 0
  THEN IF room = 0 THEN [ch |-> ch, d |-> d + 1]
       ELSE IF room = 1 THEN [ch |-> Append(ch, GapItem(d)), d |-> 1]
       ELSE [ch |-> ch \o <<GapItem(d), LineItem(n)>>, d |-> 0]
  ELSE IF room = 0 THEN [ch |-> ch, d |-> 1]
       ELSE [ch |-> Append(ch, LineItem(n)), d |-> 0]

Subscribers(s) == {c \in Clients : sub[c] = "live" /\ s \in sess[c]}

Line(s) ==
  /\ state[s] = "running" /\ lines[s] < MaxLines[s]
  /\ LET n == lines[s] + 1
         sent(c) == Delivered(chan[c], dropped[c], n)
     IN  /\ lines'  = [lines EXCEPT ![s] = n]
         /\ buffer' = [buffer EXCEPT ![s] = LastOf(Append(@, n), MaxBuffer)]
         /\ chan' = [c \in Clients |->
                       IF c \in Subscribers(s) THEN sent(c).ch ELSE chan[c]]
         /\ dropped' = [c \in Clients |->
                       IF c \in Subscribers(s) THEN sent(c).d ELSE dropped[c]]
  /\ UNCHANGED <<state, order, handlerVars, sub, stopping, heardVars>>

\* finish, under the lock.  A session that never ran can only fail.
Finish(s) ==
  /\ \/ state[s] = "running" /\ \E r \in {"done", "failed"} : state' = [state EXCEPT ![s] = r]
     \/ state[s] = "queued" /\ state' = [state EXCEPT ![s] = "failed"]
  /\ sub' = [c \in Clients |-> IF c \in Subscribers(s) THEN "closing" ELSE sub[c]]
  /\ UNCHANGED <<lines, buffer, order, handlerVars, chan, dropped, stopping, heardVars>>

\* finish, after the lock: the channels are closed one by one.
CloseChannel(c) ==
  /\ sub[c] = "closing"
  /\ sub' = [sub EXCEPT ![c] = "closed"]
  /\ UNCHANGED <<sessionVars, order, handlerVars, chan, dropped, stopping, heardVars>>

-----------------------------------------------------------------------------
(* The connections.                                                        *)

\* The handler's return runs its deferred cancel.
Return(c, how) ==
  /\ at'   = [at EXCEPT ![c] = "gone"]
  /\ over' = [over EXCEPT ![c] = how]
  /\ sub'  = [sub EXCEPT ![c] = IF @ = "live" THEN "closed" ELSE @]

\* handleRun: Start registers the session and prunes; a second session under a
\* registered ID is refused.
Run(c, s) ==
  /\ at[c] = "idle"
  /\ state[s] = "none" /\ Registered(IdOf[s]) = {}
  /\ state'  = [state EXCEPT ![s] = "queued"]
  /\ order'  = Prune(Append(order, s))
  /\ at'     = [at EXCEPT ![c] = "attached"]
  /\ sess'   = [sess EXCEPT ![c] = {s}]
  /\ report' = [report EXCEPT ![c] = {s}]
  /\ UNCHANGED <<lines, buffer, history, streamVars, stopping, heardVars>>

\* Attach looks the ID up.
Find(c, id) ==
  /\ at[c] = "idle" /\ Registered(id) # {}
  /\ sess' = [sess EXCEPT ![c] = Registered(id)]
  /\ at'   = [at EXCEPT ![c] = "found"]
  /\ UNCHANGED <<sessionVars, order, report, history, streamVars, stopping, heardVars>>

\* Subscribe: the buffer is copied and the channel registered in one critical
\* section; a finished session gives a closed channel.
SubscribeMutant(c) ==
  /\ at[c] \in {"found", "attached"} /\ sub[c] = "none"
  /\ \E s \in sess[c] :
       /\ history' = [history EXCEPT ![c] = buffer[s]]
       /\ next'    = [next EXCEPT ![c] = lines[s] - Len(buffer[s]) + 1]
  /\ sub' = [sub EXCEPT ![c] = "live"]
  /\ at'  = [at EXCEPT ![c] = IF @ = "found" THEN @ ELSE "stream"]
  /\ UNCHANGED <<sessionVars, order, sess, report, chan, dropped, stopping, got, over>>
Subscribe(c) ==
  /\ at[c] \in {"found", "attached"} /\ sub[c] = "none"
  /\ \E s \in sess[c] :
       /\ history' = [history EXCEPT ![c] = buffer[s]]
       /\ next'    = [next EXCEPT ![c] = lines[s] - Len(buffer[s]) + 1]
       /\ sub'     = [sub EXCEPT ![c] = IF Finished(s) THEN "closed" ELSE "live"]
  /\ at' = [at EXCEPT ![c] = IF @ = "found" THEN @ ELSE "stream"]
  /\ UNCHANGED <<sessionVars, order, sess, report, chan, dropped, stopping, got, over>>

\* handleAttach looks the ID up again, for the error it will report.
FindAgain(c) ==
  /\ at[c] = "found" /\ sub[c] # "none"
  /\ report' = [report EXCEPT ![c] = UNION {Registered(IdOf[s]) : s \in sess[c]}]
  /\ at' = [at EXCEPT ![c] = "stream"]
  /\ UNCHANGED <<sessionVars, order, sess, history, streamVars, stopping, heardVars>>

Hear(c, item) ==
  /\ got'  = [got EXCEPT ![c] = Append(@, item)]
  /\ next' = [next EXCEPT ![c] = @ + Width(item)]
  /\ UNCHANGED over

\* streamToClient, the buffered lines: a shutdown is honoured before each.
Replay(c) ==
  /\ at[c] = "stream" /\ history[c] # <<>> /\ ~stopping
  /\ Hear(c, LineItem(Head(history[c])))
  /\ history' = [history EXCEPT ![c] = Tail(@)]
  /\ UNCHANGED <<sessionVars, order, at, sess, report, streamVars, stopping>>

\* The live ones: the select may take a line although the daemon is stopping.
Forward(c) ==
  /\ at[c] = "stream" /\ history[c] = <<>> /\ chan[c] # <<>>
  /\ Hear(c, Head(chan[c]))
  /\ chan' = [chan EXCEPT ![c] = Tail(@)]
  /\ UNCHANGED <<sessionVars, order, handlerVars, dropped, sub, stopping>>

\* finishStream, once the channel is closed and empty.
FinishStream(c) ==
  /\ at[c] = "stream" /\ history[c] = <<>> /\ chan[c] = <<>> /\ sub[c] = "closed"
  /\ Return(c, IF \E s \in report[c] : state[s] = "failed" THEN "error" ELSE "end")
  /\ UNCHANGED <<sessionVars, order, sess, report, history, chan, dropped, stopping, next, got>>

Interrupt(c) ==
  /\ at[c] = "stream" /\ stopping
  /\ Return(c, "shutdown")
  /\ UNCHANGED <<sessionVars, order, sess, report, history, chan, dropped, stopping, next, got>>

\* A write fails: the client is gone.
Leave(c) ==
  /\ at[c] = "stream"
  /\ history[c] # <<>> \/ chan[c] # <<>> \/ sub[c] = "closed"
  /\ Return(c, "left")
  /\ UNCHANGED <<sessionVars, order, sess, report, history, chan, dropped, stopping, next, got>>

\* Shutdown closes Server.done.
Shutdown ==
  /\ ~stopping /\ stopping' = TRUE
  /\ UNCHANGED <<sessionVars, order, handlerVars, streamVars, heardVars>>

-----------------------------------------------------------------------------
Session(s) == Started(s) \/ Line(s) \/ Finish(s)
Handler(c) ==
  \/ Subscribe(c) \/ FindAgain(c)
  \/ Replay(c) \/ Forward(c) \/ FinishStream(c) \/ Interrupt(c) \/ Leave(c)

Next ==
  \/ \E s \in Sessions : Session(s)
  \/ \E c \in Clients : CloseChannel(c) \/ Handler(c)
  \/ \E c \in Clients, s \in Sessions : Run(c, s)
  \/ \E c \in Clients, id \in IDs : Find(c, id)
  \/ Shutdown

Spec == Init /\ [][Next]_vars

\* Channels are closed once `finish` has begun, and every handler goes on for as long
\* as its client reads.  Nothing makes a session finish: pool.Run waits for the worker
\* without a limit.
FollowSpec ==
  /\ Spec
  /\ \A c \in Clients :
       /\ WF_vars(CloseChannel(c))
       /\ WF_vars(Subscribe(c)) /\ WF_vars(FindAgain(c))
       /\ WF_vars(Replay(c)) /\ WF_vars(Forward(c))
       /\ WF_vars(FinishStream(c)) /\ WF_vars(Interrupt(c))

-----------------------------------------------------------------------------
TypeOK ==
  /\ state \in [Sessions -> States]
  /\ \A s \in Sessions :
       /\ lines[s] \in 0..MaxLines[s]
       /\ buffer[s] \in Seq(1..lines[s]) /\ Len(buffer[s]) <= MaxBuffer
  /\ order \in Seq(Sessions)
  /\ at \in [Clients -> Steps]
  /\ sess \in [Clients -> SUBSET Sessions]
  /\ report \in [Clients -> SUBSET Sessions]
  /\ \A c \in Clients : Len(chan[c]) <= ChannelSize
  /\ dropped \in [Clients -> Nat]
  /\ sub \in [Clients -> Subs]
  /\ stopping \in BOOLEAN
  /\ over \in [Clients -> Ends]

\* What a client receives is a line stream: each line in its place, a gap notice
\* for exactly the lines that were left out (session.go, Line and Subscribe).
Followed == [c \in Clients |-> IF sub[c] = "none" THEN {} ELSE sess[c]]
Stream == INSTANCE LineStream WITH written <- lines, source <- Followed
InOrder == Stream!Spec

\* The items are the lines from `from` up to `to`, each in its place, with notices
\* for those left out.
Spans(from, items, to) ==
  \E p \in [1..(Len(items) + 1) -> 1..to] :
    /\ p[1] = from /\ p[Len(items) + 1] = to
    /\ \A i \in DOMAIN items :
         items[i].line \in {0, p[i]} /\ p[i + 1] = p[i] + Width(items[i])

\* No line is lost unseen by the counters: what waits for a subscriber follows what
\* it received without a hole, up to the lines it is counted to have missed, also
\* after the session's end and for a subscriber that came between two lines
\* (session.go, Line, Subscribe and finish).
Accounted ==
  \A c \in Clients : sub[c] # "none" /\ at[c] # "gone" =>
    \A s \in sess[c] :
      /\ \A i \in DOMAIN history[c] : history[c][i] = next[c] + i - 1
      /\ Spans(next[c] + Len(history[c]), chan[c], lines[s] + 1 - dropped[c])

\* Once its session has finished or the daemon stops, the stream of a client that
\* reads ends, whether it subscribed before, after or while the channels were closed
\* (session.go, finish and Subscribe; server.go, streamToClient).
MustEnd(c) == at[c] # "idle" /\ (stopping \/ \E s \in sess[c] : Finished(s))
StreamEnds == \A c \in Clients : MustEnd(c) ~> at[c] = "gone"

\* What the comment on subscriber says: "a lagging client learns its stream is
\* incomplete instead of silently losing output" (session.go, finish).
LossAnnounced ==
  \A c \in Clients : over[c] = "end" =>
    \A s \in sess[c] : next[c] = lines[s] + 1

=============================================================================
