------------------------------ MODULE AcpTurns ------------------------------
(***************************************************************************)
(* The ACP server's prompt turns (internal/acp/agent.go) over its JSON-RPC *)
(* connection (jsonrpc.go), for one stored session.  Every inbound request *)
(* and notification runs on a goroutine of its own: prompts that queue on  *)
(* the session's mutex, session/cancel, session/close, session/delete and  *)
(* session/load.  A turn asks the client for permissions through an        *)
(* outbound call that the read loop answers.                               *)
(*                                                                         *)
(* A session that is closed and loaded again is a new object; 0 stands for *)
(* none.  A turn's record is the prompt it ran for.                        *)
(***************************************************************************)
EXTENDS Integers, Sequences, FiniteSets

CONSTANTS
  Prompts,     \* session/prompt requests
  Controls,    \* session/cancel, session/close and session/delete messages
  Loads,       \* session/load and session/resume requests
  Nobody,      \* no prompt
  MaxObjects,  \* bound: session objects created
  MaxAsks      \* bound: permission requests written

ASSUME NobodyAssumption == Nobody \notin Prompts
ASSUME BoundsAssumption == MaxObjects \in Nat \ {0} /\ MaxAsks \in Nat

VARIABLES
  live,       \* the object registered under the session's ID
  created,    \* objects created
  stored,     \* the session is in the store
  disk,       \* turns in its event log
  history,    \* each object's turns in memory
  planMode,   \* each object's planning phase
  workspace,  \* the objects whose toolkit is open
  turnMu,     \* holder of each object's turn mutex
  slot,       \* each object's cancel function: the turn it cancels
  at,         \* where each prompt's handler is
  obj,        \* the object it found
  base,       \* the history its run was started with
  ended,      \* how its run ended, until the response
  turnDone,   \* its turn context is cancelled
  control,    \* where each control's handler is
  target,     \* the object a control found
  grabbed,    \* the cancel function a control read
  load,       \* where each load's handler is
  loaded,     \* the history a load has read
  serve,      \* the read loop
  nextID,     \* last call ID
  pending,    \* the prompt that waits for each call ID
  box,        \* each prompt's response channel, of capacity one
  callID,     \* the call ID a prompt waits for
  requests,   \* history: call IDs of the requests written
  asked,      \* history: the last request of each prompt
  granted     \* history: the request whose answer let its run go on

sessionVars == <<live, created, stored, disk>>
objectVars  == <<history, planMode, workspace, turnMu, slot>>
promptVars  == <<at, obj, base, ended, turnDone>>
controlVars == <<control, target, grabbed>>
loadVars    == <<load, loaded>>
callVars    == <<nextID, pending, box, callID, requests, asked, granted>>
vars == <<sessionVars, objectVars, promptVars, controlVars, loadVars, serve, callVars>>

-----------------------------------------------------------------------------
Objects == 1..MaxObjects
Somebody == Prompts \cup {Nobody}
Handling == {"idle", "found", "armed", "running", "calling", "waiting",
             "ended", "leaving", "done"}
Ends == {"none", "over", "approved", "cancelled"}
Answers == {"allow", "reject", "cancelled", "closed"}

Init ==
  /\ live = 1 /\ created = 1 /\ stored = TRUE /\ disk = <<>>
  /\ history = [o \in Objects |-> <<>>]
  /\ planMode \in [Objects -> BOOLEAN]
  /\ \A o \in Objects \ {1} : ~planMode[o]
  /\ workspace = {}
  /\ turnMu = [o \in Objects |-> Nobody] /\ slot = [o \in Objects |-> Nobody]
  /\ at = [p \in Prompts |-> "idle"] /\ obj = [p \in Prompts |-> 0]
  /\ base = [p \in Prompts |-> <<>>]
  /\ ended = [p \in Prompts |-> "none"] /\ turnDone = [p \in Prompts |-> FALSE]
  /\ control = [c \in Controls |-> "idle"] /\ target = [c \in Controls |-> 0]
  /\ grabbed = [c \in Controls |-> Nobody]
  /\ load = [l \in Loads |-> "idle"] /\ loaded = [l \in Loads |-> <<>>]
  /\ serve = "serving"
  /\ nextID = 0 /\ pending = [i \in 1..MaxAsks |-> Nobody]
  /\ box = [p \in Prompts |-> <<>>] /\ callID = [p \in Prompts |-> 0]
  /\ requests = <<>> /\ asked = [p \in Prompts |-> 0]
  /\ granted = [p \in Prompts |-> 0]

Goes(p, from, to) == at[p] = from /\ at' = [at EXCEPT ![p] = to]
Steps(c, from, to) == control[c] = from /\ control' = [control EXCEPT ![c] = to]

Cancelled(p) == turnDone[p] \/ serve = "draining"

\* A handler of a message that was read; it may start after the stream's end.
Read == serve # "returned"

-----------------------------------------------------------------------------
(* session/prompt.                                                         *)

\* The session is looked up; without one the request fails.
Find(p) ==
  /\ Read
  /\ Goes(p, "idle", IF live = 0 THEN "done" ELSE "found")
  /\ obj' = [obj EXCEPT ![p] = live]
  /\ UNCHANGED <<sessionVars, objectVars, base, ended, turnDone, controlVars, loadVars, serve, callVars>>

LockFreeMutant(o) == TRUE

\* sess.turnMu
LockFree(o) == turnMu[o] = Nobody

\* A prompt waits for the turn before it, then sets its cancel function.
Lock(p) ==
  /\ Goes(p, "found", "armed")
  /\ LockFree(obj[p])
  /\ turnMu' = [turnMu EXCEPT ![obj[p]] = p]
  /\ slot' = [slot EXCEPT ![obj[p]] = p]
  /\ UNCHANGED <<sessionVars, history, planMode, workspace, obj, base, ended, turnDone,
                 controlVars, loadVars, serve, callVars>>

\* A slash command runs without a turn; config or provider errors end it early.
Command(p) ==
  /\ Goes(p, "armed", "leaving")
  /\ ended' = [ended EXCEPT ![p] = "over"]
  /\ UNCHANGED <<sessionVars, objectVars, obj, base, turnDone, controlVars, loadVars,
                 serve, callVars>>

\* runTurn up to RunAgent: the toolkit is built or reused, the prompt is
\* made of the history.
StartRun(p) ==
  /\ Goes(p, "armed", "running")
  /\ workspace' = workspace \cup {obj[p]}
  /\ base' = [base EXCEPT ![p] = history[obj[p]]]
  /\ UNCHANGED <<sessionVars, history, planMode, turnMu, slot, obj, ended, turnDone,
                 controlVars, loadVars, serve, callVars>>

\* RunAgent returns, with an answer or an error, or with a cancellation when
\* it saw its context end.
EndRun(p) ==
  /\ Goes(p, "running", "ended")
  /\ \E e \in {"over"} \cup (IF planMode[obj[p]] THEN {"approved"} ELSE {})
                \cup (IF Cancelled(p) THEN {"cancelled"} ELSE {}) :
       ended' = [ended EXCEPT ![p] = e]
  /\ granted' = [granted EXCEPT ![p] = 0]
  /\ UNCHANGED <<sessionVars, objectVars, obj, base, turnDone, controlVars, loadVars,
                 serve, nextID, pending, box, callID, requests, asked>>

\* persistTurn, whatever the end; an approved plan runs on at once, outside
\* plan mode, and any other turn leaves.
Persist(p) ==
  /\ Goes(p, "ended", IF ended[p] = "approved" THEN "armed" ELSE "leaving")
  /\ disk' \in {disk} \cup (IF stored THEN {Append(disk, p)} ELSE {})
  /\ history' = [history EXCEPT ![obj[p]] = Append(@, p)]
  /\ planMode' = [planMode EXCEPT ![obj[p]] = @ /\ ended[p] # "approved"]
  /\ UNCHANGED <<live, created, stored, workspace, turnMu, slot, obj, base, ended, turnDone,
                 controlVars, loadVars, serve, callVars>>

\* The deferred cancel, setCancel(nil) and Unlock; the response is written.
Leave(p) ==
  /\ Goes(p, "leaving", "done")
  /\ turnDone' = [turnDone EXCEPT ![p] = TRUE]
  /\ slot' = [slot EXCEPT ![obj[p]] = Nobody]
  /\ turnMu' = [turnMu EXCEPT ![obj[p]] = Nobody]
  /\ obj' = [obj EXCEPT ![p] = 0] /\ base' = [base EXCEPT ![p] = <<>>]
  /\ ended' = [ended EXCEPT ![p] = "none"]
  /\ UNCHANGED <<sessionVars, history, planMode, workspace, controlVars,
                 loadVars, serve, callVars>>

-----------------------------------------------------------------------------
(* requestPermission: an outbound Call of a running turn.                  *)

FreshIDMutant == IF nextID = 0 THEN 1 ELSE nextID

FreshID == nextID + 1

\* The call is registered, unless the connection is closed: then it fails at
\* once, which denies the permission and the run goes on.
RegisterCall(p) ==
  /\ serve = "serving" /\ FreshID <= MaxAsks /\ Len(requests) < MaxAsks
  /\ Goes(p, "running", "calling")
  /\ nextID' = FreshID
  /\ callID' = [callID EXCEPT ![p] = FreshID]
  /\ pending' = [pending EXCEPT ![FreshID] = p]
  /\ box' = [box EXCEPT ![p] = <<>>]
  /\ granted' = [granted EXCEPT ![p] = 0]
  /\ UNCHANGED <<sessionVars, objectVars, obj, base, ended, turnDone, controlVars, loadVars,
                 serve, requests, asked>>

Unregister(p) == pending' = [pending EXCEPT ![callID[p]] = Nobody]

\* The request is written, or the write fails and the permission is denied.
WriteCall(p) ==
  /\ \/ /\ Goes(p, "calling", "waiting")
        /\ Len(requests) < MaxAsks
        /\ requests' = Append(requests, callID[p])
        /\ asked' = [asked EXCEPT ![p] = Len(requests) + 1]
        /\ UNCHANGED pending
     \/ /\ Goes(p, "calling", "running")
        /\ Unregister(p)
        /\ UNCHANGED <<requests, asked>>
  /\ UNCHANGED <<sessionVars, objectVars, obj, base, ended, turnDone, controlVars, loadVars,
                 serve, nextID, box, callID, granted>>

\* The response: a grant lets the tool run, a cancelled outcome ends the run.
TakeAnswer(p) ==
  /\ box[p] # <<>>
  /\ LET r == Head(box[p])
     IN  /\ IF r.answer = "cancelled"
              THEN Goes(p, "waiting", "ended") /\ ended' = [ended EXCEPT ![p] = "cancelled"]
              ELSE Goes(p, "waiting", "running") /\ UNCHANGED ended
         /\ granted' = [granted EXCEPT ![p] = IF r.answer = "allow" THEN r.to ELSE 0]
  /\ box' = [box EXCEPT ![p] = <<>>]
  /\ Unregister(p)
  /\ UNCHANGED <<sessionVars, objectVars, obj, base, turnDone, controlVars, loadVars, serve,
                 nextID, callID, requests, asked>>

\* The turn's context ends first: the permission is cancelled, and the run.
AbandonCall(p) ==
  /\ Cancelled(p)
  /\ Goes(p, "waiting", "ended")
  /\ ended' = [ended EXCEPT ![p] = "cancelled"]
  /\ Unregister(p)
  /\ UNCHANGED <<sessionVars, objectVars, obj, base, turnDone, controlVars, loadVars, serve,
                 nextID, box, callID, requests, asked, granted>>

DeliverMutant(n, answer) ==
  /\ LET p == pending[requests[n]]
     IN  /\ p # Nobody
         /\ box' = [box EXCEPT ![p] = Append(@, [to |-> n, answer |-> answer])]
  /\ UNCHANGED pending

\* deliver, on the read loop: a response to a call nobody waits for, late or
\* a second one, is dropped.
Deliver(n, answer) ==
  /\ LET p == pending[requests[n]]
     IN  /\ p # Nobody
         /\ box' = [box EXCEPT ![p] = IF @ = <<>> THEN <<[to |-> n, answer |-> answer]>> ELSE @]
  /\ pending' = [pending EXCEPT ![requests[n]] = Nobody]

\* The client may answer any request it has read, in any order.
Respond ==
  /\ serve = "serving"
  /\ \E n \in DOMAIN requests, answer \in Answers \ {"closed"} : Deliver(n, answer)
  /\ UNCHANGED <<sessionVars, objectVars, promptVars, controlVars, loadVars, serve, nextID,
                 callID, requests, asked, granted>>

-----------------------------------------------------------------------------
(* session/cancel, session/close, session/delete.                          *)

\* session/cancel looks the session up.
FindToCancel(c) ==
  /\ Read
  /\ Steps(c, "idle", IF live = 0 THEN "done" ELSE "cancel")
  /\ target' = [target EXCEPT ![c] = live]
  /\ UNCHANGED <<sessionVars, objectVars, promptVars, grabbed, loadVars, serve, callVars>>

\* session/delete first removes the session from the store, or fails.
DeleteStored(c) ==
  /\ Read
  /\ \/ Steps(c, "idle", "drop") /\ stored' = FALSE /\ disk' = <<>>
     \/ Steps(c, "idle", "done") /\ UNCHANGED <<stored, disk>>
  /\ UNCHANGED <<live, created, objectVars, promptVars, target, grabbed, loadVars, serve, callVars>>

\* dropSession, which is all of session/close: unregister, then cancel the
\* turn whose function is set, then close the toolkit.
Drop(c) ==
  /\ Read
  /\ \E from \in {"idle", "drop"} : Steps(c, from, IF live = 0 THEN "done" ELSE "close")
  /\ target' = [target EXCEPT ![c] = live]
  /\ live' = 0
  /\ UNCHANGED <<created, stored, disk, objectVars, promptVars, grabbed, loadVars, serve, callVars>>

\* invokeCancel reads the function under the session's lock ...
Grab(c) ==
  /\ \/ Steps(c, "cancel", "fire") \/ Steps(c, "close", "fireAndClose")
  /\ grabbed' = [grabbed EXCEPT ![c] = slot[target[c]]]
  /\ UNCHANGED <<sessionVars, objectVars, promptVars, target, loadVars, serve, callVars>>

\* ... and calls it after: the turn may be over by then.
Fire(c) ==
  /\ \/ Steps(c, "fire", "done") \/ Steps(c, "fireAndClose", "shut")
  /\ turnDone' = [p \in Prompts |-> turnDone[p] \/ grabbed[c] = p]
  /\ grabbed' = [grabbed EXCEPT ![c] = Nobody]
  /\ UNCHANGED <<sessionVars, objectVars, at, obj, base, ended, target, loadVars,
                 serve, callVars>>

CloseWorkspace(c) ==
  /\ Steps(c, "shut", "closed")
  /\ workspace' = workspace \ {target[c]}
  /\ UNCHANGED <<sessionVars, history, planMode, turnMu, slot, promptVars, target, grabbed,
                 loadVars, serve, callVars>>

(* session/load and session/resume.                                        *)

ReadHistory(l) ==
  /\ Read
  /\ load[l] = "idle"
  /\ load' = [load EXCEPT ![l] = IF stored THEN "read" ELSE "done"]
  /\ loaded' \in {[loaded EXCEPT ![l] = disk], loaded}
  /\ UNCHANGED <<sessionVars, objectVars, promptVars, controlVars, serve, callVars>>

RegisterMutant(l) ==
  /\ load[l] = "read"
  /\ IF live # 0
       THEN history' = [history EXCEPT ![live] = loaded[l]] /\ UNCHANGED <<live, created>>
       ELSE /\ created < MaxObjects
            /\ created' = created + 1 /\ live' = created + 1
            /\ history' = [history EXCEPT ![created + 1] = loaded[l]]
  /\ load' = [load EXCEPT ![l] = "done"]
  /\ loaded' = [loaded EXCEPT ![l] = <<>>]
  /\ UNCHANGED <<stored, disk, planMode, workspace, turnMu, slot, promptVars, controlVars,
                 serve, callVars>>

\* registerSession keeps a session that is already live, with its history.
Register(l) ==
  /\ load[l] = "read"
  /\ IF live # 0
       THEN UNCHANGED <<live, created, history>>
       ELSE /\ created < MaxObjects
            /\ created' = created + 1 /\ live' = created + 1
            /\ history' = [history EXCEPT ![created + 1] = loaded[l]]
  /\ load' = [load EXCEPT ![l] = "done"]
  /\ loaded' = [loaded EXCEPT ![l] = <<>>]
  /\ UNCHANGED <<stored, disk, planMode, workspace, turnMu, slot, promptVars, controlVars,
                 serve, callVars>>

-----------------------------------------------------------------------------
(* The read loop.                                                          *)

\* The stream ends: failAllPending answers every call that still waits.
StreamEnds ==
  /\ serve = "serving"
  /\ serve' = "closed"
  /\ pending' = [i \in DOMAIN pending |-> Nobody]
  /\ box' = [p \in Prompts |->
               IF box[p] = <<>> /\ \E i \in DOMAIN pending : pending[i] = p
                 THEN <<[to |-> 0, answer |-> "closed"]>> ELSE box[p]]
  /\ UNCHANGED <<sessionVars, objectVars, promptVars, controlVars, loadVars, nextID,
                 callID, requests, asked, granted>>

CancelHandlersMutant ==
  /\ serve = "never"
  /\ UNCHANGED vars

\* Serve's deferred cancel ...
CancelHandlers ==
  /\ serve = "closed"
  /\ serve' = "draining"
  /\ UNCHANGED <<sessionVars, objectVars, promptVars, controlVars, loadVars, callVars>>

\* ... and wait for every handler.
Return ==
  /\ serve = "draining"
  /\ \A p \in Prompts : at[p] \in {"idle", "done"}
  /\ \A c \in Controls : control[c] \in {"idle", "done", "closed"}
  /\ \A l \in Loads : load[l] \in {"idle", "done"}
  /\ serve' = "returned"
  /\ UNCHANGED <<sessionVars, objectVars, promptVars, controlVars, loadVars, callVars>>

Prompt(p) ==
  \/ Find(p) \/ Lock(p) \/ Command(p) \/ StartRun(p) \/ EndRun(p)
  \/ Persist(p) \/ Leave(p) \/ RegisterCall(p) \/ WriteCall(p) \/ TakeAnswer(p)
  \/ AbandonCall(p)
Control(c) ==
  \/ FindToCancel(c) \/ DeleteStored(c) \/ Drop(c) \/ Grab(c) \/ Fire(c) \/ CloseWorkspace(c)
Loading(l) == ReadHistory(l) \/ Register(l)

\* The process exits when Serve has returned.
Exited == serve = "returned" /\ UNCHANGED vars

Next ==
  \/ \E p \in Prompts : Prompt(p)
  \/ \E c \in Controls : Control(c)
  \/ \E l \in Loads : Loading(l)
  \/ Respond \/ StreamEnds \/ CancelHandlers \/ Return \/ Exited

Spec == Init /\ [][Next]_vars

\* Go schedules every handler that can go on, a mutex is fair to its waiters,
\* and a run whose context ended returns.  Nothing is assumed of the client,
\* nor that a run ends by itself.
Fairness ==
  /\ \A p \in Prompts :
       /\ SF_vars(Lock(p)) /\ WF_vars(Command(p) \/ StartRun(p))
       /\ WF_vars(Cancelled(p) /\ EndRun(p)) /\ WF_vars(Persist(p))
       /\ WF_vars(Leave(p)) /\ WF_vars(WriteCall(p))
       /\ WF_vars(TakeAnswer(p) \/ AbandonCall(p))
  /\ \A c \in Controls : WF_vars(Grab(c) \/ Fire(c) \/ CloseWorkspace(c))
  /\ \A c \in Controls : WF_vars(control[c] = "drop" /\ Drop(c))
  /\ \A l \in Loads : WF_vars(Register(l))
  /\ WF_vars(CancelHandlers) /\ WF_vars(Return)

FairSpec == Spec /\ Fairness

-----------------------------------------------------------------------------
(* Properties.                                                             *)

TypeOK ==
  /\ live \in 0..created /\ created \in Objects /\ stored \in BOOLEAN
  /\ disk \in Seq(Prompts)
  /\ history \in [Objects -> Seq(Prompts)] /\ planMode \in [Objects -> BOOLEAN]
  /\ workspace \subseteq Objects
  /\ turnMu \in [Objects -> Somebody] /\ slot \in [Objects -> Somebody]
  /\ at \in [Prompts -> Handling] /\ obj \in [Prompts -> 0..created]
  /\ ended \in [Prompts -> Ends] /\ turnDone \in [Prompts -> BOOLEAN]
  /\ grabbed \in [Controls -> Somebody] /\ target \in [Controls -> 0..created]
  /\ serve \in {"serving", "closed", "draining", "returned"}
  /\ nextID \in 0..MaxAsks /\ pending \in [1..MaxAsks -> Somebody]
  /\ \A p \in Prompts : Len(box[p]) <= 1
  /\ callID \in [Prompts -> 0..MaxAsks]

InTurn(p) == at[p] \in {"armed", "running", "calling", "waiting", "ended", "leaving"}

(* A cancel reaches the turn that runs: while a prompt has a turn, the     *)
(* session's cancel function is that turn's, so prompts of one session,    *)
(* however they queue and end, never take or clear each other's.           *)
SlotIsRunning == \A p \in Prompts : InTurn(p) => slot[obj[p]] = p

(* A run sees every turn of its session object that ended before it, and   *)
(* no load of the session, nor another prompt, changes the history under   *)
(* it.                                                                     *)
RunSeesHistory ==
  \A p \in Prompts :
    at[p] \in {"running", "calling", "waiting", "ended"} => base[p] = history[obj[p]]

(* A tool runs on a permission only if the client granted that very        *)
(* request: a late, repeated or misplaced answer never grants another.     *)
GrantIsForRequest == \A p \in Prompts : granted[p] \in {0, asked[p]}

(* When the client's stream ends, Serve returns: no handler is left to     *)
(* wait for a permission, the turn mutex, or a run.                        *)
ServeEnds == serve = "closed" ~> serve = "returned"

(* "ACP requires close to cancel any ongoing work first, so an in-flight   *)
(* turn stops rather than running on unreachable": once session/close has  *)
(* returned, no turn of the session it closed runs on uncancelled.         *)
CloseStopsTurns ==
  \A c \in Controls, p \in Prompts :
    control[c] = "closed" /\ obj[p] = target[c] /\ at[p] \in {"running", "calling", "waiting"}
      => Cancelled(p)
=============================================================================
