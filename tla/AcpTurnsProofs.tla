--------------------------- MODULE AcpTurnsProofs ---------------------------
(***************************************************************************)
(* The ACP server's turns keep their types, a cancel function is that of   *)
(* the turn that runs, a run's history is not changed under it, and a      *)
(* permission is granted by the answer to its own request: for any number  *)
(* of prompts, controls, loads, session objects and requests.              *)
(***************************************************************************)
EXTENDS AcpTurns, SequenceTheorems, TLAPS

Response == [to : Nat, answer : Answers]

\* TypeOK by parts, and the types of what it leaves out.
SessionOK ==
  /\ created \in Objects /\ live \in 0..created
  /\ stored \in BOOLEAN /\ disk \in Seq(Prompts)
ObjectOK ==
  /\ history \in [Objects -> Seq(Prompts)] /\ planMode \in [Objects -> BOOLEAN]
  /\ workspace \subseteq Objects
  /\ turnMu \in [Objects -> Somebody] /\ slot \in [Objects -> Somebody]
PromptOK ==
  /\ at \in [Prompts -> Handling] /\ obj \in [Prompts -> 0..created]
  /\ base \in [Prompts -> Seq(Prompts)]
  /\ ended \in [Prompts -> Ends] /\ turnDone \in [Prompts -> BOOLEAN]
Controlling ==
  {"idle", "drop", "cancel", "fire", "close", "fireAndClose", "shut", "closed", "done"}
ControlOK ==
  /\ grabbed \in [Controls -> Somebody] /\ target \in [Controls -> 0..created]
  /\ control \in [Controls -> Controlling]
  /\ \A c \in Controls : control[c] \in {"cancel", "close"} => target[c] # 0
LoadOK == loaded \in [Loads -> Seq(Prompts)]
ServeOK == serve \in {"serving", "closed", "draining", "returned"}
CallOK ==
  /\ nextID \in 0..MaxAsks /\ pending \in [1..MaxAsks -> Somebody]
  /\ box \in [Prompts -> Seq(Response)] /\ \A p \in Prompts : Len(box[p]) <= 1
  /\ callID \in [Prompts -> 0..MaxAsks]
  /\ requests \in Seq(1..MaxAsks)
  /\ asked \in [Prompts -> Nat] /\ granted \in [Prompts -> Nat]
TypeInv ==
  SessionOK /\ ObjectOK /\ PromptOK /\ ControlOK /\ LoadOK /\ ServeOK /\ CallOK

\* The prompt in a turn of an object holds its mutex, so it is the only one; it
\* has an object, as every prompt that has found one.
TurnInv ==
  \A p \in Prompts :
    /\ at[p] = "found" \/ InTurn(p) => obj[p] \in Objects
    /\ InTurn(p) => turnMu[obj[p]] = p /\ slot[obj[p]] = p

Asking(p) == at[p] \in {"calling", "waiting"}

\* An ID is of one call, which is registered while its prompt waits, and of at most
\* one request, which is the one the prompt that waits has written.
IDsInv ==
  /\ \A n \in DOMAIN requests : requests[n] \in 1..nextID
  /\ \A m, n \in DOMAIN requests : requests[m] = requests[n] => m = n
  /\ \A p \in Prompts : Asking(p) => callID[p] \in 1..nextID
  /\ \A p, q \in Prompts : Asking(p) /\ Asking(q) /\ callID[p] = callID[q] => p = q
  /\ \A i \in 1..MaxAsks, p \in Prompts : pending[i] = p => Asking(p) /\ callID[p] = i
  /\ \A p \in Prompts : at[p] = "calling" =>
       \A n \in DOMAIN requests : requests[n] # callID[p]
  /\ \A p \in Prompts : at[p] = "waiting" =>
       asked[p] \in DOMAIN requests /\ requests[asked[p]] = callID[p]

\* What waits in a channel answers the request of its prompt, or is the error of a
\* closed connection, and nothing is granted while a prompt asks.
AnswersInv ==
  /\ \A p \in Prompts : Asking(p) /\ box[p] # <<>> =>
       Head(box[p]).to = 0 \/ (at[p] = "waiting" /\ Head(box[p]).to = asked[p])
  /\ \A p \in Prompts : Asking(p) => granted[p] = 0
  /\ GrantIsForRequest

IInv == TypeInv /\ TurnInv /\ RunSeesHistory /\ IDsInv /\ AnswersInv

-----------------------------------------------------------------------------
LEMMA TypeFromInv == TypeInv => TypeOK
BY DEF TypeInv, TypeOK, SessionOK, ObjectOK, PromptOK, ControlOK, ServeOK, CallOK

LEMMA SlotFromInv == TurnInv => SlotIsRunning
BY DEF TurnInv, SlotIsRunning

LEMMA InitInv == Init => IInv
<1> SUFFICES ASSUME Init PROVE IInv
  OBVIOUS
<1>1. /\ 1 \in Objects /\ 0 \in 0..1 /\ 1 \in 0..1 /\ 0 \in 0..MaxAsks
      /\ <<>> \in Seq(Prompts) /\ <<>> \in Seq(Response) /\ <<>> \in Seq(1..MaxAsks)
      /\ Len(<<>>) = 0 /\ DOMAIN <<>> = {}
  BY BoundsAssumption, EmptySeq DEF Objects
<1>2. SessionOK /\ ServeOK
  BY <1>1 DEF Init, SessionOK, ServeOK
<1>3. ObjectOK
  BY <1>1 DEF Init, ObjectOK, Somebody
<1>4. PromptOK
  BY <1>1 DEF Init, PromptOK, Handling, Ends
<1>5. ControlOK /\ LoadOK
  BY <1>1 DEF Init, ControlOK, Controlling, LoadOK, Somebody
<1>6. CallOK
  BY <1>1 DEF Init, CallOK, Somebody
<1>7. TurnInv /\ RunSeesHistory
  BY DEF Init, TurnInv, InTurn, RunSeesHistory
<1>8. IDsInv
  BY <1>1, NobodyAssumption DEF Init, IDsInv, Asking
<1>9. AnswersInv
  BY DEF Init, AnswersInv, Asking, GrantIsForRequest
<1> QED BY <1>2, <1>3, <1>4, <1>5, <1>6, <1>7, <1>8, <1>9 DEF IInv, TypeInv

-----------------------------------------------------------------------------
(* Where a prompt goes, and what that leaves true.                         *)

Running == {"running", "calling", "waiting", "ended"}

LEMMA GoesType ==
  ASSUME PromptOK, NEW p \in Prompts, NEW from, NEW to \in Handling, Goes(p, from, to)
  PROVE  /\ at[p] = from /\ at' \in [Prompts -> Handling] /\ at'[p] = to
         /\ \A q \in Prompts : q # p => at'[q] = at[q]
BY DEF PromptOK, Goes

\* A step within a turn, or out of a prompt's handling of its own turn.
LEMMA WithinTurn ==
  ASSUME PromptOK, TurnInv, NEW p \in Prompts, NEW from, NEW to \in Handling, Goes(p, from, to),
         InTurn(p), to # "found", UNCHANGED <<obj, turnMu, slot>>
  PROVE  TurnInv'
<1>1. \A q \in Prompts : (at'[q] = "found" => at[q] = "found") /\ (InTurn(q)' => InTurn(q))
  BY GoesType DEF InTurn
<1> QED BY <1>1 DEF TurnInv

\* A step to or from a run that changes no history and starts none.
LEMMA RunGoesOn ==
  ASSUME PromptOK, RunSeesHistory, NEW p \in Prompts, NEW from, NEW to \in Handling,
         Goes(p, from, to), from \in Running \/ to \notin Running,
         UNCHANGED <<obj, base, history>>
  PROVE  RunSeesHistory'
<1>1. \A q \in Prompts : at'[q] \in Running => at[q] \in Running
  BY GoesType
<1> QED BY <1>1 DEF RunSeesHistory, Running

\* A step of a prompt that asks nothing.
LEMMA NotAsking ==
  ASSUME PromptOK, IDsInv, NEW p \in Prompts, NEW from, NEW to \in Handling,
         Goes(p, from, to), {from, to} \cap {"calling", "waiting"} = {},
         UNCHANGED <<nextID, pending, box, callID, requests, asked>>
  PROVE  /\ IDsInv'
         /\ \A q \in Prompts : (Asking(q)' <=> Asking(q))
                               /\ (at'[q] = "waiting" <=> at[q] = "waiting")
<1>1. \A q \in Prompts : /\ Asking(q)' <=> Asking(q)
                         /\ at'[q] = "waiting" <=> at[q] = "waiting"
                         /\ at'[q] = "calling" <=> at[q] = "calling"
  BY GoesType DEF Asking
<1>2. IDsInv'
  BY <1>1 DEF IDsInv
<1> QED BY <1>1, <1>2

LEMMA NotAskingAnswers ==
  ASSUME PromptOK, IDsInv, AnswersInv, NEW p \in Prompts, NEW from, NEW to \in Handling,
         Goes(p, from, to), {from, to} \cap {"calling", "waiting"} = {},
         UNCHANGED callVars
  PROVE  IDsInv' /\ AnswersInv'
<1>1. /\ IDsInv'
      /\ \A q \in Prompts : (Asking(q)' <=> Asking(q))
                            /\ (at'[q] = "waiting" <=> at[q] = "waiting")
  BY NotAsking DEF callVars
<1>2. AnswersInv'
  BY <1>1 DEF AnswersInv, GrantIsForRequest, callVars
<1> QED BY <1>1, <1>2

-----------------------------------------------------------------------------
(* session/prompt.                                                         *)

LEMMA FindInv ==
  ASSUME IInv, NEW p \in Prompts, Find(p)
  PROVE  IInv'
<1> DEFINE to == IF live = 0 THEN "done" ELSE "found"
<1>1. to \in Handling /\ Goes(p, "idle", to)
  BY DEF Find, Handling
<1>2. TypeInv'
  BY <1>1, GoesType DEF Find, IInv, TypeInv, SessionOK, ObjectOK, PromptOK, ControlOK, LoadOK,
       ServeOK, CallOK, sessionVars, objectVars, controlVars, loadVars, callVars
<1>3. TurnInv'
  <2>1. live # 0 => live \in Objects
    BY BoundsAssumption DEF IInv, TypeInv, SessionOK, Objects
  <2>2. obj'[p] = live /\ at'[p] = to /\ \A q \in Prompts : q # p => at'[q] = at[q]
                              /\ obj'[q] = obj[q]
    BY <1>1, GoesType DEF Find, IInv, TypeInv, PromptOK
  <2> QED BY <2>1, <2>2 DEF Find, IInv, TurnInv, InTurn, objectVars
<1>4. RunSeesHistory'
  <2>1. \A q \in Prompts : at'[q] \in Running => at[q] \in Running /\ obj'[q] = obj[q]
    BY <1>1, GoesType DEF Find, IInv, TypeInv, PromptOK, Running
  <2> QED BY <2>1 DEF Find, IInv, RunSeesHistory, Running, objectVars
<1>5. IDsInv' /\ AnswersInv'
  BY <1>1, NotAskingAnswers DEF Find, IInv, TypeInv
<1> QED BY <1>2, <1>3, <1>4, <1>5 DEF IInv

\* The mutex was free, so nobody was in a turn on the object.
LEMMA LockInv ==
  ASSUME IInv, NEW p \in Prompts, Lock(p)
  PROVE  IInv'
<1>1. "armed" \in Handling /\ Goes(p, "found", "armed") /\ obj[p] \in Objects
  BY DEF Lock, Handling, Goes, IInv, TurnInv
<1>2. TypeInv'
  BY <1>1, GoesType DEF Lock, IInv, TypeInv, SessionOK, ObjectOK, PromptOK, ControlOK, LoadOK,
       ServeOK, CallOK, sessionVars, controlVars, loadVars, callVars, Somebody
<1>3. TurnInv'
  <2>1. turnMu'[obj[p]] = p /\ slot'[obj[p]] = p /\ UNCHANGED obj
    BY <1>1 DEF Lock, IInv, TypeInv, ObjectOK
  <2>2. ASSUME NEW q \in Prompts, q # p, at'[q] = "found" \/ InTurn(q)'
        PROVE  obj[q] \in Objects /\ (InTurn(q) <=> InTurn(q)')
    BY <1>1, <2>2, GoesType DEF IInv, TypeInv, TurnInv, InTurn
  <2>3. ASSUME NEW q \in Prompts, q # p, InTurn(q)
        PROVE  turnMu'[obj[q]] = q /\ slot'[obj[q]] = q
    <3>1. turnMu[obj[q]] = q /\ slot[obj[q]] = q /\ q # Nobody
      BY <2>3, NobodyAssumption DEF IInv, TurnInv
    <3>2. obj[q] # obj[p]
      BY <3>1 DEF Lock, LockFree
    <3> QED BY <3>1, <3>2 DEF Lock, IInv, TypeInv, ObjectOK
  <2> QED BY <1>1, <2>1, <2>2, <2>3 DEF TurnInv
<1>4. RunSeesHistory'
  BY <1>1, RunGoesOn DEF Lock, IInv, TypeInv, Running
<1>5. IDsInv' /\ AnswersInv'
  BY <1>1, NotAskingAnswers DEF Lock, IInv, TypeInv
<1> QED BY <1>2, <1>3, <1>4, <1>5 DEF IInv

LEMMA CommandInv ==
  ASSUME IInv, NEW p \in Prompts, Command(p)
  PROVE  IInv'
<1>1. "leaving" \in Handling /\ Goes(p, "armed", "leaving") /\ InTurn(p)
  BY DEF Command, Handling, Goes, InTurn
<1>2. TypeInv'
  BY <1>1, GoesType DEF Command, IInv, TypeInv, SessionOK, ObjectOK, PromptOK, ControlOK, LoadOK,
       ServeOK, CallOK, sessionVars, objectVars, controlVars, loadVars, callVars, Ends
<1>3. TurnInv' /\ RunSeesHistory'
  BY <1>1, WithinTurn, RunGoesOn DEF Command, IInv, TypeInv, Running, objectVars
<1>4. IDsInv' /\ AnswersInv'
  BY <1>1, NotAskingAnswers DEF Command, IInv, TypeInv
<1> QED BY <1>2, <1>3, <1>4 DEF IInv

\* The run starts with the history as it is.
LEMMA StartRunInv ==
  ASSUME IInv, NEW p \in Prompts, StartRun(p)
  PROVE  IInv'
<1>1. "running" \in Handling /\ Goes(p, "armed", "running") /\ InTurn(p)
  BY DEF StartRun, Handling, Goes, InTurn
<1>2. obj[p] \in Objects
  BY <1>1 DEF IInv, TurnInv
<1>3. TypeInv'
  BY <1>1, <1>2, GoesType DEF StartRun, IInv, TypeInv, SessionOK, ObjectOK, PromptOK, ControlOK,
       LoadOK, ServeOK, CallOK, sessionVars, controlVars, loadVars, callVars
<1>4. TurnInv'
  BY <1>1, WithinTurn DEF StartRun, IInv, TypeInv
<1>5. RunSeesHistory'
  <2>1. base'[p] = history[obj[p]] /\ \A q \in Prompts : q # p => base'[q] = base[q]
    BY DEF StartRun, IInv, TypeInv, PromptOK
  <2> QED BY <1>1, <2>1, GoesType DEF StartRun, IInv, TypeInv, RunSeesHistory
<1>6. IDsInv' /\ AnswersInv'
  BY <1>1, NotAskingAnswers DEF StartRun, IInv, TypeInv
<1> QED BY <1>3, <1>4, <1>5, <1>6 DEF IInv

\* A run that ends was not waiting for an answer.
LEMMA EndRunInv ==
  ASSUME IInv, NEW p \in Prompts, EndRun(p)
  PROVE  IInv'
<1>1. "ended" \in Handling /\ Goes(p, "running", "ended") /\ InTurn(p)
  BY DEF EndRun, Handling, Goes, InTurn
<1>2. TypeInv'
  <2>1. PICK e \in Ends : ended' = [ended EXCEPT ![p] = e]
    BY DEF EndRun, Ends
  <2>2. PromptOK'
    BY <1>1, <2>1, GoesType DEF EndRun, IInv, TypeInv, PromptOK, sessionVars
  <2> QED BY <2>2 DEF EndRun, IInv, TypeInv, SessionOK, ObjectOK, ControlOK, LoadOK, ServeOK,
            CallOK, sessionVars, objectVars, controlVars, loadVars
<1>3. TurnInv' /\ RunSeesHistory'
  BY <1>1, WithinTurn, RunGoesOn DEF EndRun, IInv, TypeInv, Running, objectVars
<1>4. /\ IDsInv'
      /\ \A q \in Prompts : (Asking(q)' <=> Asking(q))
                            /\ (at'[q] = "waiting" <=> at[q] = "waiting")
  BY <1>1, NotAsking DEF EndRun, IInv, TypeInv
<1>5. granted'[p] = 0 /\ \A q \in Prompts : q # p => granted'[q] = granted[q]
  BY DEF EndRun, IInv, TypeInv, CallOK
<1>6. AnswersInv'
  BY <1>4, <1>5 DEF EndRun, IInv, AnswersInv, GrantIsForRequest
<1> QED BY <1>2, <1>3, <1>4, <1>6 DEF IInv

\* The history grows by the turn of the one prompt that is in a turn of its object.
LEMMA PersistInv ==
  ASSUME IInv, NEW p \in Prompts, Persist(p)
  PROVE  IInv'
<1> DEFINE to == IF ended[p] = "approved" THEN "armed" ELSE "leaving"
<1>1. to \in Handling /\ Goes(p, "ended", to) /\ InTurn(p)
  BY DEF Persist, Handling, Goes, InTurn
<1>2. obj[p] \in Objects
  BY <1>1 DEF IInv, TurnInv
<1>3. TypeInv'
  <2>1. Append(disk, p) \in Seq(Prompts)
    BY AppendProperties DEF IInv, TypeInv, SessionOK
  <2>2. SessionOK'
    BY <2>1 DEF Persist, IInv, TypeInv, SessionOK
  <2>3. Append(history[obj[p]], p) \in Seq(Prompts)
    BY <1>2, AppendProperties DEF IInv, TypeInv, ObjectOK
  <2>4. ObjectOK'
    BY <1>2, <2>3 DEF Persist, IInv, TypeInv, ObjectOK
  <2> QED BY <1>1, <2>2, <2>4, GoesType DEF Persist, IInv, TypeInv, PromptOK, ControlOK, LoadOK,
            ServeOK, CallOK, controlVars, loadVars, callVars
<1>4. TurnInv'
  BY <1>1, WithinTurn DEF Persist, IInv, TypeInv
<1>5. RunSeesHistory'
  <2>1. ASSUME NEW q \in Prompts, at'[q] \in Running
        PROVE  base'[q] = history'[obj'[q]]
    <3>1. q # p /\ at[q] \in Running
      BY <1>1, <2>1, GoesType DEF Running, IInv, TypeInv
    <3>2. turnMu[obj[q]] = q /\ turnMu[obj[p]] = p /\ obj[q] \in Objects
      BY <1>1, <3>1 DEF IInv, TurnInv, InTurn, Running
    <3>3. obj[q] # obj[p]
      BY <3>1, <3>2
    <3> QED BY <3>1, <3>2, <3>3 DEF Persist, IInv, TypeInv, ObjectOK, RunSeesHistory, Running
  <2> QED BY <2>1 DEF RunSeesHistory, Running
<1>6. IDsInv' /\ AnswersInv'
  BY <1>1, NotAskingAnswers DEF Persist, IInv, TypeInv
<1> QED BY <1>3, <1>4, <1>5, <1>6 DEF IInv

\* The mutex and the slot that the prompt gives up are its own.
LEMMA LeaveInv ==
  ASSUME IInv, NEW p \in Prompts, Leave(p)
  PROVE  IInv'
<1>1. "done" \in Handling /\ Goes(p, "leaving", "done") /\ InTurn(p)
  BY DEF Leave, Handling, Goes, InTurn
<1>2. obj[p] \in Objects /\ turnMu[obj[p]] = p
  BY <1>1 DEF IInv, TurnInv
<1>3. TypeInv'
  <2>1. 0 \in 0..created /\ <<>> \in Seq(Prompts)
    BY EmptySeq DEF IInv, TypeInv, SessionOK, Objects
  <2>2. PromptOK'
    BY <1>1, <2>1, GoesType DEF Leave, IInv, TypeInv, PromptOK, Ends, sessionVars
  <2> QED BY <1>2, <2>2 DEF Leave, IInv, TypeInv, SessionOK, ObjectOK, ControlOK, LoadOK,
            ServeOK, CallOK, sessionVars, controlVars, loadVars, callVars, Somebody
<1>4. ASSUME NEW q \in Prompts, at'[q] = "found" \/ InTurn(q)'
      PROVE  q # p /\ at'[q] = at[q] /\ obj'[q] = obj[q] /\ (InTurn(q) <=> InTurn(q)')
  BY <1>1, <1>4, GoesType DEF Leave, IInv, TypeInv, PromptOK, InTurn
<1>5. ASSUME NEW q \in Prompts, q # p, InTurn(q)
      PROVE  turnMu'[obj[q]] = q /\ slot'[obj[q]] = q
  <2>1. turnMu[obj[q]] = q /\ slot[obj[q]] = q /\ obj[q] # obj[p]
    BY <1>2, <1>5 DEF IInv, TurnInv
  <2> QED BY <1>5, <2>1 DEF Leave, IInv, TypeInv, ObjectOK, TurnInv
<1>6. TurnInv'
  BY <1>4, <1>5 DEF IInv, TurnInv
<1>7. RunSeesHistory'
  <2>1. \A q \in Prompts : at'[q] \in Running => at[q] \in Running /\ obj'[q] = obj[q]
                              /\ base'[q] = base[q]
    BY <1>1, GoesType DEF Leave, IInv, TypeInv, PromptOK, Running
  <2> QED BY <2>1 DEF Leave, IInv, RunSeesHistory, Running
<1>8. IDsInv' /\ AnswersInv'
  BY <1>1, NotAskingAnswers DEF Leave, IInv, TypeInv
<1> QED BY <1>3, <1>6, <1>7, <1>8 DEF IInv

-----------------------------------------------------------------------------
(* Calls.                                                                  *)

\* The new ID is above all that are in use.
LEMMA RegisterCallInv ==
  ASSUME IInv, NEW p \in Prompts, RegisterCall(p)
  PROVE  IInv'
<1>1. "calling" \in Handling /\ Goes(p, "running", "calling") /\ InTurn(p)
  BY DEF RegisterCall, Handling, Goes, InTurn
<1>2. nextID \in Nat /\ MaxAsks \in Nat /\ FreshID = nextID + 1 /\ FreshID \in 1..MaxAsks
  BY BoundsAssumption DEF RegisterCall, FreshID, IInv, TypeInv, CallOK
<1>3. CallOK'
  <2>1. <<>> \in Seq(Response) /\ Len(<<>>) = 0 /\ FreshID \in 0..MaxAsks
    BY <1>2, EmptySeq
  <2> QED BY <1>2, <2>1 DEF RegisterCall, IInv, TypeInv, CallOK, Somebody
<1>4. TypeInv'
  BY <1>1, <1>3, GoesType DEF RegisterCall, IInv, TypeInv, SessionOK, ObjectOK, PromptOK, ControlOK,
       LoadOK, ServeOK, sessionVars, objectVars, controlVars, loadVars
<1>5. TurnInv' /\ RunSeesHistory'
  BY <1>1, WithinTurn, RunGoesOn DEF RegisterCall, IInv, TypeInv, Running, objectVars
<1>6. /\ Asking(p)' /\ ~Asking(p) /\ at'[p] = "calling" /\ callID'[p] = FreshID
      /\ \A q \in Prompts : q # p => at'[q] = at[q] /\ callID'[q] = callID[q]
                            /\ box'[q] = box[q]
                                     /\ granted'[q] = granted[q] /\ (Asking(q)' <=> Asking(q))
      /\ box'[p] = <<>> /\ granted'[p] = 0
      /\ pending'[FreshID] = p /\ \A i \in 1..MaxAsks : i # FreshID => pending'[i] = pending[i]
      /\ nextID' = FreshID /\ requests' = requests /\ asked' = asked
  BY <1>1, <1>2, GoesType DEF RegisterCall, IInv, TypeInv, PromptOK, CallOK, Asking
<1>7. IDsInv'
  <2>1. \A n \in DOMAIN requests : requests[n] \in 1..FreshID /\ requests[n] # FreshID
    BY <1>2 DEF IInv, IDsInv
  <2>2. \A q \in Prompts : Asking(q) => callID[q] \in 1..FreshID /\ callID[q] # FreshID
    BY <1>2 DEF IInv, IDsInv
  <2>3. \A q \in Prompts : Asking(q)' => callID'[q] \in 1..FreshID
    BY <1>2, <1>6, <2>2
  <2>4. \A q, r \in Prompts : Asking(q)' /\ Asking(r)' /\ callID'[q] = callID'[r] => q = r
    BY <1>6, <2>2 DEF IInv, IDsInv
  <2>5. \A i \in 1..MaxAsks, q \in Prompts : pending'[i] = q => Asking(q)' /\ callID'[q] = i
    BY <1>6 DEF IInv, IDsInv
  <2>6. \A q \in Prompts : at'[q] = "calling" => \A n \in DOMAIN requests : requests[n] # callID'[q]
    BY <1>6, <2>1 DEF IInv, IDsInv
  <2>7. \A q \in Prompts : at'[q] = "waiting" =>
          asked[q] \in DOMAIN requests /\ requests[asked[q]] = callID'[q]
    BY <1>6 DEF IInv, IDsInv
  <2> QED BY <1>6, <2>1, <2>3, <2>4, <2>5, <2>6, <2>7 DEF IInv, IDsInv
<1>8. AnswersInv'
  BY <1>6 DEF IInv, AnswersInv, GrantIsForRequest
<1> QED BY <1>4, <1>5, <1>7, <1>8 DEF IInv

\* What is registered after p's ID was taken out of the table is another prompt's.
LEMMA TakenOut ==
  ASSUME TypeInv, IDsInv, NEW p \in Prompts, pending' = [pending EXCEPT ![callID[p]] = Nobody],
         NEW i \in 1..MaxAsks, NEW q \in Prompts, pending'[i] = q
  PROVE  q # p /\ Asking(q) /\ callID[q] = i
<1>1. i # callID[p]
  BY NobodyAssumption DEF TypeInv, CallOK
<1>2. pending[i] = q
  BY <1>1 DEF TypeInv, CallOK
<1> QED BY <1>1, <1>2 DEF IDsInv

LEMMA WriteCallInv ==
  ASSUME IInv, NEW p \in Prompts, WriteCall(p)
  PROVE  IInv'
<1> DEFINE n == Len(requests) + 1
<1>1. /\ {"waiting", "running"} \subseteq Handling
      /\ Goes(p, "calling", "waiting") \/ Goes(p, "calling", "running")
      /\ InTurn(p) /\ Asking(p) /\ at[p] = "calling"
  BY DEF WriteCall, Handling, Goes, InTurn, Asking
<1>2. callID[p] \in 1..nextID /\ nextID \in 0..MaxAsks /\ callID[p] \in 1..MaxAsks
  BY <1>1, BoundsAssumption DEF IInv, IDsInv, TypeInv, CallOK
<1>3. /\ Len(requests) \in Nat /\ DOMAIN requests = 1..Len(requests)
      /\ Append(requests, callID[p]) \in Seq(1..MaxAsks)
      /\ Len(Append(requests, callID[p])) = n
      /\ DOMAIN Append(requests, callID[p]) = 1..n
      /\ \A m \in 1..Len(requests) : Append(requests, callID[p])[m] = requests[m]
      /\ Append(requests, callID[p])[n] = callID[p]
  BY <1>2, AppendProperties, LenProperties DEF IInv, TypeInv, CallOK
<1>4. TypeInv'
  <2>1. CallOK'
    <3>1. \/ requests' = Append(requests, callID[p]) /\ asked' = [asked EXCEPT ![p] = n]
          \/ UNCHANGED <<requests, asked>>
      BY DEF WriteCall
    <3>2. n \in Nat /\ requests \in Seq(1..MaxAsks) /\ asked \in [Prompts -> Nat]
      BY <1>3 DEF IInv, TypeInv, CallOK
    <3>3. requests' \in Seq(1..MaxAsks) /\ asked' \in [Prompts -> Nat]
      <4> HIDE DEF n
      <4> QED BY <1>3, <3>1, <3>2
    <3>4. pending' \in [1..MaxAsks -> Somebody]
      BY DEF WriteCall, Unregister, IInv, TypeInv, CallOK, Somebody
    <3> QED BY <3>3, <3>4 DEF WriteCall, IInv, TypeInv, CallOK
  <2> QED BY <1>1, <2>1, GoesType DEF WriteCall, IInv, TypeInv, SessionOK, ObjectOK, PromptOK,
            ControlOK, LoadOK, ServeOK, sessionVars, objectVars, controlVars, loadVars
<1>5. TurnInv' /\ RunSeesHistory'
  BY <1>1, WithinTurn, RunGoesOn DEF WriteCall, IInv, TypeInv, Running, objectVars
<1>6. CASE Goes(p, "calling", "waiting")
  <2>1. /\ requests' = Append(requests, callID[p])
        /\ asked' = [asked EXCEPT ![p] = n]
        /\ UNCHANGED <<pending, nextID, box, callID, granted>>
    BY <1>6 DEF WriteCall, Goes, IInv, TypeInv, PromptOK
  <2>2. /\ at'[p] = "waiting" /\ asked'[p] = n
        /\ \A q \in Prompts : q # p => at'[q] = at[q] /\ asked'[q] = asked[q]
        /\ \A q \in Prompts : Asking(q)' <=> Asking(q)
    BY <1>1, <1>6, <2>1, GoesType DEF IInv, TypeInv, CallOK, Asking
  <2>3. \A m \in 1..Len(requests) : requests[m] # callID[p] /\ requests[m] \in 1..nextID
    BY <1>1, <1>3 DEF IInv, IDsInv
  <2>4. /\ \A m \in DOMAIN requests' : requests'[m] \in 1..nextID'
        /\ \A l, m \in DOMAIN requests' : requests'[l] = requests'[m] => l = m
    BY <1>2, <1>3, <2>1, <2>3 DEF IInv, IDsInv
  <2>5. \A q \in Prompts : at'[q] = "calling" =>
          \A m \in DOMAIN requests' : requests'[m] # callID[q]
    BY <1>1, <1>3, <2>1, <2>2 DEF IInv, IDsInv, Asking
  <2>6. \A q \in Prompts : at'[q] = "waiting" =>
          asked'[q] \in DOMAIN requests' /\ requests'[asked'[q]] = callID[q]
    BY <1>3, <2>1, <2>2 DEF IInv, IDsInv
  <2>7. IDsInv'
    BY <2>1, <2>2, <2>4, <2>5, <2>6 DEF IInv, IDsInv
  <2>8. AnswersInv'
    BY <1>1, <2>1, <2>2 DEF IInv, AnswersInv, GrantIsForRequest
  <2> QED BY <1>4, <1>5, <2>7, <2>8 DEF IInv
<1>7. CASE Goes(p, "calling", "running")
  <2>1. /\ pending' = [pending EXCEPT ![callID[p]] = Nobody]
        /\ UNCHANGED <<requests, asked, nextID, box, callID, granted>>
    BY <1>7 DEF WriteCall, Unregister, Goes, IInv, TypeInv, PromptOK
  <2>2. /\ at'[p] = "running" /\ ~Asking(p)'
        /\ \A q \in Prompts : q # p => at'[q] = at[q] /\ (Asking(q)' <=> Asking(q))
        /\ \A q \in Prompts : Asking(q)' => Asking(q) /\ at'[q] = at[q] /\ q # p
    BY <1>1, <1>7, GoesType DEF IInv, TypeInv, Asking
  <2>3. ASSUME NEW i \in 1..MaxAsks, NEW q \in Prompts, pending'[i] = q
        PROVE  Asking(q)' /\ callID[q] = i
    BY <1>1, <2>1, <2>2, <2>3, TakenOut DEF IInv
  <2>4. IDsInv'
    BY <2>1, <2>2, <2>3 DEF IInv, IDsInv, Asking
  <2>5. AnswersInv'
    BY <2>1, <2>2 DEF IInv, AnswersInv, GrantIsForRequest, Asking
  <2> QED BY <1>4, <1>5, <2>4, <2>5 DEF IInv
<1> QED BY <1>1, <1>6, <1>7

\* A prompt that stops waiting takes its call out of the table; nobody else is
\* registered under its ID.
LEMMA StopsWaiting ==
  ASSUME IInv, NEW p \in Prompts, NEW to \in Handling, Goes(p, "waiting", to),
         to \notin {"calling", "waiting"}, Unregister(p),
         UNCHANGED <<nextID, callID, requests, asked>>
  PROVE  /\ IDsInv' /\ pending' \in [1..MaxAsks -> Somebody]
         /\ ~Asking(p)' /\ \A q \in Prompts : Asking(q)' => Asking(q) /\ at'[q] = at[q] /\ q # p
<1>1. /\ ~Asking(p)' /\ Asking(p)
      /\ \A q \in Prompts : q # p => (Asking(q)' <=> Asking(q))
      /\ \A q \in Prompts : Asking(q)' => Asking(q) /\ at'[q] = at[q] /\ q # p
  BY GoesType DEF IInv, TypeInv, Asking
<1>2. pending' = [pending EXCEPT ![callID[p]] = Nobody]
  BY DEF Unregister
<1>3. ASSUME NEW i \in 1..MaxAsks, NEW q \in Prompts, pending'[i] = q
      PROVE  Asking(q)' /\ callID[q] = i
  <2>1. q # p /\ Asking(q) /\ callID[q] = i
    <3>1. TypeInv /\ IDsInv
      BY DEF IInv
    <3> QED BY <1>2, <1>3, <3>1, TakenOut
  <2> QED BY <1>1, <2>1
<1>4. IDsInv'
  <2>1. /\ \A n \in DOMAIN requests : requests[n] \in 1..nextID
        /\ \A m, n \in DOMAIN requests : requests[m] = requests[n] => m = n
    BY DEF IInv, IDsInv
  <2>2. \A q \in Prompts : Asking(q)' => callID[q] \in 1..nextID
    BY <1>1 DEF IInv, IDsInv
  <2>3. \A q, u \in Prompts : Asking(q)' /\ Asking(u)' /\ callID[q] = callID[u] => q = u
    BY <1>1 DEF IInv, IDsInv
  <2>4. \A q \in Prompts : at'[q] \in {"calling", "waiting"} => at'[q] = at[q]
    BY <1>1 DEF Asking
  <2>5. \A q \in Prompts :
          /\ at'[q] = "calling" => \A n \in DOMAIN requests : requests[n] # callID[q]
          /\ at'[q] = "waiting" => asked[q] \in DOMAIN requests
                                /\ requests[asked[q]] = callID[q]
    BY <2>4 DEF IInv, IDsInv
  <2> QED BY <1>3, <2>1, <2>2, <2>3, <2>5 DEF IDsInv
<1>5. pending' \in [1..MaxAsks -> Somebody]
  BY <1>2 DEF IInv, TypeInv, CallOK, Somebody
<1> QED BY <1>1, <1>4, <1>5

\* The answer that is taken is to the prompt's own request.
LEMMA TakeAnswerInv ==
  ASSUME IInv, NEW p \in Prompts, TakeAnswer(p)
  PROVE  IInv'
<1> DEFINE r == Head(box[p])
           to == IF r.answer = "cancelled" THEN "ended" ELSE "running"
<1>1. to \in Handling /\ Goes(p, "waiting", to) /\ InTurn(p) /\ Asking(p) /\ at[p] = "waiting"
  BY DEF TakeAnswer, Handling, Goes, InTurn, Asking
<1>2. r \in Response
  BY HeadTailProperties DEF TakeAnswer, IInv, TypeInv, CallOK
<1>3. /\ IDsInv' /\ pending' \in [1..MaxAsks -> Somebody]
      /\ ~Asking(p)' /\ \A q \in Prompts : Asking(q)' => Asking(q) /\ at'[q] = at[q] /\ q # p
  BY <1>1, StopsWaiting DEF TakeAnswer
<1>4. CallOK'
  <2>1. <<>> \in Seq(Response) /\ Len(<<>>) = 0 /\ r.to \in Nat
    BY <1>2, EmptySeq DEF Response
  <2> QED BY <1>3, <2>1 DEF TakeAnswer, IInv, TypeInv, CallOK
<1>5. TypeInv'
  BY <1>1, <1>4, GoesType DEF TakeAnswer, IInv, TypeInv, SessionOK, ObjectOK, PromptOK, ControlOK,
       LoadOK, ServeOK, sessionVars, objectVars, controlVars, loadVars, Ends
<1>6. TurnInv' /\ RunSeesHistory'
  BY <1>1, WithinTurn, RunGoesOn DEF TakeAnswer, IInv, TypeInv, Running, objectVars
<1>7. AnswersInv'
  <2>1. granted'[p] \in {0, asked[p]}
    BY <1>1 DEF TakeAnswer, IInv, TypeInv, CallOK, AnswersInv
  <2>2. \A q \in Prompts : q # p => granted'[q] = granted[q] /\ box'[q] = box[q]
    BY DEF TakeAnswer, IInv, TypeInv, CallOK
  <2> QED BY <1>3, <2>1, <2>2 DEF TakeAnswer, IInv, AnswersInv, GrantIsForRequest
<1> QED BY <1>3, <1>5, <1>6, <1>7 DEF IInv

LEMMA AbandonCallInv ==
  ASSUME IInv, NEW p \in Prompts, AbandonCall(p)
  PROVE  IInv'
<1>1. "ended" \in Handling /\ Goes(p, "waiting", "ended") /\ InTurn(p)
  BY DEF AbandonCall, Handling, Goes, InTurn
<1>2. /\ IDsInv' /\ pending' \in [1..MaxAsks -> Somebody]
      /\ ~Asking(p)' /\ \A q \in Prompts : Asking(q)' => Asking(q) /\ at'[q] = at[q] /\ q # p
  BY <1>1, StopsWaiting DEF AbandonCall
<1>3. TypeInv'
  BY <1>1, <1>2, GoesType DEF AbandonCall, IInv, TypeInv, SessionOK, ObjectOK, PromptOK, ControlOK,
       LoadOK, ServeOK, CallOK, sessionVars, objectVars, controlVars, loadVars, Ends
<1>4. TurnInv' /\ RunSeesHistory'
  BY <1>1, WithinTurn, RunGoesOn DEF AbandonCall, IInv, TypeInv, Running, objectVars
<1>5. AnswersInv'
  BY <1>2 DEF AbandonCall, IInv, AnswersInv, GrantIsForRequest
<1> QED BY <1>2, <1>3, <1>4, <1>5 DEF IInv

\* An answer goes to the prompt that has written the request it answers.
LEMMA RespondInv ==
  ASSUME IInv, Respond
  PROVE  IInv'
<1>1. PICK n \in DOMAIN requests, answer \in Answers \ {"closed"} : Deliver(n, answer)
  BY DEF Respond
<1> DEFINE p == pending[requests[n]]
           r == [to |-> n, answer |-> answer]
<1>2. n \in Nat /\ requests[n] \in 1..MaxAsks /\ r \in Response
  <2>1. requests \in Seq(1..MaxAsks) /\ n \in DOMAIN requests
    BY DEF IInv, TypeInv, CallOK
  <2>2. n \in 1..Len(requests) /\ Len(requests) \in Nat
    BY <2>1, LenProperties
  <2>3. n \in Nat
    BY <2>2
  <2>4. requests[n] \in 1..MaxAsks
    <3> DEFINE S == 1..MaxAsks
    <3>1. requests \in Seq(S)
      BY <2>1
    <3> HIDE DEF S
    <3>2. requests[n] \in S
      BY <2>2, <3>1, ElementOfSeq
    <3> QED BY <3>2 DEF S
  <2>5. r \in Response
    BY <2>3 DEF Response, Answers
  <2> QED BY <2>3, <2>5, <2>4
<1>3. p \in Prompts
  BY <1>1, <1>2 DEF Deliver, IInv, TypeInv, CallOK, Somebody
<1>4. Asking(p) /\ callID[p] = requests[n]
  BY <1>2, <1>3 DEF IInv, IDsInv
<1>5. at[p] = "waiting" /\ asked[p] = n
  BY <1>3, <1>4 DEF IInv, IDsInv, Asking
<1>6. /\ box' = [box EXCEPT ![p] = IF @ = <<>> THEN <<r>> ELSE @]
      /\ pending' = [pending EXCEPT ![requests[n]] = Nobody]
  BY <1>1 DEF Deliver
<1>7. /\ box'[p] = IF box[p] = <<>> THEN <<r>> ELSE box[p]
      /\ \A q \in Prompts : q # p => box'[q] = box[q]
      /\ Head(<<r>>) = r /\ r.to = n
      /\ \A i \in 1..MaxAsks : pending'[i] \in {pending[i], Nobody}
  BY <1>3, <1>6 DEF IInv, TypeInv, CallOK
<1>8. UNCHANGED <<at, obj, base, turnMu, slot, history, nextID, callID, requests, asked, granted>>
  BY DEF Respond, objectVars, promptVars
<1>9. TypeInv'
  <2>1. box' \in [Prompts -> Seq(Response)] /\ \A q \in Prompts : Len(box'[q]) <= 1
    <3>1. <<r>> \in Seq(Response) /\ Len(<<r>>) = 1
      BY <1>2
    <3> HIDE DEF r, p
    <3> QED BY <1>3, <1>6, <3>1 DEF IInv, TypeInv, CallOK
  <2>2. pending' \in [1..MaxAsks -> Somebody]
    BY <1>6 DEF IInv, TypeInv, CallOK, Somebody
  <2> QED BY <2>1, <2>2 DEF Respond, IInv, TypeInv, SessionOK, ObjectOK, PromptOK, ControlOK,
            LoadOK, ServeOK, CallOK, sessionVars, objectVars, promptVars, controlVars, loadVars
<1>10. TurnInv' /\ RunSeesHistory'
  BY <1>8 DEF IInv, TurnInv, RunSeesHistory, InTurn
<1>11. IDsInv'
  BY <1>7, <1>8, NobodyAssumption DEF IInv, IDsInv, Asking
<1>12. AnswersInv'
  <2>1. ASSUME NEW q \in Prompts, Asking(q), box'[q] # <<>>
        PROVE  Head(box'[q]).to = 0 \/ (at[q] = "waiting" /\ Head(box'[q]).to = asked[q])
    <3> HIDE DEF r, p
    <3> QED BY <1>3, <1>5, <1>7, <2>1 DEF IInv, AnswersInv
  <2> QED BY <1>8, <2>1 DEF IInv, AnswersInv, GrantIsForRequest, Asking
<1> QED BY <1>9, <1>10, <1>11, <1>12 DEF IInv

-----------------------------------------------------------------------------
(* Controls, loads and the read loop.                                      *)

\* The rest follows when no prompt moves, no call is made and no history, mutex or
\* cancel function changes.
LEMMA PromptsUntouched ==
  ASSUME IInv, UNCHANGED <<at, obj, base, history, turnMu, slot, callVars>>
  PROVE  TurnInv' /\ RunSeesHistory' /\ IDsInv' /\ AnswersInv'
<1>1. TurnInv' /\ RunSeesHistory'
  BY DEF IInv, TurnInv, RunSeesHistory, InTurn
<1>2. IDsInv'
  BY DEF IInv, IDsInv, Asking, callVars
<1>3. AnswersInv'
  BY DEF IInv, AnswersInv, Asking, GrantIsForRequest, callVars
<1> QED BY <1>1, <1>2, <1>3

LEMMA ControlInv ==
  ASSUME IInv, NEW c \in Controls, Control(c)
  PROVE  IInv'
<1>1. CASE FindToCancel(c)
  <2>1. TypeInv'
    BY <1>1 DEF FindToCancel, IInv, TypeInv, SessionOK, ObjectOK, PromptOK, ControlOK,
         Controlling, Steps, LoadOK, ServeOK, CallOK, sessionVars, objectVars,
         promptVars, loadVars, callVars
  <2> QED BY <1>1, <2>1, PromptsUntouched DEF FindToCancel, IInv, objectVars, promptVars
<1>2. CASE DeleteStored(c)
  <2>1. stored' \in BOOLEAN /\ disk' \in Seq(Prompts)
    BY <1>2, EmptySeq DEF DeleteStored, IInv, TypeInv, SessionOK
  <2>2. TypeInv'
    BY <1>2, <2>1 DEF DeleteStored, IInv, TypeInv, SessionOK, ObjectOK, PromptOK, ControlOK,
         Controlling, Steps, LoadOK, ServeOK, CallOK, objectVars, promptVars, loadVars, callVars
  <2> QED BY <1>2, <2>2, PromptsUntouched DEF DeleteStored, IInv, objectVars, promptVars
<1>3. CASE Drop(c)
  <2>1. 0 \in 0..created
    BY DEF IInv, TypeInv, SessionOK, Objects
  <2>2. TypeInv'
    BY <1>3, <2>1 DEF Drop, IInv, TypeInv, SessionOK, ObjectOK, PromptOK, ControlOK,
         Controlling, Steps, LoadOK, ServeOK, CallOK, objectVars, promptVars, loadVars, callVars
  <2> QED BY <1>3, <2>2, PromptsUntouched DEF Drop, IInv, objectVars, promptVars
<1>4. CASE Grab(c)
  <2>1. PICK s : grabbed' = [grabbed EXCEPT ![c] = s] /\ s = slot[target[c]]
    BY <1>4 DEF Grab
  <2>2. control[c] \in {"cancel", "close"}
    BY <1>4 DEF Grab, Steps
  <2>3. target[c] \in Objects
    BY <2>2, BoundsAssumption DEF IInv, TypeInv, SessionOK, ControlOK, Objects
  <2>4. s \in Somebody
    BY <2>1, <2>3 DEF IInv, TypeInv, ObjectOK
  <2>5. TypeInv'
    BY <1>4, <2>1, <2>4 DEF Grab, IInv, TypeInv, SessionOK, ObjectOK, PromptOK, ControlOK,
         Controlling, Steps, LoadOK, ServeOK, CallOK, sessionVars, objectVars,
         promptVars, loadVars, callVars
  <2> QED BY <1>4, <2>5, PromptsUntouched DEF Grab, IInv, objectVars, promptVars
<1>5. CASE Fire(c)
  <2>1. TypeInv'
    BY <1>5 DEF Fire, IInv, TypeInv, SessionOK, ObjectOK, PromptOK, ControlOK,
         Controlling, Steps, LoadOK, ServeOK, CallOK, sessionVars, objectVars, loadVars,
         callVars, Somebody
  <2> QED BY <1>5, <2>1, PromptsUntouched DEF Fire, IInv, objectVars
<1>6. CASE CloseWorkspace(c)
  <2>1. TypeInv'
    BY <1>6 DEF CloseWorkspace, IInv, TypeInv, SessionOK, ObjectOK, PromptOK, ControlOK,
         Controlling, Steps, LoadOK, ServeOK, CallOK, sessionVars, promptVars, loadVars,
         callVars
  <2> QED BY <1>6, <2>1, PromptsUntouched DEF CloseWorkspace, IInv, promptVars
<1> QED BY <1>1, <1>2, <1>3, <1>4, <1>5, <1>6 DEF Control

\* A load gives a history only to an object that no prompt has.
LEMMA LoadingInv ==
  ASSUME IInv, NEW l \in Loads, Loading(l)
  PROVE  IInv'
<1>1. CASE ReadHistory(l)
  <2>1. TypeInv'
    BY <1>1 DEF ReadHistory, IInv, TypeInv, SessionOK, ObjectOK, PromptOK, ControlOK, LoadOK,
         ServeOK, CallOK, sessionVars, objectVars, promptVars, controlVars, callVars
  <2> QED BY <1>1, <2>1, PromptsUntouched DEF ReadHistory, IInv, objectVars, promptVars
<1>2. CASE Register(l)
  <2>1. /\ UNCHANGED <<stored, disk, planMode, workspace, turnMu, slot, promptVars, controlVars,
                       serve, callVars>>
        /\ loaded' = [loaded EXCEPT ![l] = <<>>]
    BY <1>2 DEF Register
  <2>2. LoadOK'
    BY <2>1, EmptySeq DEF IInv, TypeInv, LoadOK
  <2>3. CASE UNCHANGED <<live, created, history>>
    <3>1. TypeInv'
      BY <2>1, <2>2, <2>3 DEF IInv, TypeInv, SessionOK, ObjectOK, PromptOK, ControlOK,
           ServeOK, CallOK, promptVars, controlVars, callVars
    <3> QED BY <2>1, <2>3, <3>1, PromptsUntouched DEF IInv, promptVars
  <2>4. CASE /\ created < MaxObjects
             /\ created' = created + 1 /\ live' = created + 1
             /\ history' = [history EXCEPT ![created + 1] = loaded[l]]
    <3>1. created \in Nat /\ created + 1 \in Objects /\ live' \in 0..created'
                                /\ created' \in Objects
      BY <2>4, BoundsAssumption DEF IInv, TypeInv, SessionOK, Objects
    <3>2. /\ history' \in [Objects -> Seq(Prompts)]
          /\ \A o \in 0..created : history'[o] = history[o]
      BY <2>4, <3>1 DEF IInv, TypeInv, ObjectOK, LoadOK
    <3>3. \A o \in 0..created : o \in 0..created'
      BY <2>4, <3>1
    <3>4. obj' \in [Prompts -> 0..created'] /\ target' \in [Controls -> 0..created']
      BY <2>1, <3>3 DEF IInv, TypeInv, PromptOK, ControlOK, promptVars, controlVars
    <3>5. TypeInv'
      BY <2>1, <2>2, <3>1, <3>2, <3>4 DEF IInv, TypeInv, SessionOK, ObjectOK, PromptOK, ControlOK,
           ServeOK, CallOK, promptVars, controlVars, callVars
    <3>6. TurnInv'
      BY <2>1 DEF IInv, TurnInv, InTurn, promptVars
    <3>7. RunSeesHistory'
      BY <2>1, <3>2 DEF IInv, TypeInv, PromptOK, RunSeesHistory, promptVars
    <3>8. IDsInv'
      BY <2>1 DEF IInv, IDsInv, Asking, promptVars, callVars
    <3>9. AnswersInv'
      BY <2>1 DEF IInv, AnswersInv, Asking, GrantIsForRequest, promptVars, callVars
    <3> QED BY <3>5, <3>6, <3>7, <3>8, <3>9 DEF IInv
  <2> QED BY <1>2, <2>3, <2>4 DEF Register
<1> QED BY <1>1, <1>2 DEF Loading

\* The calls that wait get the error of a closed connection, and none is registered.
LEMMA StreamEndsInv ==
  ASSUME IInv, StreamEnds
  PROVE  IInv'
<1>1. UNCHANGED <<at, obj, base, turnMu, slot, history, nextID, callID, requests, asked, granted>>
  BY DEF StreamEnds, objectVars, promptVars
<1> DEFINE r == [to |-> 0, answer |-> "closed"]
<1>2. /\ \A i \in 1..MaxAsks : pending'[i] = Nobody
      /\ pending' \in [1..MaxAsks -> Somebody]
      /\ \A q \in Prompts : box'[q] = <<r>> \/ box'[q] = box[q]
  BY DEF StreamEnds, IInv, TypeInv, CallOK, Somebody
<1>3. <<r>> \in Seq(Response) /\ Len(<<r>>) = 1 /\ Head(<<r>>) = r /\ r.to = 0
  BY DEF Response, Answers
<1>4. box' \in [Prompts -> Seq(Response)] /\ \A q \in Prompts : Len(box'[q]) <= 1
  <2>1. \A q \in Prompts : box'[q] \in Seq(Response) /\ Len(box'[q]) <= 1
    <3> HIDE DEF r
    <3>1. \A q \in Prompts : box[q] \in Seq(Response) /\ Len(box[q]) <= 1
      BY DEF IInv, TypeInv, CallOK
    <3>2. \A q \in Prompts : box'[q] = <<r>> \/ box'[q] = box[q]
      BY <1>2
    <3> DEFINE s == <<r>>
    <3>3. s \in Seq(Response) /\ Len(s) <= 1
                                /\ \A q \in Prompts : box'[q] = s \/ box'[q] = box[q]
      BY <1>3, <3>2
    <3> HIDE DEF s
    <3> QED BY <3>1, <3>3
  <2> QED BY <2>1 DEF StreamEnds
<1>5. TypeInv'
  BY <1>2, <1>4 DEF StreamEnds, IInv, TypeInv, SessionOK, ObjectOK, PromptOK, ControlOK, LoadOK,
       ServeOK, CallOK, sessionVars, objectVars, promptVars, controlVars, loadVars
<1>6. TurnInv' /\ RunSeesHistory'
  BY <1>1 DEF IInv, TurnInv, RunSeesHistory, InTurn
<1>7. IDsInv'
  BY <1>1, <1>2, NobodyAssumption DEF IInv, IDsInv, Asking
<1>8. AnswersInv'
  <2>1. \A q \in Prompts : Asking(q) /\ box'[q] # <<>> =>
          Head(box'[q]).to = 0 \/ (at[q] = "waiting" /\ Head(box'[q]).to = asked[q])
    <3> HIDE DEF r
    <3> QED BY <1>2, <1>3 DEF IInv, AnswersInv
  <2> QED BY <1>1, <2>1 DEF IInv, AnswersInv, GrantIsForRequest, Asking
<1> QED BY <1>5, <1>6, <1>7, <1>8 DEF IInv

LEMMA ServeInv ==
  ASSUME IInv, CancelHandlers \/ Return
  PROVE  IInv'
<1>1. TypeInv'
  BY DEF CancelHandlers, Return, IInv, TypeInv, SessionOK, ObjectOK, PromptOK, ControlOK, LoadOK,
       ServeOK, CallOK, sessionVars, objectVars, promptVars, controlVars, loadVars, callVars
<1> QED BY <1>1, PromptsUntouched DEF CancelHandlers, Return, IInv, objectVars, promptVars

LEMMA StutterInv ==
  ASSUME IInv, UNCHANGED vars
  PROVE  IInv'
<1>1. TypeInv'
  BY DEF vars, IInv, TypeInv, SessionOK, ObjectOK, PromptOK, ControlOK, LoadOK,
       ServeOK, CallOK, sessionVars, objectVars, promptVars, controlVars, loadVars, callVars
<1> QED BY <1>1, PromptsUntouched DEF vars, IInv, objectVars, promptVars

LEMMA StepInv ==
  ASSUME IInv, [Next]_vars
  PROVE  IInv'
<1>1. ASSUME NEW p \in Prompts, Prompt(p)
      PROVE  IInv'
  BY <1>1, FindInv, LockInv, CommandInv, StartRunInv, EndRunInv, PersistInv, LeaveInv,
     RegisterCallInv, WriteCallInv, TakeAnswerInv, AbandonCallInv DEF Prompt
<1>2. CASE Exited
  BY <1>2, StutterInv DEF Exited
<1> QED BY <1>1, <1>2, ControlInv, LoadingInv, RespondInv, StreamEndsInv, ServeInv, StutterInv
     DEF Next

LEMMA InvariantHolds == Spec => []IInv
<1> QED BY InitInv, StepInv, PTL DEF Spec

-----------------------------------------------------------------------------
(* The theorems.                                                           *)

\* The state of the server keeps its types: no response channel ever holds two
\* answers, whatever the client sends (deliver, failAllPending).
THEOREM TypeCorrect == Spec => []TypeOK
<1>1. IInv => TypeOK
  BY TypeFromInv DEF IInv
<1> QED BY <1>1, InvariantHolds, PTL

\* While a prompt has a turn, the cancel function of its session is its own, so a
\* cancel reaches the turn that runs (setCancel and turnMu in handlePrompt).
THEOREM CancelReachesTurn == Spec => []SlotIsRunning
<1>1. IInv => SlotIsRunning
  BY SlotFromInv DEF IInv
<1> QED BY <1>1, InvariantHolds, PTL

\* No prompt and no load changes the history under a run (persistTurn,
\* registerSession).
THEOREM HistoryStandsStill == Spec => []RunSeesHistory
<1>1. IInv => RunSeesHistory
  BY DEF IInv
<1> QED BY <1>1, InvariantHolds, PTL

\* A permission is granted by the answer to its own request, however late, repeated
\* or misplaced the client's answers are (Call and deliver in jsonrpc.go).
THEOREM GrantsAreOwn == Spec => []GrantIsForRequest
<1>1. IInv => GrantIsForRequest
  BY DEF IInv, AnswersInv
<1> QED BY <1>1, InvariantHolds, PTL
=============================================================================
