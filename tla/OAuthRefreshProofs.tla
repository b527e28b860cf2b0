------------------------- MODULE OAuthRefreshProofs -------------------------
(***************************************************************************)
(* The token file keeps its types, its lock has one holder, no rewrite of  *)
(* it takes back a change, what it holds is the latest token or its        *)
(* successor is at risk, and no process presents a token that it spent:    *)
(* for any number of processes, calls, keys and logins.                    *)
(***************************************************************************)
EXTENDS OAuthRefresh, FiniteSetTheorems, TLAPS

\* TypeOK says that there is at most one holder; this says it without counting.
HolderInv == holder = {} \/ \E a \in Calls : holder = {a}

\* What a call read under the lock is still what the file holds when it writes.
ViewInv == \A a \in Calls : at[a] = "writing" => view[a] = stored

\* TypeOK by parts: the calls, the file and its lock, the provider and the history.
CallsOK ==
  /\ at \in [Calls -> Steps] /\ kind \in [Calls -> Kinds] /\ key \in [Calls -> Keys]
  /\ cur \in [Calls -> Maybe] /\ next \in [Calls -> Maybe] /\ seen \in [Calls -> Maybe]
  /\ view \in [Calls -> [Keys -> Maybe]]
FileOK ==
  /\ stored \in [Keys -> Maybe] /\ wrote \in [Keys -> Maybe]
  /\ holder \in SUBSET Calls /\ stale \in BOOLEAN
WritersHold == \A a \in Calls : at[a] = "writing" <=> a \in holder
ProviderOK ==
  /\ issued \in [Grants -> 0..MaxGen]
  /\ spender \in [Tokens -> SUBSET Procs] /\ lost \in SUBSET Grants

\* The inductive invariant.
LockInv == WritersHold /\ HolderInv /\ ViewInv /\ NoUpdateLost
IInv == CallsOK /\ FileOK /\ ProviderOK /\ LockInv

-----------------------------------------------------------------------------
LEMMA SomeKeyIsKey == SomeKey \in Keys
BY KeysAssumption DEF SomeKey

LEMMA NothingIsMaybe == {} \in Maybe /\ \A t \in Tokens : {t} \in Maybe
BY DEF Maybe

\* Fewer holders than one is at most one.
LEMMA HolderCounts ==
  ASSUME HolderInv
  PROVE  Cardinality(holder) <= 1
<1>1. CASE holder = {}
  BY <1>1, FS_EmptySet
<1>2. CASE \E a \in Calls : holder = {a}
  BY <1>2, FS_Singleton
<1> QED BY <1>1, <1>2 DEF HolderInv

\* A call that returns keeps the types; it is idle, and the others stay.
LEMMA ForgetType ==
  ASSUME CallsOK, NEW A, Forget(A)
  PROVE  /\ CallsOK'
         /\ \A a \in Calls : IF a \in A THEN at'[a] = "idle"
                             ELSE at'[a] = at[a] /\ view'[a] = view[a]
<1>1. at' \in [Calls -> Steps]
  BY DEF CallsOK, Forget, Steps
<1>2. kind' \in [Calls -> Kinds]
  BY DEF CallsOK, Forget, Kinds
<1>3. key' \in [Calls -> Keys]
  BY SomeKeyIsKey DEF CallsOK, Forget
<1>4. cur' \in [Calls -> Maybe] /\ next' \in [Calls -> Maybe] /\ seen' \in [Calls -> Maybe]
  BY NothingIsMaybe DEF CallsOK, Forget
<1>5. view' \in [Calls -> [Keys -> Maybe]]
  BY NothingIsMaybe DEF CallsOK, Forget
<1>6. \A a \in Calls : IF a \in A THEN at'[a] = "idle"
                       ELSE at'[a] = at[a] /\ view'[a] = view[a]
  BY DEF CallsOK, Forget
<1> QED BY <1>1, <1>2, <1>3, <1>4, <1>5, <1>6 DEF CallsOK

-----------------------------------------------------------------------------
LEMMA TypeFromInv == IInv => TypeOK
BY HolderCounts DEF IInv, LockInv, TypeOK, CallsOK, FileOK, WritersHold, ProviderOK

LEMMA InitInv == Init => IInv
<1> SUFFICES ASSUME Init PROVE IInv
  OBVIOUS
<1>1. LockInv
  BY DEF Init, LockInv, WritersHold, HolderInv, ViewInv, NoUpdateLost
<1>2. FileOK
  BY NothingIsMaybe DEF Init, FileOK
<1>3. CallsOK
  BY SomeKeyIsKey, NothingIsMaybe, <1>2 DEF Init, CallsOK, FileOK, Steps, Kinds
<1>4. issued \in [Grants -> 0..MaxGen]
  <2>1. 0 \in 0..MaxGen
    BY MaxGenAssumption
  <2> QED BY <2>1 DEF Init
<1>5. spender \in [Tokens -> SUBSET Procs] /\ lost \in SUBSET Grants
  BY DEF Init
<1> QED BY <1>1, <1>2, <1>3, <1>4, <1>5 DEF IInv, ProviderOK

-----------------------------------------------------------------------------
(* The steps of a call.                                                    *)

\* A step of a call that leaves the file alone, does not begin to write and keeps
\* what was read under the lock disturbs no part of the lock's invariant.
LEMMA OutsideLock ==
  ASSUME IInv, UNCHANGED fileVars,
         \A a \in Calls : at'[a] = "writing" <=> at[a] = "writing",
         \A a \in Calls : at[a] = "writing" => view'[a] = view[a]
  PROVE  FileOK' /\ LockInv'
<1>1. FileOK' /\ NoUpdateLost' /\ HolderInv'
  BY DEF IInv, LockInv, FileOK, NoUpdateLost, HolderInv, fileVars
<1>2. WritersHold'
  BY DEF IInv, LockInv, WritersHold, fileVars
<1>3. ViewInv'
  BY DEF IInv, LockInv, ViewInv, fileVars
<1> QED BY <1>1, <1>2, <1>3 DEF LockInv

\* A call that is not writing returns.
LEMMA ForgetOutside ==
  ASSUME IInv, UNCHANGED fileVars, NEW a \in Calls, at[a] # "writing", Forget({a})
  PROVE  CallsOK' /\ FileOK' /\ LockInv'
<1>1. /\ CallsOK'
      /\ \A b \in Calls : IF b \in {a} THEN at'[b] = "idle"
                          ELSE at'[b] = at[b] /\ view'[b] = view[b]
  BY ForgetType DEF IInv
<1>2. \A b \in Calls : at'[b] = "writing" <=> at[b] = "writing"
  BY <1>1
<1>3. \A b \in Calls : at[b] = "writing" => view'[b] = view[b]
  BY <1>1
<1> QED BY <1>1, <1>2, <1>3, OutsideLock

\* The writer returns and the lock is free again; nobody else was writing.
LEMMA ForgetWriter ==
  ASSUME IInv, NEW a \in Calls, at[a] = "writing", holder' = {}, Forget({a})
  PROVE  CallsOK' /\ WritersHold' /\ HolderInv' /\ ViewInv'
<1>1. /\ CallsOK'
      /\ \A b \in Calls : IF b \in {a} THEN at'[b] = "idle"
                          ELSE at'[b] = at[b] /\ view'[b] = view[b]
  BY ForgetType DEF IInv
<1>2. holder = {a}
  BY DEF IInv, LockInv, WritersHold, HolderInv
<1>3. \A b \in Calls : at'[b] # "writing"
  BY <1>1, <1>2 DEF IInv, LockInv, WritersHold
<1> QED BY <1>1, <1>3 DEF WritersHold, HolderInv, ViewInv

LEMMA SpendType ==
  ASSUME IInv, NEW a \in Calls, NEW t \in Tokens, Spend(a, t)
  PROVE  /\ issued' \in [Grants -> 0..MaxGen] /\ spender' \in [Tokens -> SUBSET Procs]
         /\ Refreshed(t) \in Tokens
<1>1. t.grant \in Grants /\ t.gen \in 1..MaxGen /\ t.gen + 1 \in 1..MaxGen
  BY MaxGenAssumption DEF Tokens, Spend
<1>2. t.gen + 1 \in 0..MaxGen
  BY <1>1, MaxGenAssumption
<1>3. issued' \in [Grants -> 0..MaxGen]
  BY <1>1, <1>2 DEF Spend, IInv, ProviderOK
<1>4. ProcOf[a] \in Procs
  BY ProcOfAssumption
<1>5. spender' \in [Tokens -> SUBSET Procs]
  BY <1>4 DEF Spend, IInv, ProviderOK
<1>6. Refreshed(t) \in Tokens
  BY <1>1 DEF Refreshed, Tokens
<1> QED BY <1>3, <1>5, <1>6

\* A refreshed token that is not saved was a login's grant.
LEMMA UnsavedType ==
  ASSUME CallsOK, NEW A \in SUBSET Calls
  PROVE  Unsaved(A) \in SUBSET Grants
<1>1. \A a \in Calls : next[a] \in SUBSET Tokens
  BY DEF CallsOK, Maybe
<1>2. \A t \in Tokens : t.grant \in Grants
  BY DEF Tokens
<1> QED BY <1>1, <1>2 DEF Unsaved

LEMMA GetFreshInv ==
  ASSUME IInv, NEW a \in Calls, NEW k \in Keys, GetFresh(a, k)
  PROVE  IInv'
<1>1. CallsOK'
  BY DEF IInv, CallsOK, FileOK, GetFresh, Steps, Kinds
<1>2. \A b \in Calls : at'[b] = "writing" <=> at[b] = "writing"
  BY DEF GetFresh, IInv, CallsOK
<1>3. FileOK' /\ LockInv'
  BY <1>2, OutsideLock DEF GetFresh
<1> QED BY <1>1, <1>3 DEF IInv, ProviderOK, GetFresh

LEMMA LookAgainInv ==
  ASSUME IInv, NEW a \in Calls, LookAgain(a)
  PROVE  IInv'
<1>1. UNCHANGED <<fileVars, issued, spender, lost>> /\ at[a] = "loaded"
  BY DEF LookAgain
<1>2. CASE Forget({a})
  BY <1>1, <1>2, ForgetOutside DEF IInv, ProviderOK
<1>3. CASE ~Forget({a})
  <2>1. /\ at' = [at EXCEPT ![a] = "spending"]
        /\ seen' = [seen EXCEPT ![a] = stored[key[a]]]
        /\ UNCHANGED <<kind, key, cur, next, view>>
    BY <1>3 DEF LookAgain
  <2>2. CallsOK'
    BY <2>1 DEF IInv, CallsOK, FileOK, Steps
  <2>3. \A b \in Calls : at'[b] = "writing" <=> at[b] = "writing"
    BY <1>1, <2>1 DEF IInv, CallsOK
  <2>4. FileOK' /\ LockInv'
    BY <1>1, <2>1, <2>3, OutsideLock
  <2> QED BY <1>1, <2>2, <2>4 DEF IInv, ProviderOK
<1> QED BY <1>2, <1>3

LEMMA RefreshInv ==
  ASSUME IInv, NEW a \in Calls, NEW t \in Tokens, Refresh(a, t)
  PROVE  IInv'
<1>1. ProviderOK' /\ {Refreshed(t)} \in Maybe
  BY SpendType, NothingIsMaybe DEF Refresh, IInv, ProviderOK
<1>2. CallsOK'
  BY <1>1 DEF IInv, CallsOK, Refresh, Steps
<1>3. \A b \in Calls : at'[b] = "writing" <=> at[b] = "writing"
  BY DEF Refresh, Spend, IInv, CallsOK
<1>4. FileOK' /\ LockInv'
  BY <1>3, OutsideLock DEF Refresh
<1> QED BY <1>1, <1>2, <1>4 DEF IInv

LEMMA LoseAnswerInv ==
  ASSUME IInv, NEW a \in Calls, NEW t \in Tokens, LoseAnswer(a, t)
  PROVE  IInv'
<1>1. at[a] # "writing"
  BY DEF LoseAnswer, Spend
<1>2. CallsOK' /\ FileOK' /\ LockInv'
  BY <1>1, ForgetOutside DEF LoseAnswer
<1>3. t.grant \in Grants
  BY DEF Tokens
<1>4. ProviderOK'
  BY <1>3, SpendType DEF LoseAnswer, IInv, ProviderOK
<1> QED BY <1>2, <1>4 DEF IInv

LEMMA RefreshFailsInv ==
  ASSUME IInv, NEW a \in Calls, RefreshFails(a)
  PROVE  IInv'
<1>1. CallsOK' /\ FileOK' /\ LockInv'
  BY ForgetOutside DEF RefreshFails
<1> QED BY <1>1 DEF RefreshFails, IInv, ProviderOK

LEMMA LoginInv ==
  ASSUME IInv, NEW a \in Calls, NEW k \in Keys, NEW g \in Grants, Login(a, k, g)
  PROVE  IInv'
<1>1. 1 \in 0..MaxGen /\ 1 \in 1..MaxGen
  BY MaxGenAssumption
<1>2. {[grant |-> g, gen |-> 1]} \in Maybe
  BY <1>1, NothingIsMaybe DEF Tokens
<1>3. CallsOK'
  BY <1>2 DEF IInv, CallsOK, Login, Steps, Kinds
<1>4. ProviderOK'
  BY <1>1 DEF IInv, ProviderOK, Login
<1>5. \A b \in Calls : at'[b] = "writing" <=> at[b] = "writing"
  BY DEF Login, IInv, CallsOK
<1>6. FileOK' /\ LockInv'
  BY <1>5, OutsideLock DEF Login
<1> QED BY <1>3, <1>4, <1>6 DEF IInv

LEMMA LogoutInv ==
  ASSUME IInv, NEW a \in Calls, NEW k \in Keys, Logout(a, k)
  PROVE  IInv'
<1>1. CallsOK'
  BY DEF IInv, CallsOK, Logout, Steps, Kinds
<1>2. \A b \in Calls : at'[b] = "writing" <=> at[b] = "writing"
  BY DEF Logout, IInv, CallsOK
<1>3. FileOK' /\ LockInv'
  BY <1>2, OutsideLock DEF Logout
<1> QED BY <1>1, <1>3 DEF IInv, ProviderOK, Logout

\* The free lock gets its one holder, who reads what is stored.
LEMMA LockAndReadInv ==
  ASSUME IInv, NEW a \in Calls, LockAndRead(a)
  PROVE  IInv'
<1>1. CallsOK' /\ FileOK' /\ ProviderOK'
  BY DEF IInv, CallsOK, FileOK, ProviderOK, LockAndRead, Steps
<1>2. \A b \in Calls : at[b] # "writing"
  BY DEF LockAndRead, LockFree, IInv, LockInv, WritersHold
<1>3. /\ \A b \in Calls : at'[b] = "writing" <=> b = a
      /\ view'[a] = stored'
  BY <1>2 DEF LockAndRead, IInv, CallsOK
<1>4. WritersHold' /\ HolderInv' /\ ViewInv'
  BY <1>3 DEF LockAndRead, WritersHold, HolderInv, ViewInv
<1>5. NoUpdateLost'
  BY DEF LockAndRead, IInv, LockInv, NoUpdateLost
<1> QED BY <1>1, <1>4, <1>5 DEF IInv, LockInv

LEMMA LockTimesOutInv ==
  ASSUME IInv, NEW a \in Calls, LockTimesOut(a)
  PROVE  IInv'
<1>1. CallsOK' /\ FileOK' /\ LockInv'
  BY ForgetOutside DEF LockTimesOut
<1>2. Unsaved({a}) \in SUBSET Grants
  BY UnsavedType DEF IInv
<1> QED BY <1>1, <1>2 DEF LockTimesOut, IInv, ProviderOK

\* The file the holder read is the one it rewrites, so that it differs from what
\* is stored in the holder's own key alone.
LEMMA WriteInv ==
  ASSUME IInv, NEW a \in Calls, Write(a)
  PROVE  IInv'
<1>1. CallsOK' /\ WritersHold' /\ HolderInv' /\ ViewInv'
  BY ForgetWriter DEF Write
<1>2. view[a] = wrote
  BY DEF Write, IInv, LockInv, ViewInv, NoUpdateLost
<1>3. NoUpdateLost'
  BY <1>2 DEF Write, NoUpdateLost
<1>4. wrote' \in [Keys -> Maybe]
  BY DEF Write, IInv, CallsOK, FileOK
<1>5. FileOK'
  BY <1>3, <1>4 DEF Write, IInv, FileOK, NoUpdateLost
<1> QED BY <1>1, <1>3, <1>5 DEF Write, IInv, LockInv, ProviderOK

LEMMA WriteFailsInv ==
  ASSUME IInv, NEW a \in Calls, WriteFails(a)
  PROVE  IInv'
<1>1. CallsOK' /\ WritersHold' /\ HolderInv' /\ ViewInv'
  BY ForgetWriter DEF WriteFails
<1>2. FileOK' /\ NoUpdateLost'
  BY DEF WriteFails, IInv, FileOK, LockInv, NoUpdateLost
<1>3. Unsaved({a}) \in SUBSET Grants
  BY UnsavedType DEF IInv
<1> QED BY <1>1, <1>2, <1>3 DEF WriteFails, IInv, LockInv, ProviderOK

\* The calls of a process end together; a holder among them leaves its lock file.
LEMMA CrashInv ==
  ASSUME IInv, NEW p \in Procs, Crash(p)
  PROVE  IInv'
<1>1. CallsOf(p) \in SUBSET Calls
  BY DEF CallsOf
<1>2. /\ CallsOK'
      /\ \A b \in Calls : IF b \in CallsOf(p) THEN at'[b] = "idle"
                          ELSE at'[b] = at[b] /\ view'[b] = view[b]
  BY ForgetType DEF IInv, Crash
<1>3. FileOK' /\ NoUpdateLost'
  BY <1>1 DEF Crash, IInv, FileOK, LockInv, NoUpdateLost
<1>4. WritersHold' /\ ViewInv'
  BY <1>2 DEF Crash, IInv, LockInv, WritersHold, ViewInv
<1>5. HolderInv'
  BY DEF Crash, IInv, LockInv, HolderInv
<1>6. ProviderOK'
  BY <1>1, UnsavedType DEF Crash, IInv, ProviderOK
<1> QED BY <1>2, <1>3, <1>4, <1>5, <1>6 DEF IInv, LockInv

-----------------------------------------------------------------------------
LEMMA StepInv == IInv /\ [Next]_vars => IInv'
<1> SUFFICES ASSUME IInv, [Next]_vars PROVE IInv'
  OBVIOUS
<1>1. ASSUME NEW a \in Calls, NEW k \in Keys, GetFresh(a, k) \/ Logout(a, k) PROVE IInv'
  BY <1>1, GetFreshInv, LogoutInv
<1>2. ASSUME NEW a \in Calls, NEW k \in Keys, NEW g \in Grants, Login(a, k, g) PROVE IInv'
  BY <1>2, LoginInv
<1>3. ASSUME NEW a \in Calls, NEW t \in Tokens, Refresh(a, t) \/ LoseAnswer(a, t) PROVE IInv'
  BY <1>3, RefreshInv, LoseAnswerInv
<1>4. ASSUME NEW a \in Calls, LookAgain(a) \/ RefreshFails(a) PROVE IInv'
  BY <1>4, LookAgainInv, RefreshFailsInv
<1>5. ASSUME NEW a \in Calls,
             LockAndRead(a) \/ LockTimesOut(a) \/ Write(a) \/ WriteFails(a)
      PROVE IInv'
  BY <1>5, LockAndReadInv, LockTimesOutInv, WriteInv, WriteFailsInv
<1>6. ASSUME NEW p \in Procs, Crash(p) PROVE IInv'
  BY <1>6, CrashInv
<1>7. ASSUME ReclaimLock PROVE IInv'
  BY <1>7 DEF ReclaimLock, callVars, IInv, CallsOK, FileOK, ProviderOK, LockInv,
              WritersHold, HolderInv, ViewInv, NoUpdateLost
<1>8. ASSUME UNCHANGED vars PROVE IInv'
  BY <1>8 DEF vars, fileVars, callVars, IInv, CallsOK, FileOK, ProviderOK, LockInv,
              WritersHold, HolderInv, ViewInv, NoUpdateLost
<1> QED BY <1>1, <1>2, <1>3, <1>4, <1>5, <1>6, <1>7, <1>8 DEF Next

\* The calls, the file, its lock and the provider stay what TypeOK says, whatever
\* crashes, times out or is lost (manager.go, store.go): one call at a time holds
\* the lock file, and it alone writes.
THEOREM TypeCorrect == Spec => []TypeOK
<1>1. Init => IInv
  BY InitInv
<1>2. IInv /\ [Next]_vars => IInv'
  BY StepInv
<1>3. IInv => TypeOK
  BY TypeFromInv
<1> QED BY <1>1, <1>2, <1>3, PTL DEF Spec

\* The file always holds the last change of every key that was written, although each
\* change rewrites the whole file from a copy (store.go, Save and Delete).
THEOREM UpdatesKept == Spec => []NoUpdateLost
<1>1. Init => IInv
  BY InitInv
<1>2. IInv /\ [Next]_vars => IInv'
  BY StepInv
<1>3. IInv => NoUpdateLost
  BY DEF IInv, LockInv
<1> QED BY <1>1, <1>2, <1>3, PTL DEF Spec
-----------------------------------------------------------------------------
(* What each call that has a token in hand knows of its grant.             *)

Same(t, u) == t.grant = u.grant

\* A call has a token to save only on its way to the file, and a loaded one only
\* while it refreshes.
StageInv ==
  \A a \in Calls :
    /\ at[a] \in {"idle", "loaded", "spending"} => next[a] = {} /\ kind[a] = "refresh"
    /\ at[a] = "idle" \/ kind[a] # "refresh" => cur[a] = {}

\* Wherever a grant's tokens are, stored or in hand, they are of one key: a login
\* gives a grant of its own, and a refresh writes under the key it loaded from.
Lives(t, k) == t \in stored[k] \/ \E a \in Calls : key[a] = k /\ t \in cur[a] \cup next[a]
HomeInv ==
  \A k1, k2 \in Keys : \A t1, t2 \in Tokens :
    Lives(t1, k1) /\ Lives(t2, k2) /\ Same(t1, t2) => k1 = k2

\* A token that is stored is no older than one that any call loaded.
KnownInv ==
  /\ \A k \in Keys : \A t \in stored[k] : t.gen <= issued[t.grant]
  /\ \A a \in Calls : \A t \in cur[a] : t.gen <= issued[t.grant]
  /\ \A k \in Keys, a \in Calls : \A t \in stored[k], c \in cur[a] : Same(t, c) => c.gen <= t.gen

\* A token on its way to the file is the provider's latest, newer than every one
\* stored or loaded, and the only one of its grant on that way.
FlightInv ==
  \A a \in Calls : \A u \in next[a] :
    /\ Latest(u)
    /\ \A k \in Keys : \A t \in stored[k] : Same(t, u) => t.gen < u.gen
    /\ \A b \in Calls : \A t \in cur[b] : Same(t, u) => t.gen < u.gen
    /\ \A b \in Calls \ {a} : \A t \in next[b] : ~Same(t, u)

\* A spent token is not the latest; and the refreshed token a call saves is the
\* next of the one it loaded, which its process alone has spent.
SpentInv ==
  /\ \A t \in Tokens : spender[t] # {} => t.gen < issued[t.grant]
  /\ \A a \in Calls : kind[a] = "refresh" =>
       \A u \in next[a] : \E t \in cur[a] : u = Refreshed(t) /\ spender[t] = {ProcOf[a]}

TokenInv == StageInv /\ HomeInv /\ KnownInv /\ FlightInv /\ SpentInv

\* One call of a process at a time has the lock of a key.
KeyLockInv == \A p \in Procs, k \in Keys : \A a, b \in Refreshing(p, k) : a = b

\* The fields of the tokens at hand are numbers and grants.
LEMMA TokenTypes ==
  ASSUME IInv
  PROVE  /\ \A k \in Keys : stored[k] \subseteq Tokens
         /\ \A a \in Calls : cur[a] \subseteq Tokens /\ next[a] \subseteq Tokens
         /\ \A a \in Calls : key[a] \in Keys
         /\ \A t \in Tokens : t.gen \in Nat \ {0} /\ t.grant \in Grants /\ issued[t.grant] \in Nat
         /\ \A g \in Grants : issued[g] \in Nat
<1>1. \A m \in Maybe : m \subseteq Tokens
  BY DEF Maybe
<1>2. \A t \in Tokens : t.gen \in Nat \ {0} /\ t.grant \in Grants
  BY MaxGenAssumption DEF Tokens
<1>3. \A g \in Grants : issued[g] \in Nat
  BY MaxGenAssumption DEF IInv, ProviderOK
<1> QED BY <1>1, <1>2, <1>3 DEF IInv, CallsOK, FileOK

\* The calls that Unsaved speaks of.
LEMMA UnsavedIs ==
  ASSUME NEW A, NEW g
  PROVE  g \in Unsaved(A) <=> \E b \in A : kind[b] = "refresh" /\ \E u \in next[b] : u.grant = g
BY DEF Unsaved

\* A call that returns has nothing in hand.
LEMMA ForgetHand ==
  ASSUME IInv, NEW A, Forget(A)
  PROVE  \A b \in Calls :
           IF b \in A
           THEN at'[b] = "idle" /\ kind'[b] = "refresh" /\ cur'[b] = {} /\ next'[b] = {}
           ELSE /\ at'[b] = at[b] /\ kind'[b] = kind[b] /\ key'[b] = key[b]
                /\ cur'[b] = cur[b] /\ next'[b] = next[b] /\ seen'[b] = seen[b]
BY DEF Forget, IInv, CallsOK

\* A step that leaves the file and the provider alone, and each call what it has
\* in hand or empty-handed, keeps what is known of the tokens.
LEMMA FewerTokens ==
  ASSUME IInv, TokenInv, stored' = stored, issued' = issued, spender' = spender,
         \A b \in Calls :
           \/ cur'[b] = cur[b] /\ next'[b] = next[b] /\ key'[b] = key[b] /\ kind'[b] = kind[b]
           \/ cur'[b] = {} /\ next'[b] = {}
  PROVE  HomeInv' /\ KnownInv' /\ FlightInv' /\ SpentInv'
<1>1. HomeInv'
  <2>1. \A k \in Keys, t \in Tokens : Lives(t, k)' => Lives(t, k)
    BY DEF Lives
  <2> QED BY <2>1 DEF TokenInv, HomeInv, Same
<1>2. KnownInv'
  BY DEF TokenInv, KnownInv, Same
<1>3. FlightInv'
  BY DEF TokenInv, FlightInv, Same, Latest
<1>4. SpentInv'
  <2>1. ASSUME NEW b \in Calls, kind'[b] = "refresh", NEW u \in next'[b]
        PROVE  \E t \in cur'[b] : u = Refreshed(t) /\ spender'[t] = {ProcOf[b]}
    <3>1. cur'[b] = cur[b] /\ next'[b] = next[b] /\ kind'[b] = kind[b]
      BY <2>1
    <3> QED BY <2>1, <3>1 DEF TokenInv, SpentInv
  <2>2. \A t \in Tokens : spender'[t] # {} => t.gen < issued'[t.grant]
    BY DEF TokenInv, SpentInv
  <2> QED BY <2>1, <2>2 DEF SpentInv, Refreshed
<1> QED BY <1>1, <1>2, <1>3, <1>4

\* Calls return, in a step that leaves the file and the provider alone.
LEMMA DropTokens ==
  ASSUME IInv, TokenInv, NEW A, Forget(A), stored' = stored, issued' = issued, spender' = spender
  PROVE  TokenInv'
<1>1. HomeInv' /\ KnownInv' /\ FlightInv' /\ SpentInv'
  BY ForgetHand, FewerTokens
<1>2. StageInv'
  BY ForgetHand DEF TokenInv, StageInv
<1> QED BY <1>1, <1>2 DEF TokenInv

\* A refresh loads what is stored.
LEMMA GetFreshTokens ==
  ASSUME IInv, TokenInv, NEW a \in Calls, NEW k \in Keys, GetFresh(a, k)
  PROVE  TokenInv'
<1>1. /\ stored' = stored /\ issued' = issued /\ next' = next /\ spender' = spender
      /\ at[a] = "idle" /\ next[a] = {}
      /\ cur'[a] = stored[k] /\ key'[a] = k /\ kind'[a] = "refresh" /\ at'[a] = "loaded"
      /\ \A b \in Calls \ {a} : /\ cur'[b] = cur[b] /\ key'[b] = key[b] /\ kind'[b] = kind[b]
                                /\ at'[b] = at[b]
  BY DEF GetFresh, fileVars, IInv, CallsOK, TokenInv, StageInv
<1>2. StageInv'
  BY <1>1 DEF TokenInv, StageInv
<1>3. HomeInv'
  <2>1. \A j \in Keys, t \in Tokens : Lives(t, j)' => Lives(t, j)
    BY <1>1 DEF Lives
  <2> QED BY <2>1 DEF TokenInv, HomeInv, Same
<1>4. KnownInv'
  <2>1. \A t \in stored[k] : t.gen <= issued[t.grant]
    BY DEF TokenInv, KnownInv
  <2>2. ASSUME NEW j \in Keys, NEW t \in stored[j], NEW c \in stored[k], Same(t, c)
        PROVE  c.gen <= t.gen
    <3>1. j = k
      BY <2>2, TokenTypes DEF TokenInv, HomeInv, Lives
    <3>2. c = t /\ c.gen \in Nat
      <4>1. stored[k] \in Maybe
        BY DEF IInv, FileOK
      <4> QED BY <3>1, <4>1, TokenTypes DEF Maybe
    <3> QED BY <3>2
  <2> QED BY <1>1, <2>1, <2>2 DEF TokenInv, KnownInv, Same
<1>5. FlightInv'
  BY <1>1 DEF TokenInv, FlightInv, Same, Latest
<1>6. SpentInv'
  BY <1>1 DEF TokenInv, SpentInv, Refreshed
<1> QED BY <1>2, <1>3, <1>4, <1>5, <1>6 DEF TokenInv

\* A call that refreshed has the latest token, and nobody else knew of a later one
\* than it presented.
LEMMA SpendAlone ==
  ASSUME IInv, TokenInv, NEW a \in Calls, NEW t \in Tokens, Spend(a, t)
  PROVE  /\ t \in cur[a] /\ issued[t.grant] = t.gen /\ kind[a] = "refresh" /\ next[a] = {}
         /\ issued'[t.grant] = t.gen + 1
         /\ \A g \in Grants : g # t.grant => issued'[g] = issued[g]
         /\ spender[t] = {} /\ spender'[t] = {ProcOf[a]}
         /\ \A s \in Tokens : s # t => spender'[s] = spender[s]
         /\ \A b \in Calls : \A u \in next[b] : ~Same(u, t)
<1>1. /\ t \in cur[a] /\ issued[t.grant] = t.gen /\ kind[a] = "refresh" /\ next[a] = {}
  BY DEF Spend, Latest, TokenInv, StageInv
<1>2. /\ issued'[t.grant] = t.gen + 1
      /\ \A g \in Grants : g # t.grant => issued'[g] = issued[g]
  BY TokenTypes DEF Spend, IInv, ProviderOK
<1>3. spender[t] = {}
  BY <1>1, TokenTypes DEF TokenInv, SpentInv
<1>4. spender'[t] = {ProcOf[a]} /\ \A s \in Tokens : s # t => spender'[s] = spender[s]
  BY <1>3 DEF Spend, IInv, ProviderOK
<1>5. ASSUME NEW b \in Calls, NEW u \in next[b], Same(u, t) PROVE FALSE
  <2>1. u.gen = issued[u.grant] /\ t.gen < u.gen
    BY <1>1, <1>5 DEF TokenInv, FlightInv, Latest, Same
  <2>2. u.gen \in Nat /\ t.gen \in Nat
    BY TokenTypes
  <2> QED BY <1>1, <1>5, <2>1, <2>2 DEF Same
<1> QED BY <1>1, <1>2, <1>3, <1>4, <1>5

\* What is known stays below what the provider issued, which only grows.
LEMMA SpendKnown ==
  ASSUME IInv, TokenInv, NEW a \in Calls, NEW t \in Tokens, Spend(a, t)
  PROVE  /\ \A s \in Tokens : s.gen <= issued[s.grant] => s.gen <= issued'[s.grant]
         /\ \A s \in Tokens : s.gen < issued[s.grant] => s.gen < issued'[s.grant]
         /\ t.gen < issued'[t.grant]
         /\ \A s \in Tokens : Same(s, t) /\ s.gen <= issued[s.grant] => s.gen < Refreshed(t).gen
         /\ Same(t, Refreshed(t)) /\ Refreshed(t).gen = t.gen + 1 /\ Refreshed(t) \in Tokens
<1>1. \A s \in Tokens : issued'[s.grant] = issued[s.grant] \/ issued'[s.grant] = issued[s.grant] + 1
  BY SpendAlone, TokenTypes
<1>2. Same(t, Refreshed(t)) /\ Refreshed(t).gen = t.gen + 1 /\ Refreshed(t) \in Tokens
  BY SpendType DEF Same, Refreshed, Tokens
<1>3. issued[t.grant] = t.gen /\ issued'[t.grant] = t.gen + 1 /\ t.gen \in Nat
  BY SpendAlone, TokenTypes
<1>4. ASSUME NEW s \in Tokens, Same(s, t), s.gen <= issued[s.grant] PROVE s.gen < Refreshed(t).gen
  <2>1. s.gen \in Nat /\ s.gen <= t.gen
    BY <1>3, <1>4, TokenTypes DEF Same
  <2> QED BY <1>2, <1>3, <2>1
<1>5. \A s \in Tokens : s.gen \in Nat /\ issued[s.grant] \in Nat
  BY TokenTypes
<1> QED BY <1>1, <1>2, <1>3, <1>4, <1>5

LEMMA RefreshTokens ==
  ASSUME IInv, TokenInv, NEW a \in Calls, NEW t \in Tokens, Refresh(a, t)
  PROVE  TokenInv'
<1>s. /\ Spend(a, t)
      /\ t \in cur[a] /\ issued[t.grant] = t.gen /\ kind[a] = "refresh" /\ next[a] = {}
      /\ issued'[t.grant] = t.gen + 1
      /\ spender'[t] = {ProcOf[a]} /\ \A s \in Tokens : s # t => spender'[s] = spender[s]
      /\ \A g \in Grants : g # t.grant => issued'[g] = issued[g]
      /\ \A b \in Calls : \A u \in next[b] : ~Same(u, t)
  BY SpendAlone DEF Refresh
<1>k. /\ \A s \in Tokens : s.gen <= issued[s.grant] => s.gen <= issued'[s.grant]
      /\ \A s \in Tokens : s.gen < issued[s.grant] => s.gen < issued'[s.grant]
      /\ t.gen < issued'[t.grant]
      /\ \A s \in Tokens : Same(s, t) /\ s.gen <= issued[s.grant] => s.gen < Refreshed(t).gen
      /\ Same(t, Refreshed(t)) /\ Refreshed(t).gen = t.gen + 1 /\ Refreshed(t) \in Tokens
  BY <1>s, SpendKnown
<1>1. /\ stored' = stored /\ cur' = cur /\ key' = key /\ kind' = kind
      /\ next'[a] = {Refreshed(t)} /\ \A b \in Calls \ {a} : next'[b] = next[b]
      /\ at'[a] = "saving" /\ \A b \in Calls \ {a} : at'[b] = at[b]
  BY DEF Refresh, fileVars, IInv, CallsOK
<1>t. /\ \A k \in Keys : stored[k] \subseteq Tokens
      /\ \A b \in Calls : cur[b] \subseteq Tokens /\ next[b] \subseteq Tokens
      /\ \A s \in Tokens : s.grant \in Grants
  BY TokenTypes
<1>2. StageInv'
  BY <1>1, <1>s DEF TokenInv, StageInv
<1>3. HomeInv'
  <2>1. \A j \in Keys, s \in Tokens : Lives(s, j)' =>
          Lives(s, j) \/ (s = Refreshed(t) /\ j = key[a])
    BY <1>1 DEF Lives
  <2>2. Lives(t, key[a])
    BY <1>s DEF Lives
  <2>3. \A j \in Keys, s \in Tokens : Lives(s, j)' => \E r \in Tokens : Lives(r, j) /\ Same(r, s)
    BY <2>1, <2>2, <1>k DEF Same
  <2> QED BY <2>3 DEF TokenInv, HomeInv, Same
<1>4. KnownInv'
  BY <1>1, <1>k, <1>t DEF TokenInv, KnownInv, Same
<1>5. FlightInv'
  <2> SUFFICES ASSUME NEW b \in Calls, NEW u \in next'[b]
               PROVE  /\ issued'[u.grant] = u.gen
                      /\ \A k \in Keys : \A s \in stored[k] : Same(s, u) => s.gen < u.gen
                      /\ \A c \in Calls : \A s \in cur[c] : Same(s, u) => s.gen < u.gen
                      /\ \A c \in Calls \ {b} : \A s \in next'[c] : ~Same(s, u)
    BY <1>1 DEF FlightInv, Latest, Same
  <2>1. CASE b = a
    <3>1. u = Refreshed(t)
      BY <1>1, <2>1
    <3>2. issued'[u.grant] = u.gen
      BY <1>s, <1>k, <3>1 DEF Same
    <3>3. /\ \A k \in Keys : \A s \in stored[k] : Same(s, u) => s.gen < u.gen
          /\ \A c \in Calls : \A s \in cur[c] : Same(s, u) => s.gen < u.gen
      BY <1>k, <1>t, <3>1 DEF TokenInv, KnownInv, Same
    <3>4. \A c \in Calls \ {b} : \A s \in next'[c] : ~Same(s, u)
      BY <1>1, <1>s, <1>k, <2>1, <3>1 DEF Same
    <3> QED BY <3>2, <3>3, <3>4
  <2>2. CASE b # a
    <3>1. u \in next[b] /\ u.grant # t.grant /\ u.grant \in Grants
      BY <1>1, <1>s, <1>t, <2>2 DEF Same
    <3>2. issued'[u.grant] = u.gen
      BY <1>s, <3>1 DEF TokenInv, FlightInv, Latest
    <3>3. /\ \A k \in Keys : \A s \in stored[k] : Same(s, u) => s.gen < u.gen
          /\ \A c \in Calls : \A s \in cur[c] : Same(s, u) => s.gen < u.gen
          /\ \A c \in Calls \ {b} : \A s \in next[c] : ~Same(s, u)
      BY <3>1 DEF TokenInv, FlightInv
    <3>4. ~Same(Refreshed(t), u)
      BY <1>k, <3>1 DEF Same
    <3> QED BY <1>1, <3>2, <3>3, <3>4
  <2> QED BY <2>1, <2>2
<1>6. SpentInv'
  <2>1. \A s \in Tokens : spender'[s] # {} => s.gen < issued'[s.grant]
    BY <1>s, <1>k DEF TokenInv, SpentInv
  <2>2. ASSUME NEW b \in Calls, kind[b] = "refresh", NEW u \in next'[b]
        PROVE  \E s \in cur[b] : u = Refreshed(s) /\ spender'[s] = {ProcOf[b]}
    <3>1. CASE b = a
      BY <1>1, <1>s, <3>1
    <3>2. CASE b # a
      <4>1. u \in next[b] /\ ~Same(u, t)
        BY <1>1, <1>s, <3>2
      <4>2. PICK s \in cur[b] : u = Refreshed(s) /\ spender[s] = {ProcOf[b]}
        BY <2>2, <4>1 DEF TokenInv, SpentInv
      <4>3. s # t
        BY <1>k, <4>1, <4>2 DEF Same
      <4> QED BY <1>s, <1>t, <4>2, <4>3
    <3> QED BY <3>1, <3>2
  <2> QED BY <1>1, <2>1, <2>2 DEF SpentInv, Refreshed
<1> QED BY <1>2, <1>3, <1>4, <1>5, <1>6 DEF TokenInv

LEMMA LoseAnswerTokens ==
  ASSUME IInv, TokenInv, NEW a \in Calls, NEW t \in Tokens, LoseAnswer(a, t)
  PROVE  TokenInv'
<1>s. /\ Spend(a, t) /\ Forget({a}) /\ stored' = stored
      /\ \A s \in Tokens : s # t => spender'[s] = spender[s]
      /\ \A g \in Grants : g # t.grant => issued'[g] = issued[g]
      /\ \A b \in Calls : \A u \in next[b] : ~Same(u, t)
  BY SpendAlone DEF LoseAnswer, fileVars
<1>k. /\ \A s \in Tokens : s.gen <= issued[s.grant] => s.gen <= issued'[s.grant]
      /\ \A s \in Tokens : s.gen < issued[s.grant] => s.gen < issued'[s.grant]
      /\ t.gen < issued'[t.grant]
      /\ Same(t, Refreshed(t))
  BY <1>s, SpendKnown
<1>1. \A b \in Calls :
        \/ /\ cur'[b] = cur[b] /\ next'[b] = next[b] /\ key'[b] = key[b] /\ kind'[b] = kind[b]
           /\ at'[b] = at[b]
        \/ cur'[b] = {} /\ next'[b] = {} /\ at'[b] = "idle" /\ kind'[b] = "refresh"
  BY <1>s, ForgetHand
<1>t. /\ \A k \in Keys : stored[k] \subseteq Tokens
      /\ \A b \in Calls : cur[b] \subseteq Tokens /\ next[b] \subseteq Tokens
      /\ \A s \in Tokens : s.grant \in Grants
  BY TokenTypes
<1>2. StageInv'
  BY <1>1 DEF TokenInv, StageInv
<1>3. HomeInv'
  <2>1. \A j \in Keys, s \in Tokens : Lives(s, j)' => Lives(s, j)
    BY <1>s, <1>1 DEF Lives
  <2> QED BY <2>1 DEF TokenInv, HomeInv, Same
<1>4. KnownInv'
  BY <1>1, <1>s, <1>k, <1>t DEF TokenInv, KnownInv, Same
<1>5. FlightInv'
  <2>1. \A b \in Calls : \A u \in next[b] : issued'[u.grant] = u.gen
    BY <1>s, <1>t DEF TokenInv, FlightInv, Latest, Same
  <2> QED BY <1>1, <1>s, <2>1 DEF TokenInv, FlightInv, Same, Latest
<1>6. SpentInv'
  <2>1. \A s \in Tokens : spender'[s] # {} => s.gen < issued'[s.grant]
    BY <1>s, <1>k DEF TokenInv, SpentInv
  <2>2. ASSUME NEW b \in Calls, kind'[b] = "refresh", NEW u \in next'[b]
        PROVE  \E s \in cur'[b] : u = Refreshed(s) /\ spender'[s] = {ProcOf[b]}
    <3>1. u \in next[b] /\ ~Same(u, t) /\ kind[b] = "refresh" /\ cur'[b] = cur[b]
      BY <1>1, <1>s, <2>2
    <3>2. PICK s \in cur[b] : u = Refreshed(s) /\ spender[s] = {ProcOf[b]}
      BY <3>1 DEF TokenInv, SpentInv
    <3>3. s # t
      BY <1>k, <3>1, <3>2 DEF Same
    <3> QED BY <1>s, <1>t, <3>1, <3>2, <3>3
  <2> QED BY <2>1, <2>2 DEF SpentInv, Refreshed
<1> QED BY <1>2, <1>3, <1>4, <1>5, <1>6 DEF TokenInv

\* A login brings a grant nobody has a token of.
LEMMA LoginTokens ==
  ASSUME IInv, TokenInv, NEW a \in Calls, NEW k \in Keys, NEW g \in Grants, Login(a, k, g)
  PROVE  TokenInv'
<1> DEFINE u == [grant |-> g, gen |-> 1]
<1>1. /\ stored' = stored /\ cur' = cur /\ spender' = spender
      /\ issued[g] = 0 /\ issued'[g] = 1 /\ \A h \in Grants : h # g => issued'[h] = issued[h]
      /\ next'[a] = {u} /\ key'[a] = k /\ kind'[a] = "login" /\ at'[a] = "saving"
      /\ \A b \in Calls \ {a} : /\ next'[b] = next[b] /\ key'[b] = key[b] /\ kind'[b] = kind[b]
                                /\ at'[b] = at[b]
      /\ cur[a] = {} /\ next[a] = {}
  BY DEF Login, fileVars, IInv, CallsOK, ProviderOK, TokenInv, StageInv
<1>t. /\ \A j \in Keys : stored[j] \subseteq Tokens
      /\ \A b \in Calls : cur[b] \subseteq Tokens /\ next[b] \subseteq Tokens
      /\ \A s \in Tokens : s.gen \in Nat \ {0} /\ s.grant \in Grants
  BY TokenTypes
<1>n. /\ \A j \in Keys : \A s \in stored[j] : s.grant # g
      /\ \A b \in Calls : \A s \in cur[b] : s.grant # g
      /\ \A b \in Calls : \A s \in next[b] : s.grant # g
  <2>1. \A s \in Tokens : s.gen <= issued[s.grant] => s.grant # g
    BY <1>1, <1>t
  <2>2. \A b \in Calls : \A s \in next[b] : s.gen <= issued[s.grant]
    BY <1>t DEF TokenInv, FlightInv, Latest
  <2> QED BY <1>t, <2>1, <2>2 DEF TokenInv, KnownInv
<1>u. u \in Tokens /\ u.grant = g /\ u.gen = 1
  BY MaxGenAssumption DEF Tokens
<1> HIDE DEF u
<1>2. StageInv'
  BY <1>1 DEF TokenInv, StageInv
<1>3. HomeInv'
  <2>1. \A j \in Keys, s \in Tokens : Lives(s, j)' =>
          (Lives(s, j) /\ s.grant # g) \/ (s = u /\ j = k)
    BY <1>1, <1>n DEF Lives
  <2> QED BY <1>u, <2>1 DEF TokenInv, HomeInv, Same
<1>4. KnownInv'
  BY <1>1, <1>n, <1>t DEF TokenInv, KnownInv, Same
<1>5. FlightInv'
  <2>1. ASSUME NEW b \in Calls, NEW s \in next'[b] PROVE issued'[s.grant] = s.gen
    <3>1. CASE b = a
      BY <1>1, <1>u, <2>1, <3>1
    <3>2. CASE b # a
      <4>1. s \in next[b] /\ s.grant # g /\ s.grant \in Grants
        BY <1>1, <1>n, <1>t, <2>1, <3>2
      <4>2. issued[s.grant] = s.gen
        BY <4>1 DEF TokenInv, FlightInv, Latest
      <4> QED BY <1>1, <4>1, <4>2
    <3> QED BY <3>1, <3>2
  <2>2. \A b \in Calls : \A s \in next'[b] : (s = u /\ b = a) \/ (s \in next[b] /\ s.grant # g)
    BY <1>1, <1>n
  <2>3. ASSUME NEW b \in Calls, NEW s \in next'[b]
        PROVE  /\ \A j \in Keys : \A t \in stored[j] : Same(t, s) => t.gen < s.gen
               /\ \A c \in Calls : \A t \in cur[c] : Same(t, s) => t.gen < s.gen
               /\ \A c \in Calls \ {b} : \A t \in next'[c] : ~Same(t, s)
    <3>1. CASE s = u /\ b = a
      BY <1>n, <1>u, <2>2, <3>1 DEF Same
    <3>2. CASE s \in next[b] /\ s.grant # g
      <4>1. /\ \A j \in Keys : \A t \in stored[j] : Same(t, s) => t.gen < s.gen
            /\ \A c \in Calls : \A t \in cur[c] : Same(t, s) => t.gen < s.gen
            /\ \A c \in Calls \ {b} : \A t \in next[c] : ~Same(t, s)
        BY <3>2 DEF TokenInv, FlightInv
      <4>2. \A c \in Calls \ {b} : \A t \in next'[c] : t = u \/ t \in next[c]
        BY <2>2
      <4>3. ~Same(u, s)
        BY <1>u, <3>2 DEF Same
      <4> QED BY <4>1, <4>2, <4>3
    <3> QED BY <2>2, <2>3, <3>1, <3>2
  <2> QED BY <1>1, <2>1, <2>3 DEF FlightInv, Same, Latest
<1>6. SpentInv'
  <2>1. \A s \in Tokens : spender[s] # {} => s.gen < issued'[s.grant]
    BY <1>1, <1>t DEF TokenInv, SpentInv
  <2>2. ASSUME NEW b \in Calls, kind'[b] = "refresh", NEW s \in next'[b]
        PROVE  \E c \in cur'[b] : s = Refreshed(c) /\ spender'[c] = {ProcOf[b]}
    <3>1. kind[b] = "refresh" /\ s \in next[b]
      BY <1>1, <2>2
    <3> QED BY <1>1, <3>1 DEF TokenInv, SpentInv
  <2>3. \A s \in Tokens : spender'[s] # {} => s.gen < issued'[s.grant]
    BY <1>1, <2>1
  <2> QED BY <2>2, <2>3 DEF SpentInv, Refreshed
<1> QED BY <1>2, <1>3, <1>4, <1>5, <1>6 DEF TokenInv

LEMMA WriteTokens ==
  ASSUME IInv, TokenInv, NEW a \in Calls, Write(a)
  PROVE  /\ TokenInv' /\ stored'[key[a]] = next[a]
         /\ \A k \in Keys : k # key[a] => stored'[k] = stored[k]
<1>1. /\ issued' = issued /\ spender' = spender /\ Forget({a})
      /\ stored'[key[a]] = next[a] /\ \A k \in Keys : k # key[a] => stored'[k] = stored[k]
  BY DEF Write, IInv, CallsOK, FileOK, LockInv, ViewInv
<1>2. \A b \in Calls :
        IF b = a
        THEN cur'[b] = {} /\ next'[b] = {} /\ at'[b] = "idle" /\ kind'[b] = "refresh"
        ELSE /\ cur'[b] = cur[b] /\ next'[b] = next[b] /\ key'[b] = key[b] /\ kind'[b] = kind[b]
             /\ at'[b] = at[b]
  BY <1>1, ForgetHand
<1>t. /\ \A k \in Keys : stored[k] \subseteq Tokens
      /\ \A b \in Calls : cur[b] \subseteq Tokens /\ next[b] \subseteq Tokens /\ key[b] \in Keys
      /\ \A s \in Tokens : s.gen \in Nat /\ issued[s.grant] \in Nat
  BY TokenTypes
<1>u. \A k \in Keys : \A s \in stored'[k] : (s \in next[a] /\ k = key[a]) \/ s \in stored[k]
  BY <1>1
<1>3. StageInv'
  BY <1>2 DEF TokenInv, StageInv
<1>4. HomeInv'
  <2>1. \A j \in Keys, s \in Tokens : Lives(s, j)' => Lives(s, j)
    BY <1>2, <1>u DEF Lives
  <2> QED BY <2>1 DEF TokenInv, HomeInv, Same
<1>f. \A s \in next[a] : /\ s.gen <= issued[s.grant]
                         /\ \A b \in Calls : \A c \in cur[b] : Same(s, c) => c.gen <= s.gen
                         /\ \A b \in Calls \ {a} : \A c \in next[b] : ~Same(s, c)
  BY <1>t DEF TokenInv, FlightInv, Latest, Same
<1>5. KnownInv'
  BY <1>1, <1>2, <1>u, <1>f DEF TokenInv, KnownInv, Same
<1>6. FlightInv'
  <2> SUFFICES ASSUME NEW b \in Calls, NEW u \in next'[b]
               PROVE  /\ issued[u.grant] = u.gen
                      /\ \A k \in Keys : \A s \in stored'[k] : Same(s, u) => s.gen < u.gen
                      /\ \A c \in Calls : \A s \in cur'[c] : Same(s, u) => s.gen < u.gen
                      /\ \A c \in Calls \ {b} : \A s \in next'[c] : ~Same(s, u)
    BY <1>1 DEF FlightInv, Latest, Same
  <2>1. b # a /\ u \in next[b]
    BY <1>2
  <2>2. /\ issued[u.grant] = u.gen
        /\ \A k \in Keys : \A s \in stored[k] : Same(s, u) => s.gen < u.gen
        /\ \A c \in Calls : \A s \in cur[c] : Same(s, u) => s.gen < u.gen
        /\ \A c \in Calls \ {b} : \A s \in next[c] : ~Same(s, u)
    BY <2>1 DEF TokenInv, FlightInv, Latest
  <2> QED BY <1>2, <1>u, <1>f, <2>1, <2>2 DEF Same
<1>7. SpentInv'
  <2>1. \A s \in Tokens : spender'[s] # {} => s.gen < issued'[s.grant]
    BY <1>1 DEF TokenInv, SpentInv
  <2>2. ASSUME NEW b \in Calls, kind'[b] = "refresh", NEW u \in next'[b]
        PROVE  \E s \in cur'[b] : u = Refreshed(s) /\ spender'[s] = {ProcOf[b]}
    <3>1. kind[b] = "refresh" /\ u \in next[b] /\ cur'[b] = cur[b]
      BY <1>2, <2>2
    <3> QED BY <1>1, <3>1 DEF TokenInv, SpentInv
  <2> QED BY <2>1, <2>2 DEF SpentInv, Refreshed
<1> QED BY <1>1, <1>3, <1>4, <1>5, <1>6, <1>7 DEF TokenInv

\* Every step keeps what the calls know of the tokens they have in hand.
LEMMA StepTokens == IInv /\ TokenInv /\ [Next]_vars => TokenInv'
<1> SUFFICES ASSUME IInv, TokenInv, [Next]_vars PROVE TokenInv'
  OBVIOUS
<1> DEFINE SameHands ==
      /\ stored' = stored /\ issued' = issued /\ spender' = spender /\ cur' = cur /\ next' = next
      /\ \A b \in Calls : (key'[b] = key[b] /\ kind'[b] = kind[b]) \/ (cur[b] = {} /\ next[b] = {})
<1>1. SameHands /\ StageInv' => TokenInv'
  BY FewerTokens DEF TokenInv
<1>2. ASSUME NEW a \in Calls, NEW k \in Keys, Logout(a, k) PROVE TokenInv'
  <2>1. cur[a] = {} /\ next[a] = {} /\ cur' = cur /\ next' = next
    BY <1>2 DEF Logout, TokenInv, StageInv
  <2>2. /\ at'[a] = "saving" /\ kind'[a] = "logout"
        /\ \A b \in Calls \ {a} : at'[b] = at[b] /\ key'[b] = key[b] /\ kind'[b] = kind[b]
    BY <1>2 DEF Logout, IInv, CallsOK
  <2>3. StageInv'
    BY <2>1, <2>2 DEF TokenInv, StageInv
  <2>4. SameHands
    BY <1>2, <2>1, <2>2 DEF Logout, fileVars
  <2> QED BY <1>1, <2>3, <2>4
<1>3. ASSUME NEW a \in Calls, LookAgain(a) PROVE TokenInv'
  <2>1. CASE Forget({a})
    BY <1>3, <2>1, DropTokens DEF LookAgain, fileVars
  <2>2. CASE ~Forget({a})
    <3>1. at' = [at EXCEPT ![a] = "spending"] /\ UNCHANGED <<kind, key, cur, next>>
      BY <1>3, <2>2 DEF LookAgain
    <3>2. at[a] = "loaded" /\ at'[a] = "spending" /\ \A b \in Calls \ {a} : at'[b] = at[b]
      BY <1>3, <3>1 DEF LookAgain, IInv, CallsOK
    <3>3. StageInv'
      BY <3>1, <3>2 DEF TokenInv, StageInv
    <3>4. SameHands
      BY <1>3, <3>1 DEF LookAgain, fileVars
    <3> QED BY <1>1, <3>3, <3>4
  <2> QED BY <2>1, <2>2
<1>4. ASSUME NEW a \in Calls, RefreshFails(a) \/ LockTimesOut(a) \/ WriteFails(a) PROVE TokenInv'
  BY <1>4, DropTokens DEF RefreshFails, LockTimesOut, WriteFails, fileVars
<1>5. ASSUME NEW p \in Procs, Crash(p) PROVE TokenInv'
  BY <1>5, DropTokens DEF Crash
<1>6. ASSUME NEW a \in Calls, LockAndRead(a) PROVE TokenInv'
  <2>1. at[a] = "saving" /\ at'[a] = "writing" /\ \A b \in Calls \ {a} : at'[b] = at[b]
    BY <1>6 DEF LockAndRead, IInv, CallsOK
  <2>2. StageInv'
    BY <1>6, <2>1 DEF LockAndRead, TokenInv, StageInv
  <2>3. SameHands
    BY <1>6 DEF LockAndRead
  <2> QED BY <1>1, <2>2, <2>3
<1>7. ASSUME ReclaimLock \/ UNCHANGED vars PROVE TokenInv'
  <2>1. StageInv'
    BY <1>7 DEF ReclaimLock, vars, callVars, TokenInv, StageInv
  <2>2. SameHands
    BY <1>7 DEF ReclaimLock, vars, callVars, fileVars
  <2> QED BY <1>1, <2>1, <2>2
<1> QED BY <1>2, <1>3, <1>4, <1>5, <1>6, <1>7, GetFreshTokens, RefreshTokens, LoseAnswerTokens,
           LoginTokens, WriteTokens DEF Next

-----------------------------------------------------------------------------
(* The stored token is the latest, or its successor is known to be at risk. *)

\* Unsaved's grants, said of the calls: some refresh has the token to save.
Saving(g) == \E b \in Calls : kind[b] = "refresh" /\ \E u \in next[b] : u.grant = g
Covered(t) == Latest(t) \/ t.grant \in lost \/ Saving(t.grant)
LatestInv == \A k \in Keys : \A t \in stored[k] : Covered(t)

\* The property of the run, over the keys and without the sets that TLC evaluates.
LEMMA LatestIs == LatestInv <=> StoredIsLatest
<1>1. \A g : Saving(g) <=> g \in Unsaved(Calls)
  BY UnsavedIs DEF Saving
<1>2. \A t : t \in UNION {stored[k] : k \in Keys} <=> \E k \in Keys : t \in stored[k]
  OBVIOUS
<1> QED BY <1>1, <1>2 DEF LatestInv, StoredIsLatest, Covered

\* Calls return: what the refreshes among them had to save counts as lost.
LEMMA DropLatest ==
  ASSUME IInv, LatestInv, NEW A \in SUBSET Calls, Forget(A), stored' = stored, issued' = issued,
         lost \subseteq lost', Unsaved(A) \subseteq lost'
  PROVE  LatestInv'
<1> SUFFICES ASSUME NEW k \in Keys, NEW t \in stored[k], ~Latest(t), t.grant \notin lost'
             PROVE  \E b \in Calls : kind'[b] = "refresh" /\ \E u \in next'[b] : u.grant = t.grant
  BY DEF LatestInv, Covered, Latest, Saving
<1>1. PICK b \in Calls : kind[b] = "refresh" /\ \E u \in next[b] : u.grant = t.grant
  BY DEF LatestInv, Covered, Saving
<1>2. b \notin A
  BY <1>1, UnsavedIs
<1>3. kind'[b] = kind[b] /\ next'[b] = next[b]
  BY <1>2, ForgetHand
<1> QED BY <1>1, <1>3

\* Calls go on with what they had in hand.
LEMMA KeepLatest ==
  ASSUME IInv, LatestInv, stored' = stored, issued' = issued, lost' = lost, next' = next,
         \A b \in Calls : kind'[b] = kind[b] \/ next[b] = {}
  PROVE  LatestInv'
BY DEF LatestInv, Covered, Latest, Saving

\* Every step leaves the stored tokens latest or covered.
LEMMA StepLatest == IInv /\ TokenInv /\ LatestInv /\ [Next]_vars => LatestInv'
<1> SUFFICES ASSUME IInv, TokenInv, LatestInv, [Next]_vars PROVE LatestInv'
  OBVIOUS
<1>t. /\ \A k \in Keys : stored[k] \subseteq Tokens
      /\ \A b \in Calls : cur[b] \subseteq Tokens /\ next[b] \subseteq Tokens /\ key[b] \in Keys
      /\ \A s \in Tokens : s.grant \in Grants
  BY TokenTypes
<1>1. ASSUME NEW a \in Calls, NEW k \in Keys, GetFresh(a, k) \/ Logout(a, k) PROVE LatestInv'
  <2>1. next[a] = {} /\ \A b \in Calls \ {a} : kind'[b] = kind[b]
    BY <1>1 DEF GetFresh, Logout, TokenInv, StageInv, IInv, CallsOK
  <2>2. stored' = stored /\ issued' = issued /\ lost' = lost /\ next' = next
    BY <1>1 DEF GetFresh, Logout, fileVars
  <2> QED BY <2>1, <2>2, KeepLatest
<1>2. ASSUME NEW a \in Calls, NEW k \in Keys, NEW g \in Grants, Login(a, k, g) PROVE LatestInv'
  <2>1. /\ stored' = stored /\ lost' = lost /\ issued[g] = 0
        /\ \A h \in Grants : h # g => issued'[h] = issued[h]
        /\ next[a] = {} /\ \A b \in Calls \ {a} : kind'[b] = kind[b] /\ next'[b] = next[b]
    BY <1>2 DEF Login, fileVars, TokenInv, StageInv, IInv, CallsOK, ProviderOK
  <2>2. \A j \in Keys : \A t \in stored[j] : t.grant # g
    BY <1>t, <2>1, TokenTypes DEF TokenInv, KnownInv
  <2> QED BY <1>t, <2>1, <2>2 DEF LatestInv, Covered, Latest, Saving
<1>3. ASSUME NEW a \in Calls, NEW t \in Tokens, Refresh(a, t) PROVE LatestInv'
  <2>1. /\ \A g \in Grants : g # t.grant => issued'[g] = issued[g]
        /\ kind[a] = "refresh" /\ next[a] = {}
    BY <1>3, SpendAlone DEF Refresh
  <2>2. /\ stored' = stored /\ lost' = lost /\ kind' = kind
        /\ next'[a] = {Refreshed(t)} /\ \A b \in Calls \ {a} : next'[b] = next[b]
        /\ Refreshed(t).grant = t.grant
    BY <1>3 DEF Refresh, fileVars, IInv, CallsOK, Refreshed, Tokens
  <2>3. Saving(t.grant)' /\ \A g : Saving(g) => Saving(g)'
    BY <2>1, <2>2 DEF Saving
  <2> QED BY <1>t, <2>1, <2>2, <2>3 DEF LatestInv, Covered, Latest
<1>4. ASSUME NEW a \in Calls, NEW t \in Tokens, LoseAnswer(a, t) PROVE LatestInv'
  <2>1. /\ \A g \in Grants : g # t.grant => issued'[g] = issued[g]
        /\ next[a] = {}
    BY <1>4, SpendAlone DEF LoseAnswer
  <2>2. stored' = stored /\ lost' = lost \cup {t.grant}
    BY <1>4 DEF LoseAnswer, fileVars
  <2>3. \A b \in Calls \ {a} : kind'[b] = kind[b] /\ next'[b] = next[b]
    BY <1>4, ForgetHand DEF LoseAnswer
  <2>4. \A g : Saving(g) => Saving(g)'
    BY <2>1, <2>3 DEF Saving
  <2> QED BY <1>t, <2>1, <2>2, <2>4 DEF LatestInv, Covered, Latest
<1>5. ASSUME NEW a \in Calls, LookAgain(a) \/ RefreshFails(a) PROVE LatestInv'
  <2>1. stored' = stored /\ issued' = issued /\ lost' = lost /\ next[a] = {}
    BY <1>5 DEF LookAgain, RefreshFails, fileVars, TokenInv, StageInv
  <2>2. CASE Forget({a})
    <3>1. Unsaved({a}) = {}
      BY <2>1 DEF Unsaved
    <3> QED BY <2>1, <2>2, <3>1, DropLatest
  <2>3. CASE ~Forget({a})
    <3>1. kind' = kind /\ next' = next
      BY <1>5, <2>3 DEF LookAgain, RefreshFails
    <3> QED BY <2>1, <3>1, KeepLatest
  <2> QED BY <2>2, <2>3
<1>6. ASSUME NEW a \in Calls, LockTimesOut(a) \/ WriteFails(a) PROVE LatestInv'
  BY <1>6, DropLatest DEF LockTimesOut, WriteFails, fileVars
<1>7. ASSUME NEW p \in Procs, Crash(p) PROVE LatestInv'
  <2>1. CallsOf(p) \in SUBSET Calls
    BY DEF CallsOf
  <2> QED BY <1>7, <2>1, DropLatest DEF Crash
<1>8. ASSUME NEW a \in Calls, LockAndRead(a) PROVE LatestInv'
  BY <1>8, KeepLatest DEF LockAndRead
<1>9. ASSUME NEW a \in Calls, Write(a) PROVE LatestInv'
  <2>1. /\ stored'[key[a]] = next[a] /\ \A k \in Keys : k # key[a] => stored'[k] = stored[k]
        /\ issued' = issued /\ lost' = lost
    BY <1>9, WriteTokens DEF Write
  <2>2. \A b \in Calls \ {a} : kind'[b] = kind[b] /\ next'[b] = next[b]
    BY <1>9, ForgetHand DEF Write
  <2> SUFFICES ASSUME NEW k \in Keys, NEW t \in stored'[k], ~Latest(t), t.grant \notin lost
               PROVE  Saving(t.grant)'
    BY <2>1 DEF LatestInv, Covered, Latest
  <2>3. k # key[a] /\ t \in stored[k]
    BY <2>1 DEF TokenInv, FlightInv
  <2>4. PICK b \in Calls : kind[b] = "refresh" /\ \E u \in next[b] : u.grant = t.grant
    BY <2>3 DEF LatestInv, Covered, Saving
  <2>5. b # a
    <3>1. SUFFICES ASSUME NEW u \in next[a], u.grant = t.grant PROVE FALSE
      BY <2>4
    <3>2. Lives(u, key[a]) /\ Lives(t, k) /\ Same(u, t) /\ u \in Tokens /\ t \in Tokens
      BY <1>t, <2>3, <3>1 DEF Lives, Same
    <3> QED BY <1>t, <2>3, <3>2 DEF TokenInv, HomeInv
  <2> QED BY <2>2, <2>4, <2>5 DEF Saving
<1>10. ASSUME ReclaimLock \/ UNCHANGED vars PROVE LatestInv'
  BY <1>10 DEF ReclaimLock, vars, callVars, fileVars, LatestInv, Covered, Latest, Saving
<1> QED BY <1>1, <1>2, <1>3, <1>4, <1>5, <1>6, <1>7, <1>8, <1>9, <1>10 DEF Next

-----------------------------------------------------------------------------
(* A process does not spend a token twice.                                 *)

\* Every step keeps the key's lock with one call of the process.
LEMMA StepKeyLock == IInv /\ TokenInv /\ KeyLockInv /\ [Next]_vars => KeyLockInv'
<1> SUFFICES ASSUME IInv, TokenInv, KeyLockInv, [Next]_vars PROVE KeyLockInv'
  OBVIOUS
<1> DEFINE Holds(b) == kind[b] = "refresh" /\ at[b] \in {"spending", "saving", "writing"}
\* Nobody takes a lock in a step that is not LookAgain.
<1>1. (\A b \in Calls : Holds(b)' => Holds(b) /\ key'[b] = key[b]) => KeyLockInv'
  BY DEF KeyLockInv, Refreshing
<1>2. ASSUME NEW A, Forget(A) PROVE \A b \in Calls : Holds(b)' => Holds(b) /\ key'[b] = key[b]
  BY <1>2, ForgetHand
<1>3. ASSUME NEW a \in Calls, NEW k \in Keys,
             GetFresh(a, k) \/ Logout(a, k) \/ \E g \in Grants : Login(a, k, g)
      PROVE  \A b \in Calls : Holds(b)' => Holds(b) /\ key'[b] = key[b]
  BY <1>3 DEF GetFresh, Logout, Login, IInv, CallsOK
<1>4. ASSUME NEW a \in Calls, NEW t \in Tokens, Refresh(a, t)
      PROVE  \A b \in Calls : Holds(b)' => Holds(b) /\ key'[b] = key[b]
  BY <1>4 DEF Refresh, Spend, IInv, CallsOK
<1>5. ASSUME NEW a \in Calls, LockAndRead(a)
      PROVE  \A b \in Calls : Holds(b)' => Holds(b) /\ key'[b] = key[b]
  BY <1>5 DEF LockAndRead, IInv, CallsOK
<1>6. ASSUME NEW a \in Calls, LookAgain(a), ~Forget({a}) PROVE KeyLockInv'
  <2>1. /\ KeyLockFree(ProcOf[a], key[a]) /\ kind' = kind /\ key' = key
        /\ \A b \in Calls \ {a} : at'[b] = at[b]
    BY <1>6 DEF LookAgain, IInv, CallsOK
  <2>2. \A p \in Procs, k \in Keys : \A b \in Refreshing(p, k)' :
          b \in Refreshing(p, k) \/ (b = a /\ p = ProcOf[a] /\ k = key[a])
    BY <2>1 DEF Refreshing
  <2> QED BY <2>1, <2>2 DEF KeyLockInv, KeyLockFree
<1>7. ASSUME ReclaimLock \/ UNCHANGED vars
      PROVE  \A b \in Calls : Holds(b)' => Holds(b) /\ key'[b] = key[b]
  BY <1>7 DEF ReclaimLock, vars, callVars
<1>8. ASSUME NEW a \in Calls, NEW t \in Tokens, LoseAnswer(a, t) PROVE Forget({a})
  BY <1>8 DEF LoseAnswer
<1>9. ASSUME NEW a \in Calls, RefreshFails(a) \/ LockTimesOut(a) \/ Write(a) \/ WriteFails(a)
      PROVE  Forget({a})
  BY <1>9 DEF RefreshFails, LockTimesOut, Write, WriteFails
<1>10. ASSUME NEW p \in Procs, Crash(p) PROVE Forget(CallsOf(p))
  BY <1>10 DEF Crash
<1> HIDE DEF Holds
<1> QED BY <1>1, <1>2, <1>3, <1>4, <1>5, <1>6, <1>7, <1>8, <1>9, <1>10 DEF Next

\* A call that found the token it loaded still stored presents it for the first
\* time in its process: had another call of the process spent it, its successor
\* would be stored, lost, or on its way to the file by a call that has the key's lock.
LEMMA LookFirst ==
  ASSUME IInv, TokenInv, LatestInv, NEW a \in Calls, LookAgain(a), NEW t \in cur[a],
         stored[key[a]] = cur[a], ProcOf[a] \in spender[t]
  PROVE  t.grant \in lost
<1>1. t \in stored[key[a]] /\ key[a] \in Keys /\ t \in Tokens /\ ProcOf[a] \in Procs
  BY TokenTypes, ProcOfAssumption
<1>2. t.gen < issued[t.grant] /\ t.gen \in Nat
  BY <1>1, TokenTypes DEF TokenInv, SpentInv
<1>3. SUFFICES ASSUME Saving(t.grant) PROVE FALSE
  BY <1>1, <1>2 DEF LatestInv, Covered, Latest
<1>4. PICK c \in Calls : kind[c] = "refresh" /\ \E u \in next[c] : u.grant = t.grant
  BY <1>3 DEF Saving
<1>5. PICK u \in next[c] : u.grant = t.grant
  BY <1>4
<1>6. PICK s \in cur[c] : u = Refreshed(s) /\ spender[s] = {ProcOf[c]}
  BY <1>4 DEF TokenInv, SpentInv
<1>7. /\ s \in Tokens /\ s.gen \in Nat /\ u.gen = s.gen + 1 /\ s.grant = t.grant
      /\ u \in Tokens /\ u.gen \in Nat
  BY <1>5, <1>6, TokenTypes DEF Refreshed, Tokens
<1>8. s.gen <= t.gen
  BY <1>1, <1>7 DEF TokenInv, KnownInv, Same
<1>9. u.gen = issued[t.grant]
  BY <1>5 DEF TokenInv, FlightInv, Latest
<1>10. s.gen = t.gen
  <2>1. issued[t.grant] \in Nat
    BY <1>7, <1>9
  <2> QED BY <1>2, <1>7, <1>8, <1>9, <2>1
<1>11. s = t
  BY <1>1, <1>7, <1>10 DEF Tokens
<1>12. ProcOf[c] = ProcOf[a]
  BY <1>6, <1>11
<1>13. key[c] = key[a]
  BY <1>1, <1>6, <1>11, TokenTypes DEF TokenInv, HomeInv, Lives, Same
<1>14. at[c] \in {"saving", "writing"}
  <2>1. next[c] # {} /\ at[c] \in Steps
    BY <1>5 DEF IInv, CallsOK
  <2> QED BY <2>1 DEF TokenInv, StageInv, Steps
<1>15. c \in Refreshing(ProcOf[a], key[a])
  BY <1>4, <1>12, <1>13, <1>14 DEF Refreshing
<1> QED BY <1>15 DEF LookAgain, KeyLockFree

\* Every step keeps a process from presenting what it spent.
LEMMA StepTwice ==
  IInv /\ TokenInv /\ LatestInv /\ KeyLockInv /\ NotSpentTwice /\ [Next]_vars => NotSpentTwice'
<1> SUFFICES ASSUME IInv, TokenInv, LatestInv, KeyLockInv, NotSpentTwice, [Next]_vars
             PROVE  NotSpentTwice'
  OBVIOUS
\* A step that spends nothing and after which the presenting calls are those of before.
<1>1. ASSUME spender' = spender, lost \subseteq lost',
             \A b \in Calls : at'[b] = "spending" =>
                                at[b] = "spending" /\ seen'[b] = seen[b] /\ cur'[b] = cur[b]
      PROVE  NotSpentTwice'
  BY <1>1 DEF NotSpentTwice
<1>2. ASSUME NEW A, Forget(A)
      PROVE  \A b \in Calls : at'[b] = "spending" =>
                                at[b] = "spending" /\ seen'[b] = seen[b] /\ cur'[b] = cur[b]
  BY <1>2, ForgetHand
<1>3. ASSUME NEW a \in Calls, NEW t \in Tokens, Spend(a, t), lost \subseteq lost', at'[a] # "spending",
             \A b \in Calls : at'[b] = "spending" =>
                                at[b] = "spending" /\ seen'[b] = seen[b] /\ cur'[b] = cur[b]
      PROVE  NotSpentTwice'
  <2> SUFFICES ASSUME NEW b \in Calls, at'[b] = "spending", seen'[b] # {}, NEW s \in cur'[b],
                      ProcOf[b] \in spender'[s]
               PROVE  s.grant \in lost'
    BY DEF NotSpentTwice
  <2>1. /\ b # a /\ at[b] = "spending" /\ seen[b] # {} /\ s \in cur[b]
        /\ \A c \in Calls : cur[c] \subseteq Tokens /\ key[c] \in Keys
    BY <1>3, TokenTypes
  <2>2. t \in cur[a] /\ kind[a] = "refresh" /\ at[a] = "spending"
    BY <1>3, SpendAlone DEF Spend
  <2>3. CASE s # t
    <3>1. ProcOf[b] \in spender[s]
      BY <1>3, <2>1, <2>3, SpendAlone
    <3> QED BY <1>3, <2>1, <3>1 DEF NotSpentTwice
  <2>4. CASE s = t
    <3>1. ProcOf[b] = ProcOf[a]
      BY <1>3, <2>4, SpendAlone
    <3>2. key[b] = key[a]
      BY <2>1, <2>2, <2>4 DEF TokenInv, HomeInv, Lives, Same
    <3>3. kind[b] = "refresh"
      BY <2>1 DEF TokenInv, StageInv
    <3>4. a \in Refreshing(ProcOf[a], key[a]) /\ b \in Refreshing(ProcOf[a], key[a])
      BY <2>1, <2>2, <3>1, <3>2, <3>3 DEF Refreshing
    <3>5. ProcOf[a] \in Procs
      BY ProcOfAssumption
    <3> QED BY <2>1, <3>4, <3>5 DEF KeyLockInv
  <2> QED BY <2>3, <2>4
<1>4. ASSUME NEW a \in Calls, NEW k \in Keys, GetFresh(a, k) \/ Logout(a, k) PROVE NotSpentTwice'
  <2>1. spender' = spender /\ lost' = lost /\ seen' = seen
    BY <1>4 DEF GetFresh, Logout
  <2>2. at'[a] # "spending" /\ \A b \in Calls \ {a} : at'[b] = at[b] /\ cur'[b] = cur[b]
    BY <1>4 DEF GetFresh, Logout, IInv, CallsOK
  <2> QED BY <1>1, <2>1, <2>2
<1>5. ASSUME NEW a \in Calls, NEW k \in Keys, NEW g \in Grants, Login(a, k, g) PROVE NotSpentTwice'
  <2>1. spender' = spender /\ lost' = lost /\ seen' = seen /\ cur' = cur
    BY <1>5 DEF Login
  <2>2. at'[a] # "spending" /\ \A b \in Calls \ {a} : at'[b] = at[b]
    BY <1>5 DEF Login, IInv, CallsOK
  <2> QED BY <1>1, <2>1, <2>2
<1>6. ASSUME NEW a \in Calls, NEW t \in Tokens, Refresh(a, t) PROVE NotSpentTwice'
  <2>1. Spend(a, t) /\ lost' = lost /\ seen' = seen /\ cur' = cur
    BY <1>6 DEF Refresh
  <2>2. at'[a] # "spending" /\ \A b \in Calls \ {a} : at'[b] = at[b]
    BY <1>6 DEF Refresh, IInv, CallsOK
  <2> QED BY <1>3, <2>1, <2>2
<1>7. ASSUME NEW a \in Calls, NEW t \in Tokens, LoseAnswer(a, t) PROVE NotSpentTwice'
  <2>1. Spend(a, t) /\ lost \subseteq lost' /\ Forget({a})
    BY <1>7 DEF LoseAnswer
  <2>2. at'[a] # "spending"
    BY <2>1, ForgetHand
  <2> QED BY <1>2, <1>3, <2>1, <2>2
<1>8. ASSUME NEW a \in Calls, LookAgain(a) PROVE NotSpentTwice'
  <2>0. spender' = spender /\ lost' = lost
    BY <1>8 DEF LookAgain
  <2>1. CASE Forget({a})
    BY <1>1, <1>2, <2>0, <2>1
  <2>2. CASE ~Forget({a})
    <3>1. /\ ~(stored[key[a]] # {} /\ stored[key[a]] # cur[a]) /\ cur' = cur
          /\ seen'[a] = stored[key[a]]
          /\ \A b \in Calls \ {a} : at'[b] = at[b] /\ seen'[b] = seen[b]
      BY <1>8, <2>2 DEF LookAgain, IInv, CallsOK
    <3>2. ASSUME seen'[a] # {}, NEW s \in cur'[a], ProcOf[a] \in spender'[s]
          PROVE  s.grant \in lost'
      BY <1>8, <2>0, <3>1, <3>2, LookFirst
    <3> QED BY <2>0, <3>1, <3>2 DEF NotSpentTwice
  <2> QED BY <2>1, <2>2
<1>9. ASSUME NEW a \in Calls, RefreshFails(a) \/ LockTimesOut(a) \/ Write(a) \/ WriteFails(a)
      PROVE  NotSpentTwice'
  <2>1. Forget({a}) /\ spender' = spender /\ lost \subseteq lost'
    BY <1>9 DEF RefreshFails, LockTimesOut, Write, WriteFails
  <2> QED BY <1>1, <1>2, <2>1
<1>10. ASSUME NEW a \in Calls, LockAndRead(a) PROVE NotSpentTwice'
  <2>1. /\ spender' = spender /\ lost' = lost /\ seen' = seen /\ cur' = cur
        /\ at'[a] # "spending" /\ \A b \in Calls \ {a} : at'[b] = at[b]
    BY <1>10 DEF LockAndRead, IInv, CallsOK
  <2> QED BY <1>1, <2>1
<1>11. ASSUME NEW p \in Procs, Crash(p) PROVE NotSpentTwice'
  <2>1. Forget(CallsOf(p)) /\ spender' = spender /\ lost \subseteq lost'
    BY <1>11 DEF Crash
  <2> QED BY <1>1, <1>2, <2>1
<1>12. ASSUME ReclaimLock \/ UNCHANGED vars PROVE NotSpentTwice'
  BY <1>12 DEF ReclaimLock, vars, callVars, NotSpentTwice
<1> QED BY <1>4, <1>5, <1>6, <1>7, <1>8, <1>9, <1>10, <1>11, <1>12 DEF Next

-----------------------------------------------------------------------------
ManagerInv == IInv /\ TokenInv /\ LatestInv /\ KeyLockInv /\ NotSpentTwice

LEMMA InitTokens == Init => ManagerInv
<1> SUFFICES ASSUME Init PROVE ManagerInv
  OBVIOUS
<1>1. IInv
  BY InitInv
<1>2. /\ \A k \in Keys : stored[k] = {}
      /\ \A a \in Calls : cur[a] = {} /\ next[a] = {} /\ at[a] = "idle" /\ kind[a] = "refresh"
      /\ \A t \in Tokens : spender[t] = {}
  BY DEF Init
<1>3. TokenInv
  BY <1>2 DEF TokenInv, StageInv, HomeInv, Lives, KnownInv, FlightInv, SpentInv
<1>4. LatestInv /\ KeyLockInv /\ NotSpentTwice
  BY <1>2 DEF LatestInv, KeyLockInv, Refreshing, NotSpentTwice
<1> QED BY <1>1, <1>3, <1>4 DEF ManagerInv

\* The whole of it holds always: the file and its lock, what each call knows of the
\* token it has in hand, and the key's lock.
LEMMA AlwaysTokens == Spec => []ManagerInv
<1>1. ManagerInv /\ [Next]_vars => ManagerInv'
  BY StepInv, StepTokens, StepLatest, StepKeyLock, StepTwice DEF ManagerInv
<1> QED BY <1>1, InitTokens, PTL DEF Spec

\* However refreshes, logins and logouts of many processes interleave, fail and die,
\* the token left in the file is one the provider still takes, unless its successor
\* is on its way to the file or was lost on that way (manager.go, refreshAndSave).
THEOREM StoredStaysLatest == Spec => []StoredIsLatest
<1>1. ManagerInv => StoredIsLatest
  BY LatestIs DEF ManagerInv
<1> QED BY <1>1, AlwaysTokens, PTL

\* The key's lock and the second look at the file keep the calls of one process from
\* presenting a token that it spent, unless the answer was lost (refreshAndSave).
THEOREM SpentOnce == Spec => []NotSpentTwice
<1>1. ManagerInv => NotSpentTwice
  BY DEF ManagerInv
<1> QED BY <1>1, AlwaysTokens, PTL

=============================================================================
