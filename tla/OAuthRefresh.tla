---------------------------- MODULE OAuthRefresh ----------------------------
(***************************************************************************)
(* The stored OAuth logins (internal/oauth): several processes share one   *)
(* token file, read without a lock and rewritten whole under a lock file;  *)
(* calls log in and out and refresh a token, and the provider accepts each *)
(* refresh token once.                                                     *)
(*                                                                         *)
(* A token is a grant, which a login gave, and a generation, which a       *)
(* refresh raises.  Time has no measure: a token may need its refresh as   *)
(* soon as it is stored.  A process that holds the lock file is not        *)
(* suspended for the 30 seconds after which its lock counts as stale.      *)
(***************************************************************************)
EXTENDS Integers, FiniteSets

CONSTANTS
  Calls,    \* the goroutines that call the manager
  Procs,    \* processes
  ProcOf,   \* the process of each call
  Keys,     \* provider keys
  Grants,   \* logins the provider can give
  MaxGen    \* bound: refreshes of a grant, the login included

ASSUME ProcOfAssumption == ProcOf \in [Calls -> Procs]
ASSUME MaxGenAssumption == MaxGen \in Nat \ {0}
ASSUME KeysAssumption == Keys # {}

VARIABLES
  stored,  \* the token file: the token of each key, or none
  holder,  \* the call whose lock file exists, or none
  stale,   \* a lock file exists whose process is gone
  issued,  \* provider: the latest generation of each grant, 0 before its login
  at,      \* where each call is
  kind,    \* what it does
  key,     \* the key it is about
  cur,     \* refresh: the token it loaded
  next,    \* the token it saves, or none for a logout
  view,    \* the file as it read it under the lock
  wrote,   \* history: the last change of each key that was written
  spender, \* history: the processes that spent each token
  lost,    \* history: grants whose latest token was issued and not stored
  seen     \* history: refresh: what was stored when the call looked again

callVars == <<at, kind, key, cur, next, view, seen>>
fileVars == <<stored, holder, stale, wrote>>
vars == <<fileVars, issued, callVars, spender, lost>>

-----------------------------------------------------------------------------
Tokens  == [grant : Grants, gen : 1..MaxGen]
Maybe   == {{}} \cup {{t} : t \in Tokens}
Steps   == {"idle", "loaded", "spending", "saving", "writing"}
Kinds   == {"refresh", "login", "logout"}
SomeKey == CHOOSE k \in Keys : TRUE

Init ==
  /\ stored = [k \in Keys |-> {}] /\ wrote = stored
  /\ holder = {} /\ stale = FALSE
  /\ issued = [g \in Grants |-> 0]
  /\ at   = [a \in Calls |-> "idle"]
  /\ kind = [a \in Calls |-> "refresh"]
  /\ key  = [a \in Calls |-> SomeKey]
  /\ cur  = [a \in Calls |-> {}]
  /\ next = [a \in Calls |-> {}]
  /\ view = [a \in Calls |-> stored]
  /\ seen = [a \in Calls |-> {}]
  /\ spender = [t \in Tokens |-> {}]
  /\ lost = {}

Latest(t)    == issued[t.grant] = t.gen
Refreshed(t) == [t EXCEPT !.gen = @ + 1]

\* A call that returns forgets what it knew.
Forget(A) ==
  /\ at'   = [a \in Calls |-> IF a \in A THEN "idle" ELSE at[a]]
  /\ kind' = [a \in Calls |-> IF a \in A THEN "refresh" ELSE kind[a]]
  /\ key'  = [a \in Calls |-> IF a \in A THEN SomeKey ELSE key[a]]
  /\ cur'  = [a \in Calls |-> IF a \in A THEN {} ELSE cur[a]]
  /\ next' = [a \in Calls |-> IF a \in A THEN {} ELSE next[a]]
  /\ view' = [a \in Calls |-> IF a \in A THEN [k \in Keys |-> {}] ELSE view[a]]
  /\ seen' = [a \in Calls |-> IF a \in A THEN {} ELSE seen[a]]

\* The grants whose refreshed token only the calls A know of.
Unsaved(A) == {t.grant : t \in UNION {next[a] : a \in {b \in A : kind[b] = "refresh"}}}

-----------------------------------------------------------------------------
(* GetFresh and Handle401.                                                 *)

\* loadToken takes no lock file.  A token that need not be refreshed is returned
\* and changes nothing.
GetFresh(a, k) ==
  /\ at[a] = "idle" /\ stored[k] # {}
  /\ at'   = [at EXCEPT ![a] = "loaded"]
  /\ kind' = [kind EXCEPT ![a] = "refresh"]
  /\ key'  = [key EXCEPT ![a] = k]
  /\ cur'  = [cur EXCEPT ![a] = stored[k]]
  /\ UNCHANGED <<fileVars, issued, next, view, seen, spender, lost>>

\* keyLock: one refresh of a key at a time in a process.
Refreshing(p, k) ==
  {a \in Calls : /\ ProcOf[a] = p /\ key[a] = k /\ kind[a] = "refresh"
                 /\ at[a] \in {"spending", "saving", "writing"}}
KeyLockFreeMutant(p, k) == TRUE
KeyLockFree(p, k) == Refreshing(p, k) = {}

\* refreshAndSave looks again: a token that has changed is used as it is.
LookAgain(a) ==
  /\ at[a] = "loaded" /\ KeyLockFree(ProcOf[a], key[a])
  /\ IF stored[key[a]] # {} /\ stored[key[a]] # cur[a]
     THEN Forget({a})
     ELSE /\ at'   = [at EXCEPT ![a] = "spending"]
          /\ seen' = [seen EXCEPT ![a] = stored[key[a]]]
          /\ UNCHANGED <<kind, key, cur, next, view>>
  /\ UNCHANGED <<fileVars, issued, spender, lost>>

\* The provider takes the refresh token: it is spent.
Spend(a, t) ==
  /\ at[a] = "spending" /\ cur[a] = {t}
  /\ Latest(t) /\ t.gen < MaxGen
  /\ issued'  = [issued EXCEPT ![t.grant] = t.gen + 1]
  /\ spender' = [spender EXCEPT ![t] = @ \cup {ProcOf[a]}]

RefreshMutant(a, t) ==
  /\ Spend(a, t)
  /\ next' = [next EXCEPT ![a] = {t}]
  /\ at'   = [at EXCEPT ![a] = "saving"]
  /\ UNCHANGED <<fileVars, kind, key, cur, view, seen, lost>>
Refresh(a, t) ==
  /\ Spend(a, t)
  /\ next' = [next EXCEPT ![a] = {Refreshed(t)}]
  /\ at'   = [at EXCEPT ![a] = "saving"]
  /\ UNCHANGED <<fileVars, kind, key, cur, view, seen, lost>>

\* It is spent and the answer does not arrive.
LoseAnswer(a, t) ==
  /\ Spend(a, t)
  /\ lost' = lost \cup {t.grant}
  /\ Forget({a})
  /\ UNCHANGED fileVars

\* The token was spent before, or the provider was not reached.
RefreshFails(a) ==
  /\ at[a] = "spending"
  /\ Forget({a})
  /\ UNCHANGED <<fileVars, issued, spender, lost>>

-----------------------------------------------------------------------------
(* Login and Logout.  Neither takes the key's lock.                        *)

Login(a, k, g) ==
  /\ at[a] = "idle" /\ issued[g] = 0
  /\ issued' = [issued EXCEPT ![g] = 1]
  /\ at'   = [at EXCEPT ![a] = "saving"]
  /\ kind' = [kind EXCEPT ![a] = "login"]
  /\ key'  = [key EXCEPT ![a] = k]
  /\ next' = [next EXCEPT ![a] = {[grant |-> g, gen |-> 1]}]
  /\ UNCHANGED <<fileVars, cur, view, seen, spender, lost>>

Logout(a, k) ==
  /\ at[a] = "idle" /\ stored[k] # {}
  /\ at'   = [at EXCEPT ![a] = "saving"]
  /\ kind' = [kind EXCEPT ![a] = "logout"]
  /\ key'  = [key EXCEPT ![a] = k]
  /\ UNCHANGED <<fileVars, issued, cur, next, view, seen, spender, lost>>

-----------------------------------------------------------------------------
(* Store.Save and Store.Delete.  Store.mu is taken around the lock file, so *)
(* it adds no order to that of the lock file.                              *)

LockFreeMutant == TRUE
LockFree == holder = {} /\ ~stale

LockAndRead(a) ==
  /\ at[a] = "saving" /\ LockFree
  /\ holder' = {a}
  /\ view' = [view EXCEPT ![a] = stored]
  /\ at'   = [at EXCEPT ![a] = "writing"]
  /\ UNCHANGED <<stored, stale, wrote, issued, kind, key, cur, next, seen, spender, lost>>

\* The wait for a lock file of another process, or of one that is gone, ends
\* after 5 seconds; a call of the same process is waited for at Store.mu.
LockTimesOut(a) ==
  /\ at[a] = "saving" /\ ~LockFree
  /\ \A b \in holder : ProcOf[b] # ProcOf[a]
  /\ lost' = lost \cup Unsaved({a})
  /\ Forget({a})
  /\ UNCHANGED <<fileVars, issued, spender>>

Write(a) ==
  /\ at[a] = "writing"
  /\ stored' = [view[a] EXCEPT ![key[a]] = next[a]]
  /\ wrote'  = [wrote EXCEPT ![key[a]] = next[a]]
  /\ holder' = {}
  /\ Forget({a})
  /\ UNCHANGED <<stale, issued, spender, lost>>

\* The temporary file cannot be written or renamed.
WriteFails(a) ==
  /\ at[a] = "writing"
  /\ holder' = {}
  /\ lost' = lost \cup Unsaved({a})
  /\ Forget({a})
  /\ UNCHANGED <<stored, stale, wrote, issued, spender>>

-----------------------------------------------------------------------------
CallsOf(p) == {a \in Calls : ProcOf[a] = p}

Crash(p) ==
  /\ \E a \in CallsOf(p) : at[a] # "idle"
  /\ lost'   = lost \cup Unsaved(CallsOf(p))
  /\ stale'  = (stale \/ holder \cap CallsOf(p) # {})
  /\ holder' = holder \ CallsOf(p)
  /\ Forget(CallsOf(p))
  /\ UNCHANGED <<stored, wrote, issued, spender>>

\* acquireFileLock, by whoever waits for it.
ReclaimLock ==
  /\ stale /\ stale' = FALSE
  /\ UNCHANGED <<stored, holder, wrote, issued, callVars, spender, lost>>

Next ==
  \/ \E a \in Calls, k \in Keys : GetFresh(a, k) \/ Logout(a, k)
  \/ \E a \in Calls, k \in Keys, g \in Grants : Login(a, k, g)
  \/ \E a \in Calls, t \in Tokens : Refresh(a, t) \/ LoseAnswer(a, t)
  \/ \E a \in Calls : LookAgain(a) \/ RefreshFails(a)
  \/ \E a \in Calls : LockAndRead(a) \/ LockTimesOut(a) \/ Write(a) \/ WriteFails(a)
  \/ \E p \in Procs : Crash(p)
  \/ ReclaimLock

Spec == Init /\ [][Next]_vars

-----------------------------------------------------------------------------
TypeOK ==
  /\ stored \in [Keys -> Maybe] /\ wrote \in [Keys -> Maybe]
  /\ holder \in SUBSET Calls /\ Cardinality(holder) <= 1 /\ stale \in BOOLEAN
  /\ issued \in [Grants -> 0..MaxGen]
  /\ at \in [Calls -> Steps] /\ kind \in [Calls -> Kinds] /\ key \in [Calls -> Keys]
  /\ cur \in [Calls -> Maybe] /\ next \in [Calls -> Maybe] /\ seen \in [Calls -> Maybe]
  /\ view \in [Calls -> [Keys -> Maybe]]
  /\ spender \in [Tokens -> SUBSET Procs] /\ lost \in SUBSET Grants
  /\ \A a \in Calls : at[a] = "writing" <=> a \in holder

\* Rewriting the whole file for one key never takes back what another call, of this
\* process or another, wrote for any key (store.go, Save and Delete).
NoUpdateLost == stored = wrote

\* The stored token is one the provider still takes, except while a refreshed one is
\* on its way into the file or when it was lost on that way: two processes that
\* refresh at once never leave a spent token behind (manager.go, refreshAndSave).
StoredIsLatest ==
  \A t \in UNION {stored[k] : k \in Keys} :
    Latest(t) \/ t.grant \in lost \/ t.grant \in Unsaved(Calls)

\* A call that is about to present the stored token is not presenting one its own
\* process has already spent, unless the answer to that was lost: "reuse it rather
\* than spending the single-use refresh token a second time" (manager.go,
\* refreshAndSave).  A call that found nothing stored presents what it had loaded.
NotSpentTwice ==
  \A a \in Calls : at[a] = "spending" /\ seen[a] # {} =>
    \A t \in cur[a] : ProcOf[a] \in spender[t] => t.grant \in lost

\* A key that was logged out of stays so until the next login (docs: logout clears
\* the token).
LogoutSticks ==
  [][\A k \in Keys : stored[k] = {} /\ stored'[k] # {} =>
       \E a \in Calls : kind[a] = "login" /\ at[a] = "writing" /\ at'[a] = "idle"]_vars

=============================================================================
