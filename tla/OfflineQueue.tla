---------------------------- MODULE OfflineQueue ----------------------------
(***************************************************************************)
(* The offline action queue of frontend/src/lib/offlineQueue.ts with the   *)
(* conflict resolver of syncConflictResolver.ts.  Actions of the user are  *)
(* stored in IndexedDB, which all tabs of the browser share; each tab runs *)
(* passes over the actions it finds pending, sending one after another to  *)
(* the server and recording in IndexedDB what came of it.  What a tab      *)
(* keeps in memory (isOnline, syncInProgress, the pass it is in, the       *)
(* conflicts it found) is gone when the page is closed or reloaded.        *)
(***************************************************************************)
EXTENDS Integers, FiniteSets

CONSTANTS
  Tabs,
  Actions,      \* the actions users may queue, each with a fresh id
  MaxRetries,   \* the 5 of syncPendingActions
  MaxReloads,   \* bound: how often pages are reloaded
  Resolving     \* bound: the tabs in which the user resolves conflicts

ASSUME QueueAssumption ==
  /\ MaxRetries \in Nat \ {0}
  /\ MaxReloads \in Nat
  /\ IsFiniteSet(Tabs)
  /\ Resolving \subseteq Tabs

VARIABLES
  stored,     \* IndexedDB: what is recorded of each action
  retries,    \* IndexedDB: retryCount, no further than MaxRetries
  older,      \* IndexedDB, the timestamps: the actions queued before each one
  sent,       \* the server: how often it carried out the action
  online, syncing, step, todo, conflicts,   \* per tab
  reloads

store == <<stored, retries, older>>
tabs == <<online, syncing, step, todo, conflicts>>
queueVars == <<store, sent, tabs, reloads>>

\* Where a tab is in syncPendingActions.
Steps == {"rest", "load", "next", "call", "applied", "ok", "error"}

\* What a pass remembers of an action: its id, and whether retryCount was spent
\* when the pass read it.
Entries == [id : Actions, spent : BOOLEAN]

QueueTypeOK ==
  /\ stored \in [Actions -> {"none", "pending", "synced", "deleted"}]
  /\ retries \in [Actions -> 0..MaxRetries]
  /\ older \in [Actions -> SUBSET Actions]
  /\ sent \in [Actions -> Nat]
  /\ online \in [Tabs -> BOOLEAN]
  /\ syncing \in [Tabs -> BOOLEAN]
  /\ step \in [Tabs -> Steps]
  /\ todo \in [Tabs -> SUBSET Entries]
  /\ conflicts \in [Tabs -> SUBSET Actions]
  /\ reloads \in 0..MaxReloads

QueueInit ==
  /\ stored = [a \in Actions |-> "none"]
  /\ retries = [a \in Actions |-> 0]
  /\ older = [a \in Actions |-> {}]
  /\ sent = [a \in Actions |-> 0]
  /\ online \in [Tabs -> BOOLEAN]
  /\ syncing = [t \in Tabs |-> FALSE]
  /\ step = [t \in Tabs |-> "rest"]
  /\ todo = [t \in Tabs |-> {}]
  /\ conflicts = [t \in Tabs |-> {}]
  /\ reloads = 0

Pending(a) == stored[a] = "pending"

-----------------------------------------------------------------------------
(* IndexedDB transactions: get and put, nothing if the action is gone *)

Exists(a) == stored[a] \in {"pending", "synced"}

MarkSynced(a) ==
  /\ stored' = IF Exists(a) THEN [stored EXCEPT ![a] = "synced"] ELSE stored
  /\ UNCHANGED <<retries, older>>

Counted(n)    == IF n < MaxRetries THEN n + 1 ELSE n
CountedDown(n) == n - 1
CountRetry(n) == Counted(n)

MarkError(a) ==
  /\ retries' = IF Exists(a) THEN [retries EXCEPT ![a] = CountRetry(@)] ELSE retries
  /\ UNCHANGED <<stored, older>>

Delete(a) ==
  /\ stored' = IF Exists(a) THEN [stored EXCEPT ![a] = "deleted"] ELSE stored
  /\ UNCHANGED <<retries, older>>

-----------------------------------------------------------------------------
(* A pass *)

\* The re-entrance guard left out: a second pass starts over the first.
BeginPassAgain(t, up) ==
  IF up THEN /\ syncing' = [syncing EXCEPT ![t] = TRUE]
             /\ step' = [step EXCEPT ![t] = "load"]
        ELSE UNCHANGED <<syncing, step>>

\* syncPendingActions returns at once if offline or already under way.  `up` is
\* isOnline as the caller leaves it.
BeginPass(t, up) ==
  IF up /\ ~syncing[t]
    THEN /\ syncing' = [syncing EXCEPT ![t] = TRUE]
         /\ step' = [step EXCEPT ![t] = "load"]
    ELSE UNCHANGED <<syncing, step>>

AddAction(t, a) ==
  /\ stored[a] = "none"
  /\ stored' = [stored EXCEPT ![a] = "pending"]
  /\ older' = [older EXCEPT ![a] = {b \in Actions : stored[b] # "none"}]
  /\ BeginPass(t, online[t])
  /\ UNCHANGED <<retries, sent, online, todo, conflicts, reloads>>

GoOnline(t) ==
  /\ ~online[t]
  /\ online' = [online EXCEPT ![t] = TRUE]
  /\ BeginPass(t, TRUE)
  /\ UNCHANGED <<store, sent, todo, conflicts, reloads>>

GoOffline(t) ==
  /\ online[t]
  /\ online' = [online EXCEPT ![t] = FALSE]
  /\ UNCHANGED <<store, sent, syncing, step, todo, conflicts, reloads>>

\* The user's "sync now"; it throws when offline.
ManualSync(t) ==
  /\ online[t]
  /\ BeginPass(t, TRUE)
  /\ UNCHANGED <<store, sent, online, todo, conflicts, reloads>>

Load(t) ==
  /\ step[t] = "load"
  /\ todo' = [todo EXCEPT ![t] = {[id |-> a, spent |-> retries[a] >= MaxRetries] :
                                    a \in {b \in Actions : Pending(b)}}]
  /\ step' = [step EXCEPT ![t] = "next"]
  /\ UNCHANGED <<store, sent, online, syncing, conflicts, reloads>>

\* The pass works on the pending actions, oldest first.
NewestFirst(t, e) == e \in todo[t] /\ \A other \in todo[t] \ {e} : other.id \in older[e.id]
IsNext(t, e) == e \in todo[t] /\ \A other \in todo[t] \ {e} : e.id \in older[other.id]

Advance(t, e) ==
  /\ todo' = [todo EXCEPT ![t] = @ \ {e}]
  /\ step' = [step EXCEPT ![t] = "next"]
  /\ UNCHANGED <<sent, online, syncing, conflicts, reloads>>

\* An action with too many retries is skipped.
Skip(t, e) ==
  /\ step[t] = "next" /\ IsNext(t, e) /\ e.spent
  /\ MarkError(e.id)
  /\ Advance(t, e)

Call(t, e) ==
  /\ step[t] = "next" /\ IsNext(t, e) /\ ~e.spent
  /\ step' = [step EXCEPT ![t] = "call"]
  /\ UNCHANGED <<store, sent, online, syncing, todo, conflicts, reloads>>

\* The server carries out the action.
Apply(t, e) ==
  /\ step[t] = "call" /\ IsNext(t, e)
  /\ sent' = [sent EXCEPT ![e.id] = @ + 1]
  /\ step' = [step EXCEPT ![t] = "applied"]
  /\ UNCHANGED <<store, online, syncing, todo, conflicts, reloads>>

Succeed(t) ==
  /\ step[t] = "applied"
  /\ step' = [step EXCEPT ![t] = "ok"]
  /\ UNCHANGED <<store, sent, online, syncing, todo, conflicts, reloads>>

\* The server refuses, the call or its reply is lost, or the reply has no JSON.
CallFails(t) ==
  /\ step[t] \in {"call", "applied"}
  /\ step' = [step EXCEPT ![t] = "error"]
  /\ UNCHANGED <<store, sent, online, syncing, todo, conflicts, reloads>>

RecordSuccess(t, e) ==
  /\ step[t] = "ok" /\ IsNext(t, e)
  /\ MarkSynced(e.id)
  /\ Advance(t, e)

RecordErrorAsSuccess(t, e) ==
  /\ step[t] = "error" /\ IsNext(t, e)
  /\ MarkSynced(e.id)
  /\ Advance(t, e)

RecordError(t, e) ==
  /\ step[t] = "error" /\ IsNext(t, e)
  /\ MarkError(e.id)
  /\ Advance(t, e)

\* clearSyncedActions rejects, true being no IndexedDB key: nothing is cleared
\* and the assignment after it, syncInProgress = false, is not reached.
EndPass(t) ==
  /\ step[t] = "next" /\ todo[t] = {}
  /\ step' = [step EXCEPT ![t] = "rest"]
  /\ UNCHANGED <<store, sent, online, syncing, todo, conflicts, reloads>>

\* The page goes and comes back; a call under way may still be carried out.
Reload(t) ==
  /\ reloads < MaxReloads
  /\ reloads' = reloads + 1
  /\ \/ UNCHANGED sent
     \/ \E e \in todo[t] : /\ step[t] = "call" /\ IsNext(t, e)
                           /\ sent' = [sent EXCEPT ![e.id] = @ + 1]
  /\ \E up \in BOOLEAN : online' = [online EXCEPT ![t] = up]
  /\ syncing' = [syncing EXCEPT ![t] = FALSE]
  /\ step' = [step EXCEPT ![t] = "rest"]
  /\ todo' = [todo EXCEPT ![t] = {}]
  /\ conflicts' = [conflicts EXCEPT ![t] = {}]
  /\ UNCHANGED store

-----------------------------------------------------------------------------
(* The conflict resolver *)

\* Which pending actions conflict depends on the server's data.
DetectConflicts(t) ==
  /\ t \in Resolving
  /\ \E found \in SUBSET {a \in Actions : Pending(a)} :
       conflicts' = [conflicts EXCEPT ![t] = @ \cup found]
  /\ UNCHANGED <<store, sent, online, syncing, step, todo, reloads>>

\* keep_local marks the action synced; keep_server deletes it; so does merge,
\* whose data is not queued again; skip counts as an error.
Resolve(t, a) ==
  /\ a \in conflicts[t]
  /\ conflicts' = [conflicts EXCEPT ![t] = @ \ {a}]
  /\ MarkSynced(a) \/ Delete(a) \/ MarkError(a)
  /\ UNCHANGED <<sent, online, syncing, step, todo, reloads>>

-----------------------------------------------------------------------------

PassStep(t) ==
  \/ Load(t) \/ Succeed(t) \/ CallFails(t) \/ EndPass(t)
  \/ \E e \in todo[t] : Skip(t, e) \/ Call(t, e) \/ RecordSuccess(t, e) \/ RecordError(t, e)

Carry(t) == \E e \in todo[t] : Apply(t, e)

QueueNext ==
  \E t \in Tabs :
    \/ GoOnline(t) \/ GoOffline(t) \/ ManualSync(t)
    \/ PassStep(t) \/ Carry(t) \/ Reload(t)
    \/ DetectConflicts(t)
    \/ \E a \in Actions : AddAction(t, a) \/ Resolve(t, a)

QueueSpec == QueueInit /\ [][QueueNext]_queueVars

\* Scripts and calls go on, and the network always comes back.
FairQueueSpec ==
  QueueSpec /\ \A t \in Tabs : WF_queueVars(PassStep(t) \/ Carry(t)) /\ WF_queueVars(GoOnline(t))

-----------------------------------------------------------------------------
(* Properties *)

\* An action is not carried out while one queued before it (the creation of what
\* it updates) still waits for its first attempt.
InOrderUnlessFailed ==
  \A a, b \in Actions :
    a \in older[b] /\ sent[b] > 0 => sent[a] > 0 \/ retries[a] > 0 \/ ~Pending(a)

\* However many tabs pass over the same stored actions, and whatever becomes of
\* the calls, a page has the server carry out an action at most once between
\* two loads: only another tab or a reload can repeat it.
OncePerPage ==
  \A a \in Actions : sent[a] <= Cardinality(Tabs) + reloads

\* An action leaves the pending state because the server carried it out or
\* because the user resolved its conflict, never by a pass that failed, was
\* overtaken by another tab or worked on an outdated snapshot.
SettledBySendOrUser ==
  [][\A a \in Actions :
       Pending(a) /\ stored'[a] # "pending"
         => sent[a] > 0 \/ \E t \in Tabs : a \in conflicts[t] \ conflicts'[t]]_queueVars

\* "Stores user actions in IndexedDB when offline and syncs when network
\* returns": in an open page, what is pending is sent or given up.
SyncsWhenNetworkReturns ==
  \A a \in Actions : Pending(a) ~> (~Pending(a) \/ retries[a] >= MaxRetries)
=============================================================================
