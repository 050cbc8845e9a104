---------------------------- MODULE CalendarSync ----------------------------
(***************************************************************************)
(* Copying one connected calendar into `events`: sync_user_calendar        *)
(* (backend/services/sync_engine.py), CalendarSyncProvider.sync, the       *)
(* listings of Google and Microsoft Graph and simple_upsert_event.  The    *)
(* sync button, the availability pages, the assistant and Celery all start *)
(* syncs, and nothing keeps two of them apart.                             *)
(*                                                                         *)
(* A change of the calendar is known by its place in the provider's log; a *)
(* sync token is the number of changes it has seen, and a row is known by  *)
(* the change it was copied from.  Left out: access tokens                 *)
(* (ensure_valid_token), the audit log, and Microsoft's window of 120 days.*)
(***************************************************************************)
EXTENDS Integers, Sequences, FiniteSets

CONSTANTS
  Events,      \* events of the calendar at the provider
  Runs,        \* syncs in progress at once
  PageSize,    \* events on a page of Google's listing
  MaxChanges,  \* bound on the changes made at the provider
  MaxFaults    \* bound on the syncs that fail

ASSUME SyncAssumption ==
  /\ PageSize \in Nat /\ MaxChanges \in Nat /\ MaxFaults \in Nat

VARIABLES
  provider,  \* whose calendar it is
  log,       \* the changes made at the provider
  horizon,   \* sync tokens older than this one are answered with 410
  token,     \* sync_token of the connected account
  rows,      \* live rows copied from each change: none, one or several
  run,       \* the syncs
  faults,    \* syncs that have failed
  undone     \* history: changes whose row went because of an older cancellation

vars == <<provider, log, horizon, token, rows, run, faults, undone>>

NoToken == -1
Several == 2
Places  == 1..MaxChanges
Tokens  == NoToken..MaxChanges
Changes == [event: Events, kind: {"put", "cancelled"}]

Idle == [phase |-> "idle", base |-> NoToken, items |-> {}, next |-> NoToken]

TypeOK ==
  /\ provider \in {"google", "microsoft"}
  /\ log \in Seq(Changes) /\ Len(log) <= MaxChanges
  /\ horizon \in 0..Len(log)
  /\ token \in NoToken..Len(log)
  /\ rows \in [Places -> 0..Several]
  /\ run \in [Runs -> [phase: {"idle", "loaded", "applying"}, base: Tokens,
                       items: SUBSET Places, next: Tokens]]
  /\ faults \in 0..MaxFaults
  /\ undone \subseteq Places

Init ==
  /\ provider \in {"google", "microsoft"}
  /\ log = <<>>
  /\ horizon = 0
  /\ token = NoToken
  /\ rows = [i \in Places |-> 0]
  /\ run = [r \in Runs |-> Idle]
  /\ faults = 0
  /\ undone = {}

-----------------------------------------------------------------------------
(* The calendar at the provider *)

Latest == {i \in DOMAIN log : \A j \in DOMAIN log : j > i => log[j].event # log[i].event}
Live == {i \in Latest : log[i].kind = "put"}

\* An event is created, edited or restored, or it is cancelled.
Change(change) ==
  /\ Len(log) < MaxChanges
  /\ change.kind = "cancelled" => \E i \in Live : log[i].event = change.event
  /\ log' = Append(log, change)
  /\ UNCHANGED <<provider, horizon, token, rows, run, faults, undone>>

Expire ==
  /\ horizon' \in (horizon + 1)..Len(log)
  /\ UNCHANGED <<provider, log, token, rows, run, faults, undone>>

-----------------------------------------------------------------------------
(* What fetch_events answers *)

Reply(items, next) == [items |-> items, next |-> next]
WholeCalendar == {Reply(Live, Len(log))}
ChangesSince(t) == {Reply({i \in Latest : i > t}, Len(log))}

\* Google's 410 is answered with one page of the whole calendar; the sync token
\* is on the last page only.
PageWithToken ==
  {Reply(page, Len(log)) : page \in {p \in SUBSET Live : Cardinality(p) <= PageSize}}
FirstPage ==
  IF Cardinality(Live) <= PageSize
    THEN WholeCalendar
    ELSE {Reply(page, NoToken) : page \in {p \in SUBSET Live : Cardinality(p) = PageSize}}

\* Microsoft's 410 starts the listing again.
NothingAgain == {Reply({}, NoToken)}
Again == WholeCalendar

Replies(t) ==
  CASE t = NoToken -> WholeCalendar
    [] t # NoToken /\ t >= horizon -> ChangesSince(t)
    [] t # NoToken /\ t < horizon -> IF provider = "google" THEN FirstPage ELSE Again

-----------------------------------------------------------------------------
(* A sync *)

Step(r, record) == run' = [run EXCEPT ![r] = record]

\* It loads the account, with the sync token as it is now.
Load(r) ==
  /\ run[r].phase = "idle"
  /\ Step(r, [Idle EXCEPT !.phase = "loaded", !.base = token])
  /\ UNCHANGED <<provider, log, horizon, token, rows, faults, undone>>

Fetch(r) ==
  /\ run[r].phase = "loaded"
  /\ \E reply \in Replies(run[r].base) :
       Step(r, [run[r] EXCEPT !.phase = "applying", !.items = reply.items, !.next = reply.next])
  /\ UNCHANGED <<provider, log, horizon, token, rows, faults, undone>>

OneMore(n) == IF n = 0 THEN 1 ELSE Several
OneLess(n) == IF n = Several THEN {1, Several} ELSE {n - 1}

\* simple_upsert_event always inserts: the query for the row to update has
\* `not EventTable.is_deleted` in its WHERE, which Python evaluates to False.
Upserted(items) ==
  [i \in Places |-> IF i \in items /\ log[i].kind = "put" THEN OneMore(rows[i]) ELSE rows[i]]

Copies(event) == {j \in DOMAIN log : log[j].event = event /\ rows[j] > 0}

\* The events are worked through in the order of the listing, which may be any.
\* At a cancelled one, the first live row of the event, of whatever change, is
\* soft deleted, and soft_delete() commits that with the rows added before.
Cancel(r) ==
  /\ run[r].phase = "applying"
  /\ \E i \in run[r].items, before \in SUBSET run[r].items :
       /\ log[i].kind = "cancelled"
       /\ \A k \in before : log[k].kind = "put"
       /\ \/ /\ Copies(log[i].event) = {}
             /\ before = {}
             /\ UNCHANGED <<rows, undone>>
          \/ \E j \in Copies(log[i].event) :
               /\ \E n \in OneLess(rows[j]) : rows' = [Upserted(before) EXCEPT ![j] = n]
               /\ undone' = IF j > i THEN undone \cup {j} ELSE undone
       /\ Step(r, [run[r] EXCEPT !.items = @ \ (before \cup {i})])
  /\ UNCHANGED <<provider, log, horizon, token, faults>>

\* The rows and the sync token are committed together, the token only if it is
\* another one than was loaded.
Commit(r) ==
  /\ run[r].phase = "applying"
  /\ \A i \in run[r].items : log[i].kind = "put"
  /\ rows' = Upserted(run[r].items)
  /\ token' = IF run[r].next \in {NoToken, run[r].base} THEN token ELSE run[r].next
  /\ Step(r, Idle)
  /\ UNCHANGED <<provider, log, horizon, faults, undone>>

\* The provider, the database or the process fails: what was not committed is
\* rolled back.
Fail(r) ==
  /\ run[r].phase # "idle"
  /\ faults < MaxFaults
  /\ faults' = faults + 1
  /\ Step(r, Idle)
  /\ UNCHANGED <<provider, log, horizon, token, rows, undone>>

Sync(r) == Fetch(r) \/ Cancel(r) \/ Commit(r)

Next ==
  \/ \E change \in Changes : Change(change)
  \/ Expire
  \/ \E r \in Runs : Load(r) \/ Sync(r) \/ Fail(r)

Spec == Init /\ [][Next]_vars

\* The pages that need the calendar are opened again and again, and a sync that
\* was started runs to its end.
FairSpec == Spec /\ \A r \in Runs : WF_vars(Load(r)) /\ WF_vars(Sync(r))

-----------------------------------------------------------------------------
(* Properties *)

Imported(i) == rows[i] > 0 \/ i \in undone

\* The sync token never runs ahead of the rows: every event that was changed
\* last at or before the token has a row with that change, however syncs
\* overlap, overwrite each other's token and fail half-way.  The exception is a
\* restored event whose new row fell to a sync that still saw the cancellation.
NothingMissed == \A i \in Live : i <= token => Imported(i)

\* Google's answer to an old token, when the calendar does not fit one page: no
\* new token comes with it, so every later sync gets the same page again.
OnePageForEver == provider = "google" /\ token < horizon /\ Cardinality(Live) > PageSize

\* Every event gets its row in the end.
EventuallyImported == []<>(OnePageForEver \/ \A i \in Live : Imported(i))
=============================================================================
