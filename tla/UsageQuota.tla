----------------------------- MODULE UsageQuota -----------------------------
(***************************************************************************)
(* The daily counters of one row of `users` (backend/services/usage.py)    *)
(* and the three kinds of request that charge them: POST /calendar/sync,   *)
(* POST /ai/chat and POST /ai/stream.  /calendar/sync and /ai/stream check *)
(* the limit first; /ai/chat does not.  /calendar/sync and /ai/chat commit *)
(* their charge; /ai/stream ends its session without a commit.             *)
(*                                                                         *)
(* A request loads the row once and keeps that copy (its session maps each *)
(* row to one object) while it works.  The first request of a day resets   *)
(* the counters in its own transaction: it holds the row from then on, and *)
(* others see the old row until it commits.  A charge is an UPDATE that    *)
(* adds to the row as it is, but whether the day is over is judged by the  *)
(* copy.  A day is the number of midnights passed, and quota_reset_at the  *)
(* day on which a reset is due.                                            *)
(***************************************************************************)
EXTENDS Integers, FiniteSets

CONSTANTS
  Requests,    \* requests in progress at once
  NoRequest,   \* nobody holds the row
  Limits,      \* the daily limits the plans of this instance give
  MaxDay,      \* the calendar stops here
  MaxCharges   \* charges per counter and day in this instance

ASSUME QuotaAssumption ==
  /\ NoRequest \notin Requests
  /\ IsFiniteSet(Requests) /\ Requests # {}
  /\ Limits \subseteq Nat
  /\ MaxDay \in Nat
  /\ MaxCharges \in Nat

Features == {"ai", "sync"}
Routes == {"sync", "chat", "stream"}
Charges(route) == IF route = "sync" THEN "sync" ELSE "ai"
Checked == {"sync", "stream"}

VARIABLES
  day,
  row,        \* committed: the counters and the day a reset is due
  draft,      \* what the holder's transaction has written so far
  holder,     \* the request whose transaction holds the row
  limit,      \* daily_ai_limit / daily_sync_limit
  req,        \* per request: place, route, and its copy of the row
  charged,    \* history: charges of today, by requests whose copy is of today
  topLimit,   \* history: the highest limit in force today
  misjudged   \* history: a reset today went by a copy the row had left behind

vars == <<day, row, draft, holder, limit, req, charged, topLimit, misjudged>>

Counts == [Features -> 0..MaxCharges]
Rows == [count: Counts, reset: 0..(MaxDay + 1)]
Places == {"idle", "resetting", "working"}
Zero == [f \in Features |-> 0]
NewRow == [count |-> Zero, reset |-> 0]
Idle == [at |-> "idle", route |-> "sync", copy |-> NewRow, next |-> 0]

TypeOK ==
  /\ day \in 0..MaxDay
  /\ row \in Rows
  /\ draft \in Rows
  /\ holder \in Requests \cup {NoRequest}
  /\ limit \in Limits
  /\ req \in [Requests -> [at: Places, route: Routes, copy: Rows, next: 0..(MaxDay + 1)]]
  /\ charged \in Counts
  /\ topLimit \in Limits
  /\ misjudged \in BOOLEAN

Init ==
  /\ day = 0
  /\ row = NewRow
  /\ draft = NewRow
  /\ holder = NoRequest
  /\ limit \in Limits
  /\ req = [r \in Requests |-> Idle]
  /\ charged = Zero
  /\ topLimit = limit
  /\ misjudged = FALSE

-----------------------------------------------------------------------------
(* The environment *)

Midnight ==
  /\ day < MaxDay
  /\ day' = day + 1
  /\ charged' = Zero
  /\ topLimit' = limit
  /\ misjudged' = FALSE
  /\ UNCHANGED <<row, draft, holder, limit, req>>

\* Billing gives the account another plan.
ChangePlan ==
  /\ limit' \in Limits
  /\ topLimit' = IF limit' > topLimit THEN limit' ELSE topLimit
  /\ UNCHANGED <<day, row, draft, holder, req, charged, misjudged>>

-----------------------------------------------------------------------------
(* get_user_quota and check_usage_limit *)

Due(copy) == day >= copy.reset

WithinOneOver(route, copy) == copy.count[Charges(route)] <= limit
Within(route, copy) == copy.count[Charges(route)] < limit

Admits(route, copy) == route \in Checked => Within(route, copy)

\* 429 when the copy has reached the limit; nothing is kept of the request then.
Begin(r) ==
  /\ req[r].at = "idle"
  /\ \E route \in Routes :
       LET due == route \in Checked /\ Due(row)
       IN  /\ due \/ Admits(route, row)
           /\ req' = [req EXCEPT ![r] = [at |-> IF due THEN "resetting" ELSE "working",
                                         route |-> route, copy |-> row, next |-> day + 1]]
  /\ UNCHANGED <<day, row, draft, holder, limit, charged, topLimit, misjudged>>

\* The session sends a counter only when the copy was not 0 already.
ResetBy(copy, next, base) ==
  [count |-> [f \in Features |-> IF copy.count[f] # 0 THEN 0 ELSE base.count[f]],
   reset |-> next]

\* The next midnight is worked out before the UPDATE waits for the row.
Reset(r) ==
  /\ req[r].at = "resetting"
  /\ holder = NoRequest
  /\ LET new == ResetBy(req[r].copy, req[r].next, row)
     IN  IF Admits(req[r].route, new)
           THEN /\ holder' = r
                /\ draft' = new
                /\ req' = [req EXCEPT ![r].at = "working", ![r].copy = new]
                /\ misjudged' = (misjudged \/ req[r].copy # row)
           ELSE req' = [req EXCEPT ![r] = Idle] /\ UNCHANGED <<draft, holder, misjudged>>
  /\ UNCHANGED <<day, row, limit, charged, topLimit>>

-----------------------------------------------------------------------------
(* increment_usage and the end of the request *)

MayWrite(r) == holder \in {NoRequest, r}
Seen(r) == IF holder = r THEN draft ELSE row

\* The transaction ends, with or without its changes.
Leave(r) ==
  /\ holder' = IF holder = r THEN NoRequest ELSE holder
  /\ req' = [req EXCEPT ![r] = Idle]
  /\ UNCHANGED draft

PlusOneFromCopy(r, base, f) == [base EXCEPT !.count[f] = req[r].copy.count[f] + 1]
PlusOne(r, base, f) == [base EXCEPT !.count[f] = @ + 1]

\* After the addition get_user_quota looks at the copy, to which the addition
\* was applied too, and sets everything back when its day is over.
SyncCharged(r) ==
  LET added == PlusOne(r, Seen(r), "sync")
  IN  IF Due(req[r].copy)
        THEN ResetBy(PlusOne(r, req[r].copy, "sync"), day + 1, added)
        ELSE added

\* The tokens are charged first, and it is then that the copy is looked at.
ChatCharged(r) ==
  PlusOne(r, IF Due(req[r].copy) THEN ResetBy(req[r].copy, day + 1, row) ELSE row, "ai")

Note(f, counts) ==
  /\ charged' = IF counts THEN [charged EXCEPT ![f] = @ + 1] ELSE charged
  /\ charged'[f] <= MaxCharges

NoteReset(r) ==
  misjudged' = (misjudged \/ (Due(req[r].copy) /\ req[r].copy # Seen(r)))

ChargeSync(r) ==
  /\ req[r].at = "working" /\ req[r].route = "sync"
  /\ MayWrite(r)
  /\ row' = SyncCharged(r)
  /\ row'.count["sync"] <= MaxCharges
  /\ Note("sync", ~Due(req[r].copy))
  /\ NoteReset(r)
  /\ Leave(r)
  /\ UNCHANGED <<day, limit, topLimit>>

ChargeChat(r) ==
  /\ req[r].at = "working" /\ req[r].route = "chat"
  /\ MayWrite(r)
  /\ row' = ChatCharged(r)
  /\ row'.count["ai"] <= MaxCharges
  /\ Note("ai", TRUE)
  /\ NoteReset(r)
  /\ Leave(r)
  /\ UNCHANGED <<day, limit, topLimit>>

\* The charge of /ai/stream is rolled back when its session closes.
FinishStream(r) ==
  /\ req[r].at = "working" /\ req[r].route = "stream"
  /\ MayWrite(r)
  /\ Leave(r)
  /\ UNCHANGED <<day, row, limit, charged, topLimit, misjudged>>

\* The reset alone is committed: by the audit record of a sync that failed, or
\* by a calendar change the assistant makes while it answers.
KeepReset(r) ==
  /\ holder = r
  /\ row' = draft
  /\ IF req[r].route = "sync"
       THEN Leave(r)
       ELSE holder' = NoRequest /\ UNCHANGED <<draft, req>>
  /\ UNCHANGED <<day, limit, charged, topLimit, misjudged>>

\* The worker dies or the client goes away: everything is rolled back.
Abort(r) ==
  /\ req[r].at # "idle"
  /\ Leave(r)
  /\ UNCHANGED <<day, row, limit, charged, topLimit, misjudged>>

Next ==
  \/ Midnight
  \/ ChangePlan
  \/ \E r \in Requests :
       \/ Begin(r) \/ Reset(r)
       \/ ChargeSync(r) \/ ChargeChat(r) \/ FinishStream(r)
       \/ KeepReset(r) \/ Abort(r)

Spec == Init /\ [][Next]_vars

-----------------------------------------------------------------------------
(* Properties *)

\* Once the day's reset is made, a counter says exactly how often the account was
\* charged today: no charge is lost to another, or to a reset, or counted twice.
\* That fails only when a reset went by a copy of the row that was out of date,
\* because two requests opened the day together or one worked across midnight.
CountIsExact ==
  misjudged \/ row.reset # day + 1 \/ row.count = charged

\* check_usage_limit comes before the work and increment_usage after it, so the
\* limit can be overrun, but only by the requests in progress at once.
OverrunBounded ==
  misjudged \/ charged["sync"] <= topLimit + Cardinality(Requests) - 1
=============================================================================
