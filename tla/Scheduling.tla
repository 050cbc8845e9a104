----------------------------- MODULE Scheduling -----------------------------
(***************************************************************************)
(* One user's calendar on the server: create_booking, update_booking and   *)
(* cancel_booking (backend/api/bookings.py) and the calendar events of     *)
(* backend/api/calendar.py and services/scheduler.py, request by request.  *)
(*                                                                         *)
(* The database is SQLite, the one create_booking works on (PostgreSQL     *)
(* refuses its SET TRANSACTION, which comes after get_current_user's       *)
(* query): a query reads what is committed, the first write takes the      *)
(* write lock until the commit, and who waits longer than the busy timeout *)
(* gets an error.  The slot lock is acquire_lock's in-process map.         *)
(*                                                                         *)
(* Left out: validation, routing of team bookings (the organizer is the    *)
(* user), external calendars, mail, and what follows a stored booking.     *)
(***************************************************************************)
EXTENDS Integers, FiniteSets

CONSTANTS
  Requests,   \* POST requests of one user, each with its own identity
  Slots,      \* time slots: pairs <<start, end>>
  LockTtl,    \* seconds a slot stays locked
  MaxTouched, \* bound on the rows that are changed after they were stored
  MaxFaults,  \* bound on exceptions raised and messages lost
  Nobody      \* no request has the write lock

VARIABLES
  at,       \* where each request is
  job,      \* what it asks for: kind and slot (the slot of its row, once stored)
  rows,     \* the row it stored: none, active (confirmed, not deleted) or inactive
  writer,   \* the request whose transaction has the write lock
  locks,    \* seconds left of the lock on each slot
  settled,  \* history: rows committed before the request came
  touched,  \* history: rows changed after they were stored
  faults    \* exceptions raised (and, in BookingCalls, messages lost) so far

Jobs == [kind: {"booking", "event"}, slot: Slots]
NoJob == [kind |-> "none"]
Answers == {"ok", "conflict", "error"}
Places == {"free", "asked", "locked", "clear", "written"} \cup Answers

ServerTypeOK ==
  /\ at \in [Requests -> Places]
  /\ job \in [Requests -> Jobs \cup {NoJob}]
  /\ \A r \in Requests : IF at[r] = "free" THEN job[r] = NoJob ELSE job[r] \in Jobs
  /\ \A r \in Requests : rows[r] # "none" => at[r] \in {"ok", "error"}
  /\ rows \in [Requests -> {"none", "active", "inactive"}]
  /\ writer = Nobody \/ (writer \in Requests /\ at[writer] = "written")
  /\ \A r \in Requests : at[r] = "written" => writer = r
  /\ locks \in [Slots -> 0..LockTtl]
  /\ settled \in [Requests -> SUBSET Requests]
  /\ touched \subseteq Requests
  /\ faults \in 0..MaxFaults

ServerInit ==
  /\ at = [r \in Requests |-> "free"]
  /\ job = [r \in Requests |-> NoJob]
  /\ rows = [r \in Requests |-> "none"]
  /\ writer = Nobody
  /\ locks = [s \in Slots |-> 0]
  /\ settled = [r \in Requests |-> {}]
  /\ touched = {}
  /\ faults = 0
-----------------------------------------------------------------------------
Overlap(s, t) == s[1] < t[2] /\ t[1] < s[2]

Stored(kind) == {r \in Requests : rows[r] # "none" /\ job[r].kind = kind}

\* Mutant: a cancelled booking gives its time away.
BlocksBookingWhileConfirmed(slot) ==
  {b \in Stored("booking") : rows[b] = "active" /\ Overlap(job[b].slot, slot)}

\* Rows the conflict query of a booking finds: any status counts.
BlocksBooking(slot) == {b \in Stored("booking") : Overlap(job[b].slot, slot)}

\* Mutant: the query compares slots, not times.
BlocksEventInSameSlot(slot) ==
  {b \in Stored("booking") : rows[b] = "active" /\ job[b].slot = slot}

\* Rows the two conflict queries of create_event find.  The one on events has
\* `not EventTable.is_deleted` in its WHERE: Python evaluates it to False, so
\* the query finds none.
BlocksEvent(slot) == {b \in Stored("booking") : rows[b] = "active" /\ Overlap(job[b].slot, slot)}

\* Mutant: the constraint leaves cancelled bookings out.
TakenWhileConfirmed(slot) == \E b \in Stored("booking") : rows[b] = "active" /\ job[b].slot = slot

\* The unique constraint on (user_id, start_time, end_time) of bookings.
Taken(slot) == \E b \in Stored("booking") : job[b].slot = slot
-----------------------------------------------------------------------------
Go(r, place) == at' = [at EXCEPT ![r] = place] /\ UNCHANGED settled
Fail(r, answer) == at' = [at EXCEPT ![r] = answer] /\ settled' = [settled EXCEPT ![r] = {}]

Fault == faults < MaxFaults /\ faults' = faults + 1

Arrive(r, j) ==
  /\ at[r] = "free"
  /\ at' = [at EXCEPT ![r] = "asked"]
  /\ job' = [job EXCEPT ![r] = j]
  /\ settled' = [settled EXCEPT ![r] = {x \in Requests : rows[x] # "none"}]
  /\ UNCHANGED <<rows, writer, locks, touched, faults>>

\* create_booking takes the lock on exactly its slot; nobody releases it.
ClaimSlot(r) ==
  /\ at[r] = "asked" /\ job[r].kind = "booking"
  /\ IF locks[job[r].slot] > 0
     THEN Fail(r, "conflict") /\ UNCHANGED locks
     ELSE Go(r, "locked") /\ locks' = [locks EXCEPT ![job[r].slot] = LockTtl]
  /\ UNCHANGED <<job, rows, writer, touched, faults>>

CheckBooking(r) ==
  /\ at[r] = "locked"
  /\ IF BlocksBooking(job[r].slot) = {} THEN Go(r, "clear") ELSE Fail(r, "conflict")
  /\ UNCHANGED <<job, rows, writer, locks, touched, faults>>

CheckEvent(r) ==
  /\ at[r] = "asked" /\ job[r].kind = "event"
  /\ IF BlocksEvent(job[r].slot) = {} THEN Go(r, "clear") ELSE Fail(r, "conflict")
  /\ UNCHANGED <<job, rows, writer, locks, touched, faults>>

Insertable(r) == job[r].kind = "event" \/ ~Taken(job[r].slot)

\* flush(): INSERT takes the write lock, or breaks the unique constraint.
Insert(r) ==
  /\ at[r] = "clear" /\ writer = Nobody
  /\ IF Insertable(r) THEN Go(r, "written") /\ writer' = r
                      ELSE Fail(r, "error") /\ UNCHANGED writer
  /\ UNCHANGED <<job, rows, locks, touched, faults>>

\* Another transaction keeps the write lock beyond the busy timeout.
InsertTimesOut(r) ==
  /\ at[r] = "clear" /\ writer # Nobody
  /\ Fail(r, "error")
  /\ UNCHANGED <<job, rows, writer, locks, touched, faults>>

\* The commit, and the answer: reading the stored row again may still fail.
Commit(r) ==
  /\ at[r] = "written"
  /\ \/ Go(r, "ok") /\ UNCHANGED faults
     \/ Go(r, "error") /\ Fault
  /\ rows' = [rows EXCEPT ![r] = "active"]
  /\ writer' = Nobody
  /\ UNCHANGED <<job, locks, touched>>

\* Mutant: the error after the flush is swallowed.
RollbackUnnoticed(r) ==
  /\ at[r] = "written" /\ Fault
  /\ Go(r, "ok")
  /\ writer' = Nobody
  /\ UNCHANGED <<job, rows, locks, touched>>

\* Anything after the flush raises (the fingerprint of an idempotency key
\* always does: its payload holds datetimes): the session rolls back.
Rollback(r) ==
  /\ at[r] = "written" /\ Fault
  /\ Fail(r, "error")
  /\ writer' = Nobody
  /\ UNCHANGED <<job, rows, locks, touched>>

MayTouch(r) == Cardinality(touched \cup {r}) <= MaxTouched

\* cancel_booking, update_booking (any status) and the soft delete of events.
ChangeRow(r) ==
  /\ rows[r] # "none" /\ writer = Nobody /\ MayTouch(r)
  /\ \E state \in {"active", "inactive"} :
       /\ job[r].kind = "event" => state = "inactive"
       /\ rows' = [rows EXCEPT ![r] = state]
  /\ touched' = touched \cup {r}
  /\ UNCHANGED <<at, job, writer, locks, settled, faults>>

\* update_event writes the new times without a conflict query.
MoveEvent(r) ==
  /\ r \in Stored("event") /\ writer = Nobody /\ MayTouch(r)
  /\ \E slot \in Slots : job' = [job EXCEPT ![r].slot = slot]
  /\ touched' = touched \cup {r}
  /\ UNCHANGED <<at, rows, writer, locks, settled, faults>>

\* time.time(): the locks run out.
Tick ==
  /\ \E s \in Slots : locks[s] > 0
  /\ locks' = [s \in Slots |-> IF locks[s] > 0 THEN locks[s] - 1 ELSE 0]
  /\ UNCHANGED <<at, job, rows, writer, settled, touched, faults>>

Serve(r) ==
  \/ ClaimSlot(r) \/ CheckBooking(r) \/ CheckEvent(r)
  \/ Insert(r) \/ InsertTimesOut(r) \/ Commit(r) \/ Rollback(r)

Edit == \E r \in Requests : ChangeRow(r) \/ MoveEvent(r)
-----------------------------------------------------------------------------
\* No slot is booked twice, not even when the first holder of the slot lock is
\* slower than the lock and the second passes the conflict query next to it.
SlotBookedOnce ==
  \A a, b \in Stored("booking") : a # b => job[a].slot # job[b].slot

\* Bookings overlap only when they were created at the same time: one that was
\* stored before the other was asked for keeps its time, cancelled or not, so
\* that setting it back to confirmed can never clash.
OverlapsOnlyByRace ==
  \A a, b \in Stored("booking") : a \in settled[b] => ~Overlap(job[a].slot, job[b].slot)

\* An event that stays where it was put overlaps no booking that was confirmed
\* before the event was asked for, unless that booking was changed meanwhile.
EventsAvoidBookings ==
  \A b \in Stored("booking"), e \in Stored("event") :
    b \in settled[e] /\ {b, e} \cap touched = {} => ~Overlap(job[b].slot, job[e].slot)
=============================================================================
