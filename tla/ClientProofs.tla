---------------------------- MODULE ClientProofs ----------------------------
(***************************************************************************)
(* The two places where the browser repeats what it sends: BookingCalls,   *)
(* whose retry loops post a booking or an event again while the server is  *)
(* still at work on the first, and OfflineQueue, whose tabs pass over the  *)
(* same stored actions.  For any number of calls, slots, tabs and actions, *)
(* any limits of the retries and any number of faults and reloads.         *)
(***************************************************************************)
EXTENDS BookingCalls, OfflineQueue, FiniteSetTheorems, TLAPS

(***************************************************************************)
(* BookingCalls.  What a request has found free when its conflict query is *)
(* behind it stays free of those that had settled when it arrived: only    *)
(* requests at work at the same time, and rows a user changed, can overlap *)
(* it.  Equal slots of bookings are kept apart by the unique constraint,   *)
(* which the holder of the write lock has passed.                          *)
(***************************************************************************)

\* Only a request that came has a row or is on its way, with a job it keeps; the
\* one that holds the write lock has passed the unique constraint.
RowsAreAnswered ==
  \A r \in Requests :
    /\ at[r] = "ok" => rows[r] # "none"
    /\ rows[r] = "inactive" => r \in touched
    /\ at[r] = "locked" => job[r].kind = "booking"
    /\ at[r] = "written" => Insertable(r)
    /\ \A x \in settled[r] : rows[x] # "none"

\* Where the conflict queries are behind a request.
Checked(r) == at[r] \in {"clear", "written", "ok", "error"}

BookingsChecked ==
  \A b \in Requests : Checked(b) /\ job[b].kind = "booking" =>
    \A a \in settled[b] :
      job[a].kind = "booking" => ~Overlap(job[a].slot, job[b].slot)

EventsChecked ==
  \A e \in Requests : Checked(e) /\ job[e].kind = "event" /\ e \notin touched =>
    \A b \in settled[e] \ touched :
      job[b].kind = "booking" => ~Overlap(job[b].slot, job[e].slot)

ServerInv ==
  /\ ServerTypeOK /\ RowsAreAnswered /\ SlotBookedOnce /\ BookingsChecked /\ EventsChecked

\* How many sends the rounds of the outer loop that are over account for.
Rounds(outer) == outer * (1 + InnerRetries)

\* How often a call failed, by its retry counters.
Failures(c) == Rounds(call[c].outer) + call[c].inner

SendsAreCounted ==
  \A c \in Calls :
    /\ IF call[c].phase = "idle" THEN call[c].sends = 0 ELSE call[c].asks \in Jobs
    /\ call[c].phase = "sending" => call[c].sends <= Failures(c)
    /\ call[c].phase = "waiting" => call[c].sends \in 1..(Failures(c) + 1)

CallsInv == ServerInv /\ CallsTypeOK /\ SendsAreCounted /\ BookedIsStored


USE CallsAssumption, WriterAssumption DEF Places, Answers, Jobs, NoJob, handlers

-----------------------------------------------------------------------------
(* The server *)

\* A step of the server, or one that leaves it alone.
ServerStep ==
  \/ \E r \in Requests : Serve(r)
  \/ \E r \in Requests : \E j \in Jobs : Arrive(r, j)
  \/ Edit \/ Tick
  \/ UNCHANGED handlers /\ faults' \in 0..MaxFaults

LEMMA ServerTypesKept ==
  ASSUME ServerTypeOK, ServerStep
  PROVE  ServerTypeOK'
<1> USE DEF ServerTypeOK, Go, Fail, Fault
<1>1. ASSUME NEW r \in Requests, ClaimSlot(r)
      PROVE  ServerTypeOK'
  BY <1>1 DEF ClaimSlot
<1>2. ASSUME NEW r \in Requests, CheckBooking(r)
      PROVE  ServerTypeOK'
  BY <1>2 DEF CheckBooking
<1>3. ASSUME NEW r \in Requests, CheckEvent(r)
      PROVE  ServerTypeOK'
  BY <1>3 DEF CheckEvent
<1>4. ASSUME NEW r \in Requests, Insert(r)
      PROVE  ServerTypeOK'
  BY <1>4 DEF Insert
<1>5. ASSUME NEW r \in Requests, InsertTimesOut(r)
      PROVE  ServerTypeOK'
  BY <1>5 DEF InsertTimesOut
<1>6. ASSUME NEW r \in Requests, Commit(r)
      PROVE  ServerTypeOK'
  BY <1>6 DEF Commit
<1>7. ASSUME NEW r \in Requests, Rollback(r)
      PROVE  ServerTypeOK'
  BY <1>7 DEF Rollback
<1>8. ASSUME NEW r \in Requests, ChangeRow(r)
      PROVE  ServerTypeOK'
  BY <1>8 DEF ChangeRow
<1>9. ASSUME NEW r \in Requests, MoveEvent(r)
      PROVE  ServerTypeOK'
  BY <1>9 DEF MoveEvent, Stored
<1>10. ASSUME NEW r \in Requests, NEW j \in Jobs, Arrive(r, j)
       PROVE  ServerTypeOK'
  BY <1>10 DEF Arrive
<1>11. CASE Tick
  BY <1>11 DEF Tick
<1>12. CASE UNCHANGED handlers /\ faults' \in 0..MaxFaults
  BY <1>12
<1> QED
  BY <1>1, <1>2, <1>3, <1>4, <1>5, <1>6, <1>7, <1>8, <1>9, <1>10, <1>11, <1>12
     DEF ServerStep, Serve, Edit

LEMMA RowsKept ==
  ASSUME ServerTypeOK, RowsAreAnswered, ServerTypeOK', ServerStep
  PROVE  RowsAreAnswered'
<1> USE DEF ServerTypeOK, Go, Fail, Fault, RowsAreAnswered, Insertable, Taken, Stored
<1>1. ASSUME NEW r \in Requests, ClaimSlot(r)
      PROVE  RowsAreAnswered'
  BY <1>1 DEF ClaimSlot
<1>2. ASSUME NEW r \in Requests, CheckBooking(r)
      PROVE  RowsAreAnswered'
  BY <1>2 DEF CheckBooking
<1>3. ASSUME NEW r \in Requests, CheckEvent(r)
      PROVE  RowsAreAnswered'
  BY <1>3 DEF CheckEvent
<1>4. ASSUME NEW r \in Requests, Insert(r)
      PROVE  RowsAreAnswered'
  BY <1>4 DEF Insert
<1>5. ASSUME NEW r \in Requests, InsertTimesOut(r)
      PROVE  RowsAreAnswered'
  BY <1>5 DEF InsertTimesOut
<1>6. ASSUME NEW r \in Requests, Commit(r)
      PROVE  RowsAreAnswered'
  BY <1>6 DEF Commit
<1>7. ASSUME NEW r \in Requests, Rollback(r)
      PROVE  RowsAreAnswered'
  BY <1>7 DEF Rollback
<1>8. ASSUME NEW r \in Requests, ChangeRow(r)
      PROVE  RowsAreAnswered'
  BY <1>8 DEF ChangeRow
<1>9. ASSUME NEW r \in Requests, MoveEvent(r)
      PROVE  RowsAreAnswered'
  BY <1>9 DEF MoveEvent
<1>10. ASSUME NEW r \in Requests, NEW j \in Jobs, Arrive(r, j)
       PROVE  RowsAreAnswered'
  BY <1>10 DEF Arrive
<1>11. CASE Tick
  BY <1>11 DEF Tick
<1>12. CASE UNCHANGED handlers /\ faults' \in 0..MaxFaults
  BY <1>12
<1> QED
  BY <1>1, <1>2, <1>3, <1>4, <1>5, <1>6, <1>7, <1>8, <1>9, <1>10, <1>11, <1>12
     DEF ServerStep, Serve, Edit

LEMMA SlotsKept ==
  ASSUME ServerTypeOK, RowsAreAnswered, SlotBookedOnce, ServerTypeOK', ServerStep
  PROVE  SlotBookedOnce'
<1> USE DEF ServerTypeOK, Go, Fail, Fault, RowsAreAnswered, SlotBookedOnce, Insertable, Taken, Stored
<1>1. ASSUME NEW r \in Requests, ClaimSlot(r)
      PROVE  SlotBookedOnce'
  BY <1>1 DEF ClaimSlot
<1>2. ASSUME NEW r \in Requests, CheckBooking(r)
      PROVE  SlotBookedOnce'
  BY <1>2 DEF CheckBooking
<1>3. ASSUME NEW r \in Requests, CheckEvent(r)
      PROVE  SlotBookedOnce'
  BY <1>3 DEF CheckEvent
<1>4. ASSUME NEW r \in Requests, Insert(r)
      PROVE  SlotBookedOnce'
  BY <1>4 DEF Insert
<1>5. ASSUME NEW r \in Requests, InsertTimesOut(r)
      PROVE  SlotBookedOnce'
  BY <1>5 DEF InsertTimesOut
<1>6. ASSUME NEW r \in Requests, Commit(r)
      PROVE  SlotBookedOnce'
  BY <1>6 DEF Commit
<1>7. ASSUME NEW r \in Requests, Rollback(r)
      PROVE  SlotBookedOnce'
  BY <1>7 DEF Rollback
<1>8. ASSUME NEW r \in Requests, ChangeRow(r)
      PROVE  SlotBookedOnce'
  BY <1>8 DEF ChangeRow
<1>9. ASSUME NEW r \in Requests, MoveEvent(r)
      PROVE  SlotBookedOnce'
  BY <1>9 DEF MoveEvent
<1>10. ASSUME NEW r \in Requests, NEW j \in Jobs, Arrive(r, j)
       PROVE  SlotBookedOnce'
  BY <1>10 DEF Arrive
<1>11. CASE Tick
  BY <1>11 DEF Tick
<1>12. CASE UNCHANGED handlers /\ faults' \in 0..MaxFaults
  BY <1>12
<1> QED
  BY <1>1, <1>2, <1>3, <1>4, <1>5, <1>6, <1>7, <1>8, <1>9, <1>10, <1>11, <1>12
     DEF ServerStep, Serve, Edit

LEMMA BookingsKept ==
  ASSUME ServerTypeOK, RowsAreAnswered, BookingsChecked, ServerTypeOK', ServerStep
  PROVE  BookingsChecked'
<1> USE DEF ServerTypeOK, Go, Fail, Fault, RowsAreAnswered, BookingsChecked, Checked, BlocksBooking, Stored
<1>1. ASSUME NEW r \in Requests, ClaimSlot(r)
      PROVE  BookingsChecked'
  BY <1>1 DEF ClaimSlot
<1>2. ASSUME NEW r \in Requests, CheckBooking(r)
      PROVE  BookingsChecked'
  BY <1>2 DEF CheckBooking
<1>3. ASSUME NEW r \in Requests, CheckEvent(r)
      PROVE  BookingsChecked'
  BY <1>3 DEF CheckEvent
<1>4. ASSUME NEW r \in Requests, Insert(r)
      PROVE  BookingsChecked'
  BY <1>4 DEF Insert
<1>5. ASSUME NEW r \in Requests, InsertTimesOut(r)
      PROVE  BookingsChecked'
  BY <1>5 DEF InsertTimesOut
<1>6. ASSUME NEW r \in Requests, Commit(r)
      PROVE  BookingsChecked'
  BY <1>6 DEF Commit
<1>7. ASSUME NEW r \in Requests, Rollback(r)
      PROVE  BookingsChecked'
  BY <1>7 DEF Rollback
<1>8. ASSUME NEW r \in Requests, ChangeRow(r)
      PROVE  BookingsChecked'
  BY <1>8 DEF ChangeRow
<1>9. ASSUME NEW r \in Requests, MoveEvent(r)
      PROVE  BookingsChecked'
  BY <1>9 DEF MoveEvent
<1>10. ASSUME NEW r \in Requests, NEW j \in Jobs, Arrive(r, j)
       PROVE  BookingsChecked'
  BY <1>10 DEF Arrive
<1>11. CASE Tick
  BY <1>11 DEF Tick
<1>12. CASE UNCHANGED handlers /\ faults' \in 0..MaxFaults
  BY <1>12
<1> QED
  BY <1>1, <1>2, <1>3, <1>4, <1>5, <1>6, <1>7, <1>8, <1>9, <1>10, <1>11, <1>12
     DEF ServerStep, Serve, Edit

LEMMA EventsKept ==
  ASSUME ServerTypeOK, RowsAreAnswered, EventsChecked, ServerTypeOK', ServerStep
  PROVE  EventsChecked'
<1> USE DEF ServerTypeOK, Go, Fail, Fault, RowsAreAnswered, EventsChecked, Checked, BlocksEvent, Stored
<1>1. ASSUME NEW r \in Requests, ClaimSlot(r)
      PROVE  EventsChecked'
  BY <1>1 DEF ClaimSlot
<1>2. ASSUME NEW r \in Requests, CheckBooking(r)
      PROVE  EventsChecked'
  BY <1>2 DEF CheckBooking
<1>3. ASSUME NEW r \in Requests, CheckEvent(r)
      PROVE  EventsChecked'
  BY <1>3 DEF CheckEvent
<1>4. ASSUME NEW r \in Requests, Insert(r)
      PROVE  EventsChecked'
  BY <1>4 DEF Insert
<1>5. ASSUME NEW r \in Requests, InsertTimesOut(r)
      PROVE  EventsChecked'
  BY <1>5 DEF InsertTimesOut
<1>6. ASSUME NEW r \in Requests, Commit(r)
      PROVE  EventsChecked'
  BY <1>6 DEF Commit
<1>7. ASSUME NEW r \in Requests, Rollback(r)
      PROVE  EventsChecked'
  BY <1>7 DEF Rollback
<1>8. ASSUME NEW r \in Requests, ChangeRow(r)
      PROVE  EventsChecked'
  BY <1>8 DEF ChangeRow
<1>9. ASSUME NEW r \in Requests, MoveEvent(r)
      PROVE  EventsChecked'
  BY <1>9 DEF MoveEvent
<1>10. ASSUME NEW r \in Requests, NEW j \in Jobs, Arrive(r, j)
       PROVE  EventsChecked'
  BY <1>10 DEF Arrive
<1>11. CASE Tick
  BY <1>11 DEF Tick
<1>12. CASE UNCHANGED handlers /\ faults' \in 0..MaxFaults
  BY <1>12
<1> QED
  BY <1>1, <1>2, <1>3, <1>4, <1>5, <1>6, <1>7, <1>8, <1>9, <1>10, <1>11, <1>12
     DEF ServerStep, Serve, Edit

-----------------------------------------------------------------------------
(* The calls *)

HIDE DEF Jobs, NoJob, Places, Answers

\* The two loops together send at most MaxSends times.
LEMMA RoundsFit ==
  /\ MaxSends \in Nat
  /\ Rounds(0) = 0
  /\ \A outer \in 0..OuterRetries :
       /\ Rounds(outer) \in Nat
       /\ Rounds(outer) + InnerRetries + 1 <= MaxSends
       /\ Rounds(outer + 1) = Rounds(outer) + InnerRetries + 1
<1> DEFINE k == 1 + InnerRetries
<1>1. k \in Nat
  OBVIOUS
<1>2. \A m, n \in Nat : n * k \in Nat /\ (n + 1) * k = n * k + k /\ (m <= n => m * k <= n * k)
  BY <1>1
<1>3. MaxSends = OuterRetries * k + k
  BY <1>1, <1>2 DEF MaxSends
<1> QED
  BY <1>1, <1>2, <1>3 DEF Rounds

\* A step of a call changes that call only, in one of these ways.
LEMMA CallsCases ==
  ASSUME CallsNext
  PROVE  \/ UNCHANGED call
         \/ \E c \in Calls : \/ \E j \in Jobs : Post(c, j)
                             \/ Send(c) \/ NetworkFails(c) \/ Receive(c)
BY DEF CallsNext, Server

\* What SendsAreCounted says of one record of a call.
CallRecords ==
  [phase: Phases, asks: Jobs \cup {NoJob}, sends: 0..MaxSends, inner: 0..InnerRetries,
   outer: 0..OuterRetries]

CallsCounted(record) ==
  /\ record \in CallRecords
  /\ IF record.phase = "idle" THEN record.sends = 0 ELSE record.asks \in Jobs
  /\ record.phase = "sending" => record.sends <= Rounds(record.outer) + record.inner
  /\ record.phase = "waiting" => record.sends \in 1..(Rounds(record.outer) + record.inner + 1)

LEMMA CallsAreCounted ==
  /\ CallsTypeOK /\ SendsAreCounted =>
       \A c \in Calls : CallsCounted(call[c]) /\ call \in [Calls -> {call[d] : d \in Calls}]
  /\ ServerTypeOK /\ (\A c \in Calls : CallsCounted(call[c])) /\ call \in [Calls -> {call[d] : d \in Calls}]
       => CallsTypeOK /\ SendsAreCounted
BY DEF CallsTypeOK, SendsAreCounted, Failures, CallsCounted, CallRecords

\* A record is posted, sent, sent again and ended within its bounds.
LEMMA PostIsCounted ==
  ASSUME NEW r, CallsCounted(r), r.phase = "idle", NEW j \in Jobs
  PROVE  CallsCounted(Posted(r, j)) /\ Posted(r, j).phase # "booked"
<1>1. r.sends = 0 /\ r.inner \in Nat /\ Rounds(r.outer) \in Nat
  BY RoundsFit DEF CallsCounted, CallRecords
<1>2. /\ Posted(r, j) \in CallRecords /\ Posted(r, j).phase = "sending" /\ Posted(r, j).asks = j
      /\ Posted(r, j).sends = r.sends /\ Posted(r, j).inner = r.inner
      /\ Posted(r, j).outer = r.outer
  BY DEF CallsCounted, CallRecords, Posted, Phases
<1> QED
  BY <1>1, <1>2 DEF CallsCounted

LEMMA SendIsCounted ==
  ASSUME NEW r, CallsCounted(r), r.phase = "sending"
  PROVE  /\ r.sends + 1 \in 1..MaxSends
         /\ CallsCounted(Sent(r)) /\ Sent(r).phase # "booked"
<1>1. /\ r.sends \in Nat /\ r.inner \in 0..InnerRetries /\ r.outer \in 0..OuterRetries
      /\ r.sends <= Rounds(r.outer) + r.inner /\ r.asks \in Jobs
  BY RoundsFit DEF CallsCounted, CallRecords
<1>2. r.sends + 1 \in 1..MaxSends /\ Rounds(r.outer) \in Nat
  BY <1>1, RoundsFit
<1>3. /\ Sent(r) \in CallRecords /\ Sent(r).phase = "waiting" /\ Sent(r).asks = r.asks
      /\ Sent(r).sends = r.sends + 1 /\ Sent(r).inner = r.inner /\ Sent(r).outer = r.outer
  <2>1. r \in CallRecords /\ r.sends + 1 \in 0..MaxSends
    BY <1>2, RoundsFit DEF CallsCounted
  <2> QED
    BY <2>1 DEF CallRecords, Sent, Phases
<1> QED
  BY <1>1, <1>2, <1>3 DEF CallsCounted

LEMMA RetryIsCounted ==
  ASSUME NEW r, CallsCounted(r), r.phase \in {"sending", "waiting"}
  PROVE  /\ CallsCounted(AfterNetworkError(r)) /\ AfterNetworkError(r).phase # "booked"
         /\ CallsCounted(AfterServerError(r)) /\ AfterServerError(r).phase # "booked"
         /\ \A outcome \in Outcomes : CallsCounted(Ended(r, outcome)) /\ Ended(r, outcome).phase = outcome
<1>1. /\ r \in CallRecords /\ r.inner \in 0..InnerRetries /\ r.outer \in 0..OuterRetries
      /\ r.sends \in Nat /\ r.asks \in Jobs
  BY RoundsFit DEF CallsCounted, CallRecords
<1>2. /\ Rounds(r.outer) \in Nat /\ Rounds(r.outer + 1) = Rounds(r.outer) + InnerRetries + 1
  BY <1>1, RoundsFit
<1>3. r.sends <= Rounds(r.outer) + r.inner + 1
  BY <1>1, <1>2 DEF CallsCounted
<1>4. ASSUME NEW outcome \in Outcomes
      PROVE  CallsCounted(Ended(r, outcome)) /\ Ended(r, outcome).phase = outcome
  <2>1. 0 \in 0..InnerRetries /\ 0 \in 0..OuterRetries /\ outcome \in Phases
    BY DEF Phases
  <2>2. /\ Ended(r, outcome) \in CallRecords
        /\ Ended(r, outcome).phase = outcome /\ Ended(r, outcome).asks = r.asks
    BY <1>1, <2>1 DEF CallRecords, Ended
  <2> QED
    BY <1>1, <2>2 DEF CallsCounted, Outcomes
<1>5. CASE r.inner < InnerRetries
  <2>1. r.inner + 1 \in 0..InnerRetries
    BY <1>1, <1>5
  <2>2. /\ InnerAgain(r) \in CallRecords /\ InnerAgain(r).phase = "sending"
        /\ InnerAgain(r).inner = r.inner + 1 /\ InnerAgain(r).outer = r.outer
        /\ InnerAgain(r).sends = r.sends /\ InnerAgain(r).asks = r.asks
    BY <1>1, <2>1 DEF CallRecords, InnerAgain, Phases
  <2>3. CallsCounted(InnerAgain(r))
    BY <1>1, <1>2, <1>3, <2>2 DEF CallsCounted
  <2>4. AfterNetworkError(r) = InnerAgain(r) /\ AfterServerError(r) = InnerAgain(r)
    BY <1>1, <1>5 DEF AfterNetworkError, AfterServerError
  <2> QED
    BY <1>4, <2>2, <2>3, <2>4
<1>6. CASE ~(r.inner < InnerRetries)
  <2>1. r.inner = InnerRetries
    BY <1>1, <1>6
  <2>2. CASE r.outer < OuterRetries
    <3>1. r.outer + 1 \in 0..OuterRetries /\ 0 \in 0..InnerRetries
      BY <1>1, <2>2
    <3>2. /\ OuterAgain(r) \in CallRecords /\ OuterAgain(r).phase = "sending"
          /\ OuterAgain(r).inner = 0 /\ OuterAgain(r).outer = r.outer + 1
          /\ OuterAgain(r).sends = r.sends /\ OuterAgain(r).asks = r.asks
      BY <1>1, <3>1 DEF CallRecords, OuterAgain, Phases
    <3>3. CallsCounted(OuterAgain(r))
      BY <1>1, <1>2, <1>3, <2>1, <3>2 DEF CallsCounted
    <3>4. AfterNetworkError(r) = OuterAgain(r) /\ AfterServerError(r) = Ended(r, "failed")
      BY <2>1, <2>2, <1>6 DEF AfterNetworkError, AfterServerError
    <3> QED
      BY <1>4, <3>2, <3>3, <3>4 DEF Outcomes
  <2>3. CASE ~(r.outer < OuterRetries)
    <3>1. AfterNetworkError(r) = Ended(r, "unreachable") /\ AfterServerError(r) = Ended(r, "failed")
      BY <2>1, <2>3, <1>6 DEF AfterNetworkError, AfterServerError
    <3> QED
      BY <1>4, <3>1 DEF Outcomes
  <2> QED
    BY <2>2, <2>3
<1> QED
  BY <1>4, <1>5, <1>6

\* A row, once stored, is never deleted.
LEMMA RowsStay ==
  ASSUME ServerTypeOK, ServerStep
  PROVE  \A r \in Requests : rows[r] # "none" => rows'[r] # "none"
<1> USE DEF ServerTypeOK
<1>1. ASSUME NEW r \in Requests, Serve(r)
      PROVE  \A q \in Requests : rows[q] # "none" => rows'[q] # "none"
  BY <1>1 DEF Serve, ClaimSlot, CheckBooking, CheckEvent, Insert, InsertTimesOut, Commit, Rollback
<1>2. ASSUME NEW r \in Requests, ChangeRow(r) \/ MoveEvent(r)
      PROVE  \A q \in Requests : rows[q] # "none" => rows'[q] # "none"
  BY <1>2 DEF ChangeRow, MoveEvent
<1> QED
  BY <1>1, <1>2 DEF ServerStep, Edit, Arrive, Tick

LEMMA SendIsARequest ==
  ASSUME CallsTypeOK, SendsAreCounted, NEW c \in Calls, call[c].phase = "sending"
  PROVE  <<c, call[c].sends + 1>> \in Requests /\ call[c].asks \in Jobs
<1>1. CallsCounted(call[c])
  BY CallsAreCounted
<1>2. call[c].sends + 1 \in 1..MaxSends
  BY <1>1, SendIsCounted
<1> QED
  BY <1>1, <1>2 DEF Requests, CallsCounted

LEMMA StepIsServed ==
  ASSUME CallsTypeOK, SendsAreCounted, [CallsNext]_callsVars
  PROVE  ServerStep
<1>0. ServerTypeOK
  BY DEF CallsTypeOK
<1>1. ASSUME NEW c \in Calls, Send(c)
      PROVE  ServerStep
  BY <1>1, SendIsARequest DEF Send, ServerStep
<1>2. ASSUME NEW c \in Calls, NetworkFails(c) \/ Receive(c) \/ \E j \in Jobs : Post(c, j)
      PROVE  ServerStep
  <2>1. UNCHANGED handlers /\ (faults' = faults \/ Fault)
    BY <1>2 DEF Post, NetworkFails, Receive
  <2>2. faults' \in 0..MaxFaults
    BY <1>0, <2>1 DEF Fault, ServerTypeOK
  <2> QED
    BY <2>1, <2>2 DEF ServerStep
<1>3. CASE UNCHANGED callsVars
  BY <1>0, <1>3 DEF callsVars, ServerStep, ServerTypeOK
<1>4. CASE Server
  BY <1>4 DEF Server, ServerStep
<1> QED
  BY <1>1, <1>2, <1>3, <1>4 DEF CallsNext, ServerStep

LEMMA CallsKept ==
  ASSUME CallsTypeOK, SendsAreCounted, RowsAreAnswered, BookedIsStored, ServerTypeOK',
         [CallsNext]_callsVars
  PROVE  CallsTypeOK' /\ SendsAreCounted' /\ BookedIsStored'
<1>1. \A c \in Calls : CallsCounted(call[c])
  BY CallsAreCounted
<1>2. ServerTypeOK /\ ServerStep
  BY StepIsServed DEF CallsTypeOK
<1>3. \A c \in Calls : RowsOf(c) # {} => RowsOf(c)' # {}
  BY <1>2, RowsStay DEF RowsOf
<1> DEFINE Kept(d) == /\ CallsCounted(call'[d])
                      /\ call'[d].phase = "booked" => RowsOf(d)' # {}
<1>4. ASSUME NEW c \in Calls, NEW record, Update(c, record), CallsCounted(record),
             record.phase = "booked" => RowsOf(c)' # {}
      PROVE  CallsTypeOK' /\ SendsAreCounted' /\ BookedIsStored'
  <2>1. call' = [call EXCEPT ![c] = record]
    BY <1>4 DEF Update
  <2>2. \A d \in Calls : call'[d] = IF d = c THEN record ELSE call[d]
    BY <2>1 DEF CallsTypeOK
  <2>3. \A d \in Calls : CallsCounted(call'[d])
    BY <1>1, <1>4, <2>2
  <2>4. call' \in [Calls -> {call'[d] : d \in Calls}]
    BY <2>1 DEF CallsTypeOK
  <2>5. CallsTypeOK' /\ SendsAreCounted'
    BY <2>3, <2>4 DEF CallsTypeOK, SendsAreCounted, Failures, CallsCounted, CallRecords
  <2>6. BookedIsStored'
    BY <1>3, <1>4, <2>2 DEF BookedIsStored
  <2> QED
    BY <2>5, <2>6
<1>5. CASE UNCHANGED call
  BY <1>3, <1>5 DEF CallsTypeOK, SendsAreCounted, Failures, BookedIsStored
<1>6. ASSUME NEW c \in Calls, NEW j \in Jobs, Post(c, j)
      PROVE  CallsTypeOK' /\ SendsAreCounted' /\ BookedIsStored'
  BY <1>1, <1>4, <1>6, PostIsCounted DEF Post
<1>7. ASSUME NEW c \in Calls, Send(c)
      PROVE  CallsTypeOK' /\ SendsAreCounted' /\ BookedIsStored'
  BY <1>1, <1>4, <1>7, SendIsCounted DEF Send
<1>8. ASSUME NEW c \in Calls, NetworkFails(c)
      PROVE  CallsTypeOK' /\ SendsAreCounted' /\ BookedIsStored'
  BY <1>1, <1>4, <1>8, RetryIsCounted DEF NetworkFails
<1>9. ASSUME NEW c \in Calls, Receive(c)
      PROVE  CallsTypeOK' /\ SendsAreCounted' /\ BookedIsStored'
  <2>1. call[c].phase = "waiting" /\ CallsCounted(call[c])
    BY <1>1, <1>9 DEF Receive
  <2>2. CASE at[Current(c)] = "ok" /\ Update(c, Ended(call[c], "booked"))
    <3>1. Current(c) \in Requests
      BY <2>1 DEF Current, Requests, CallsCounted, CallRecords
    <3>2. RowsOf(c) # {}
      BY <2>2, <3>1 DEF RowsOf, RowsAreAnswered, Current
    <3> QED
      BY <1>3, <1>4, <2>1, <2>2, <3>2, RetryIsCounted DEF Outcomes
  <2>3. CASE Update(c, Ended(call[c], "refused"))
    BY <1>4, <2>1, <2>3, RetryIsCounted DEF Outcomes
  <2>4. CASE Update(c, AfterServerError(call[c]))
    BY <1>4, <2>1, <2>4, RetryIsCounted
  <2> QED
    BY <1>9, <2>2, <2>3, <2>4 DEF Receive
<1> QED
  BY <1>5, <1>6, <1>7, <1>8, <1>9, CallsCases DEF callsVars

-----------------------------------------------------------------------------
(* The theorems *)

LEMMA CallsInvInit == CallsInit => CallsInv
<1> SUFFICES ASSUME CallsInit
             PROVE  CallsInv
  OBVIOUS
<1> USE DEF CallsInit, ServerInit
<1>1. ServerTypeOK /\ RowsAreAnswered
  BY DEF ServerTypeOK, RowsAreAnswered, NoJob, Places
<1>2. SlotBookedOnce /\ BookingsChecked /\ EventsChecked
  BY DEF SlotBookedOnce, BookingsChecked, EventsChecked, Stored, Checked
<1>3. CallsTypeOK /\ SendsAreCounted /\ BookedIsStored
  BY <1>1, RoundsFit DEF CallsTypeOK, SendsAreCounted, BookedIsStored, Phases
<1> QED
  BY <1>1, <1>2, <1>3 DEF CallsInv, ServerInv

LEMMA CallsInvStep == CallsInv /\ [CallsNext]_callsVars => CallsInv'
<1> SUFFICES ASSUME CallsInv, [CallsNext]_callsVars
             PROVE  CallsInv'
  OBVIOUS
<1> USE DEF CallsInv, ServerInv
<1>1. ServerStep
  BY StepIsServed
<1>2. ServerTypeOK'
  BY <1>1, ServerTypesKept
<1>3. RowsAreAnswered' /\ SlotBookedOnce' /\ BookingsChecked' /\ EventsChecked'
  BY <1>1, <1>2, RowsKept, SlotsKept, BookingsKept, EventsKept
<1>4. CallsTypeOK' /\ SendsAreCounted' /\ BookedIsStored'
  BY <1>2, CallsKept
<1> QED
  BY <1>2, <1>3, <1>4

LEMMA ServerInvImplies == ServerInv => OverlapsOnlyByRace /\ EventsAvoidBookings
<1> USE DEF ServerInv, ServerTypeOK, Stored, Checked
<1>1. ServerInv => OverlapsOnlyByRace
  BY DEF BookingsChecked, OverlapsOnlyByRace
<1>2. ServerInv => EventsAvoidBookings
  BY DEF EventsChecked, EventsAvoidBookings
<1> QED
  BY <1>1, <1>2

LEMMA CallsInvariance == CallsSpec => []CallsInv
BY CallsInvInit, CallsInvStep, PTL DEF CallsSpec

\* Every variable keeps its type; above all no call is sent more often than its
\* two retry loops allow together, whatever mixture of errors they meet.
THEOREM CallsTypeCorrect == CallsSpec => []CallsTypeOK
<1>1. CallsInv => CallsTypeOK
  BY DEF CallsInv
<1> QED
  BY <1>1, CallsInvariance, PTL

\* No slot is booked twice, however many calls are sent however often.
THEOREM NoDoubleBooking == CallsSpec => []SlotBookedOnce
<1>1. CallsInv => SlotBookedOnce
  BY DEF CallsInv, ServerInv
<1> QED
  BY <1>1, CallsInvariance, PTL

\* Bookings overlap only when they were created at the same time.
THEOREM OverlapsAreRaces == CallsSpec => []OverlapsOnlyByRace
<1>1. CallsInv => OverlapsOnlyByRace
  BY ServerInvImplies DEF CallsInv
<1> QED
  BY <1>1, CallsInvariance, PTL

\* Events keep clear of the bookings that were confirmed before them.
THEOREM EventsKeepClear == CallsSpec => []EventsAvoidBookings
<1>1. CallsInv => EventsAvoidBookings
  BY ServerInvImplies DEF CallsInv
<1> QED
  BY <1>1, CallsInvariance, PTL

\* Who is told "booked" has a row.
THEOREM BookedHasRow == CallsSpec => []BookedIsStored
<1>1. CallsInv => BookedIsStored
  BY DEF CallsInv
<1> QED
  BY <1>1, CallsInvariance, PTL

HIDE DEF handlers

-----------------------------------------------------------------------------
(***************************************************************************)
(* OfflineQueue.  A pass works off a snapshot, oldest first: what was      *)
(* queued before an entry still to do has been attempted or is still to do *)
(* as well.  Between two loads a tab can have an action carried out once,  *)
(* so the sends of an action and the tabs that can still send it are never *)
(* more than the tabs and the reloads together.                            *)
(***************************************************************************)

\* The timestamps order the stored actions.
QueuedInOrder ==
  \A a \in Actions :
    /\ stored[a] = "none" => older[a] = {} /\ sent[a] = 0
    /\ \A b \in older[a] : stored[b] # "none" /\ a \notin older[b]

\* A tab at rest has nothing to do; one at work holds the guard.
PassGuarded ==
  \A t \in Tabs :
    /\ step[t] # "rest" => syncing[t]
    /\ step[t] \in {"rest", "load"} => todo[t] = {}

Attempted(a) == sent[a] > 0 \/ retries[a] > 0 \/ ~Pending(a)

\* What a pass still has to do was stored, and what was queued before it was
\* attempted or is still to do as well.
Ordered(t) ==
  \A e \in todo[t] :
    /\ stored[e.id] # "none"
    /\ \A a \in older[e.id] : Attempted(a) \/ \E f \in todo[t] : f.id = a

PassInOrder == \A t \in Tabs : Ordered(t)

\* A reply comes for an action the server carried out.
RepliesAreTrue ==
  \A t \in Tabs : step[t] \in {"applied", "ok"} =>
    \A e \in todo[t] : IsNext(t, e) => sent[e.id] > 0

\* The tabs that can still have action a carried out before their next load.
MaySend(a) ==
  {t \in Tabs : \/ ~syncing[t] \/ step[t] = "load"
                \/ \E e \in todo[t] :
                     e.id = a /\ (step[t] \in {"next", "call"} \/ ~IsNext(t, e))}

SendsLeft ==
  \A a \in Actions :
    sent[a] + Cardinality(MaySend(a)) <= Cardinality(Tabs) + reloads

QueueInv ==
  /\ QueueTypeOK /\ QueuedInOrder /\ PassGuarded /\ PassInOrder
  /\ InOrderUnlessFailed /\ RepliesAreTrue /\ SendsLeft

USE QueueAssumption DEF Steps, Entries

-----------------------------------------------------------------------------
(* Lemmas *)

\* What a step does to the record of an action: nothing goes back.
NothingGoesBack ==
  \A a \in Actions :
    /\ sent'[a] >= sent[a] /\ retries'[a] >= retries[a]
    /\ IF stored[a] = "none"
         THEN /\ sent'[a] = sent[a]
              /\ \/ stored'[a] = "none" /\ older'[a] = older[a]
                 \/ /\ stored'[a] = "pending"
                    /\ older'[a] = {b \in Actions : stored[b] # "none"}
         ELSE /\ stored'[a] # "none" /\ older'[a] = older[a]
              /\ stored'[a] = "pending" => stored[a] = "pending"

\* The steps that leave both the stored actions and the server alone.
Quiet(t) ==
  \/ GoOnline(t) \/ GoOffline(t) \/ ManualSync(t) \/ DetectConflicts(t)
  \/ Load(t) \/ Succeed(t) \/ CallFails(t) \/ EndPass(t) \/ \E e \in todo[t] : Call(t, e)

Records(t, e) == Skip(t, e) \/ RecordSuccess(t, e) \/ RecordError(t, e)

\* The cases of a step.
LEMMA QueueCases ==
  ASSUME QueueNext
  PROVE  \E t \in Tabs :
           \/ Quiet(t) \/ Reload(t)
           \/ \E e \in todo[t] : Records(t, e) \/ Apply(t, e)
           \/ \E a \in Actions : AddAction(t, a) \/ Resolve(t, a)
BY DEF QueueNext, PassStep, Carry, Quiet, Records

LEMMA QueueTypesKept ==
  ASSUME QueueTypeOK, [QueueNext]_queueVars
  PROVE  QueueTypeOK'
<1> USE DEF QueueTypeOK, store
<1>1. CASE UNCHANGED queueVars
  BY <1>1 DEF queueVars, tabs
<1>2. ASSUME NEW t \in Tabs, Quiet(t)
      PROVE  QueueTypeOK'
  <2>1. CASE GoOnline(t) \/ GoOffline(t) \/ ManualSync(t)
    BY <2>1 DEF GoOnline, GoOffline, ManualSync, BeginPass
  <2>2. CASE DetectConflicts(t)
    BY <2>2 DEF DetectConflicts
  <2>3. CASE Load(t)
    <3>1. \A a \in Actions : [id |-> a, spent |-> retries[a] >= MaxRetries] \in Entries
      OBVIOUS
    <3> DEFINE loaded == {[id |-> a, spent |-> retries[a] >= MaxRetries] :
                            a \in {b \in Actions : Pending(b)}}
    <3>2. ASSUME NEW e \in loaded
          PROVE  e \in Entries
      <4>1. PICK a \in Actions : e = [id |-> a, spent |-> retries[a] >= MaxRetries]
        OBVIOUS
      <4> QED
        BY <3>1, <4>1
    <3>3. todo' = [todo EXCEPT ![t] = loaded]
      BY <2>3 DEF Load
    <3> HIDE DEF loaded
    <3>4. todo' \in [Tabs -> SUBSET Entries]
      BY <3>2, <3>3
    <3> QED
      BY <2>3, <3>4 DEF Load
  <2>4. CASE Succeed(t) \/ CallFails(t) \/ EndPass(t) \/ \E e \in todo[t] : Call(t, e)
    BY <2>4 DEF Succeed, CallFails, EndPass, Call
  <2> QED
    BY <1>2, <2>1, <2>2, <2>3, <2>4 DEF Quiet
<1>3. ASSUME NEW t \in Tabs, Reload(t)
      PROVE  QueueTypeOK'
  BY <1>3 DEF Reload
<1>4. ASSUME NEW t \in Tabs, NEW e \in todo[t], Records(t, e)
      PROVE  QueueTypeOK'
  BY <1>4 DEF Records, Skip, RecordSuccess, RecordError, Advance, MarkSynced, MarkError,
     CountRetry, Counted
<1>5. ASSUME NEW t \in Tabs, NEW e \in todo[t], Apply(t, e)
      PROVE  QueueTypeOK'
  BY <1>5 DEF Apply
<1>6. ASSUME NEW t \in Tabs, NEW a \in Actions, AddAction(t, a)
      PROVE  QueueTypeOK'
  BY <1>6 DEF AddAction, BeginPass
<1>7. ASSUME NEW t \in Tabs, NEW a \in Actions, Resolve(t, a)
      PROVE  QueueTypeOK'
  BY <1>7 DEF Resolve, MarkSynced, MarkError, Delete, CountRetry, Counted
<1> QED
  BY <1>1, <1>2, <1>3, <1>4, <1>5, <1>6, <1>7, QueueCases

LEMMA MarksGrow ==
  ASSUME QueueTypeOK, NEW a \in Actions, UNCHANGED sent,
         MarkSynced(a) \/ MarkError(a) \/ Delete(a)
  PROVE  NothingGoesBack
<1> USE DEF QueueTypeOK, NothingGoesBack
<1>1. CASE MarkSynced(a)
  BY <1>1 DEF MarkSynced, Exists
<1>2. CASE MarkError(a)
  <2>1. \A b \in Actions : retries'[b] >= retries[b]
    BY <1>2 DEF MarkError, CountRetry, Counted
  <2> QED
    BY <1>2, <2>1 DEF MarkError
<1>3. CASE Delete(a)
  BY <1>3 DEF Delete, Exists
<1> QED
  BY <1>1, <1>2, <1>3

LEMMA StoreGrows ==
  ASSUME QueueTypeOK, PassInOrder, [QueueNext]_queueVars
  PROVE  NothingGoesBack
<1> USE DEF QueueTypeOK, NothingGoesBack, store
<1>1. CASE UNCHANGED queueVars
  BY <1>1 DEF queueVars
<1>2. ASSUME NEW t \in Tabs, Quiet(t)
      PROVE  NothingGoesBack
  <2>1. UNCHANGED <<store, sent>>
    BY <1>2 DEF Quiet, GoOnline, GoOffline, ManualSync, DetectConflicts, Load, Succeed,
       CallFails, EndPass, Call
  <2> QED
    BY <2>1
<1>3. ASSUME NEW t \in Tabs, Reload(t)
      PROVE  NothingGoesBack
  BY <1>3 DEF Reload, PassInOrder, Ordered
<1>4. ASSUME NEW t \in Tabs, NEW e \in todo[t], Records(t, e)
      PROVE  NothingGoesBack
  BY <1>4, MarksGrow DEF Records, Skip, RecordSuccess, RecordError, Advance
<1>5. ASSUME NEW t \in Tabs, NEW e \in todo[t], Apply(t, e)
      PROVE  NothingGoesBack
  BY <1>5 DEF Apply, PassInOrder, Ordered
<1>6. ASSUME NEW t \in Tabs, NEW a \in Actions, AddAction(t, a)
      PROVE  NothingGoesBack
  BY <1>6 DEF AddAction
<1>7. ASSUME NEW t \in Tabs, NEW a \in Actions, Resolve(t, a)
      PROVE  NothingGoesBack
  BY <1>7, MarksGrow DEF Resolve
<1> QED
  BY <1>1, <1>2, <1>3, <1>4, <1>5, <1>6, <1>7, QueueCases

\* What was queued stays queued in the same order, and what was attempted
\* stays attempted.
LEMMA OrderKept ==
  ASSUME QueueTypeOK, QueuedInOrder, NothingGoesBack, QueueTypeOK'
  PROVE  /\ QueuedInOrder'
         /\ \A a \in Actions : stored[a] # "none" /\ Attempted(a) => Attempted(a)'
<1>1. \A a \in Actions : stored[a] # "none" /\ Attempted(a) => Attempted(a)'
  BY DEF QueueTypeOK, NothingGoesBack, Attempted, Pending
<1>2. ASSUME NEW a \in Actions
      PROVE  /\ stored'[a] = "none" => older'[a] = {} /\ sent'[a] = 0
             /\ \A b \in older'[a] : stored'[b] # "none" /\ a \notin older'[b]
  <2> USE DEF QueueTypeOK, QueuedInOrder, NothingGoesBack
  <2>1. CASE stored[a] = "none"
    <3>1. \A b \in Actions : a \notin older[b]
      BY <2>1
    <3>2. \A b \in older'[a] : stored[b] # "none"
      BY <2>1
    <3>3. stored'[a] = "none" => older'[a] = {} /\ sent'[a] = 0
      BY <2>1
    <3> QED
      BY <3>1, <3>2, <3>3
  <2>2. CASE stored[a] # "none"
    BY <2>2
  <2> QED
    BY <2>1, <2>2
<1> QED
  BY <1>1, <1>2 DEF QueuedInOrder

LEMMA GuardKept ==
  ASSUME QueueTypeOK, PassGuarded, [QueueNext]_queueVars
  PROVE  PassGuarded'
<1> USE DEF QueueTypeOK, PassGuarded
<1>1. CASE UNCHANGED queueVars
  BY <1>1 DEF queueVars, tabs
<1>2. ASSUME NEW t \in Tabs, Quiet(t)
      PROVE  PassGuarded'
  BY <1>2 DEF Quiet, GoOnline, GoOffline, ManualSync, DetectConflicts, Load, Succeed,
     CallFails, EndPass, Call, BeginPass
<1>3. ASSUME NEW t \in Tabs, Reload(t)
      PROVE  PassGuarded'
  BY <1>3 DEF Reload
<1>4. ASSUME NEW t \in Tabs, NEW e \in todo[t], Records(t, e) \/ Apply(t, e)
      PROVE  PassGuarded'
  BY <1>4 DEF Records, Skip, RecordSuccess, RecordError, Advance, Apply
<1>5. ASSUME NEW t \in Tabs, NEW a \in Actions, AddAction(t, a) \/ Resolve(t, a)
      PROVE  PassGuarded'
  BY <1>5 DEF AddAction, Resolve, BeginPass
<1> QED
  BY <1>1, <1>2, <1>3, <1>4, <1>5, QueueCases

\* The steps that change what a tab has to do.
LEMMA TodoChanges ==
  ASSUME QueueTypeOK, PassGuarded, [QueueNext]_queueVars, NEW t \in Tabs
  PROVE  \/ todo'[t] = todo[t]
         \/ todo'[t] = {}
         \/ Load(t)
         \/ \E e \in todo[t] :
              Records(t, e) /\ todo'[t] = todo[t] \ {e} /\ step'[t] = "next"
<1> USE DEF QueueTypeOK
<1>1. CASE UNCHANGED queueVars
  BY <1>1 DEF queueVars, tabs
<1>2. ASSUME NEW u \in Tabs, Quiet(u)
      PROVE  todo'[t] = todo[t] \/ Load(t)
  BY <1>2 DEF Quiet, GoOnline, GoOffline, ManualSync, DetectConflicts, Load, Succeed,
     CallFails, EndPass, Call
<1>3. ASSUME NEW u \in Tabs, Reload(u)
      PROVE  todo'[t] = todo[t] \/ todo'[t] = {}
  BY <1>3 DEF Reload
<1>4. ASSUME NEW u \in Tabs, NEW e \in todo[u], Records(u, e) \/ Apply(u, e)
      PROVE  todo'[t] = todo[t]
             \/ (u = t /\ Records(u, e) /\ todo'[t] = todo[t] \ {e} /\ step'[t] = "next")
  <2>1. CASE Records(u, e)
    <3>1. todo' = [todo EXCEPT ![u] = @ \ {e}] /\ step' = [step EXCEPT ![u] = "next"]
      BY <2>1 DEF Records, Skip, RecordSuccess, RecordError, Advance
    <3> QED
      BY <2>1, <3>1
  <2>2. CASE Apply(u, e)
    BY <2>2 DEF Apply
  <2> QED
    BY <1>4, <2>1, <2>2
<1>5. ASSUME NEW u \in Tabs, NEW a \in Actions, AddAction(u, a) \/ Resolve(u, a)
      PROVE  todo'[t] = todo[t]
  BY <1>5 DEF AddAction, Resolve
<1> QED
  BY <1>1, <1>2, <1>3, <1>4, <1>5, QueueCases

LEMMA PassKept ==
  ASSUME QueueTypeOK, QueuedInOrder, PassGuarded, PassInOrder, NothingGoesBack,
         QueueTypeOK', [QueueNext]_queueVars
  PROVE  PassInOrder'
<1>1. \A a \in Actions : stored[a] # "none" /\ Attempted(a) => Attempted(a)'
  BY OrderKept
<1> SUFFICES ASSUME NEW t \in Tabs
             PROVE  Ordered(t)'
  BY DEF PassInOrder
<1>2. Ordered(t)
  BY DEF PassInOrder
<1>3. \A e \in todo[t] :
        /\ e.id \in Actions /\ stored'[e.id] # "none" /\ older'[e.id] = older[e.id]
        /\ \A a \in older[e.id] :
             a \in Actions /\ (Attempted(a)' \/ \E f \in todo[t] : f.id = a)
  BY <1>1, <1>2 DEF QueueTypeOK, Ordered, NothingGoesBack, QueuedInOrder
<1>4. CASE todo'[t] = todo[t]
  BY <1>3, <1>4 DEF Ordered
<1>5. CASE todo'[t] = {}
  BY <1>5 DEF Ordered
<1>6. CASE Load(t)
  <2>1. \A e \in todo'[t] : e.id \in Actions /\ Pending(e.id)
    BY <1>6 DEF Load, QueueTypeOK
  <2>2. \A a \in Actions : Pending(a) => \E f \in todo'[t] : f.id = a
    <3> SUFFICES ASSUME NEW a \in Actions, Pending(a)
                 PROVE  [id |-> a, spent |-> retries[a] >= MaxRetries] \in todo'[t]
      OBVIOUS
    <3> QED
      BY <1>6 DEF Load, QueueTypeOK
  <2>3. UNCHANGED store
    BY <1>6 DEF Load
  <2>4. \A e \in todo'[t] : older[e.id] \subseteq Actions
    BY <2>1 DEF QueueTypeOK
  <2> QED
    BY <2>1, <2>2, <2>3, <2>4 DEF Ordered, Attempted, Pending, store
<1>7. ASSUME NEW e \in todo[t], Records(t, e), todo'[t] = todo[t] \ {e}
      PROVE  Ordered(t)'
  <2>1. Attempted(e.id)'
    BY <1>2, <1>7 DEF Records, Skip, RecordSuccess, RecordError, MarkSynced, MarkError, Exists,
       CountRetry, Counted, Attempted, Pending, Ordered, QueueTypeOK
  <2> QED
    BY <1>3, <1>7, <2>1 DEF Ordered
<1> QED
  BY <1>4, <1>5, <1>6, <1>7, TodoChanges

\* The next entry of a pass stays the same until the pass advances, and there
\* is no second one.
LEMMA NextIsUnique ==
  ASSUME QueueTypeOK, QueuedInOrder, NEW t \in Tabs, NEW e \in todo[t], IsNext(t, e)
  PROVE  \A f \in todo[t] \ {e} : ~IsNext(t, f) /\ f.id # e.id /\ f.id \notin older[e.id]
BY DEF QueueTypeOK, QueuedInOrder, IsNext

LEMMA NextStays ==
  ASSUME QueueTypeOK, PassInOrder, NothingGoesBack, NEW t \in Tabs, todo'[t] = todo[t]
  PROVE  \A e \in todo[t] : IsNext(t, e)' <=> IsNext(t, e)
<1>1. \A e \in todo[t] : older'[e.id] = older[e.id]
  BY DEF QueueTypeOK, PassInOrder, Ordered, NothingGoesBack
<1> QED
  BY <1>1 DEF IsNext

\* The server carries out only what is next in a pass.
LEMMA SendsAreNext ==
  ASSUME QueueTypeOK, [QueueNext]_queueVars, NEW a \in Actions, sent'[a] # sent[a]
  PROVE  /\ sent'[a] = sent[a] + 1
         /\ \E t \in Tabs : \E e \in todo[t] :
              /\ step[t] = "call" /\ IsNext(t, e) /\ e.id = a
              /\ Apply(t, e) \/ Reload(t)
<1> USE DEF QueueTypeOK
<1>1. ASSUME NEW t \in Tabs, Quiet(t)
      PROVE  FALSE
  BY <1>1 DEF Quiet, GoOnline, GoOffline, ManualSync, DetectConflicts, Load, Succeed,
     CallFails, EndPass, Call
<1>2. ASSUME NEW t \in Tabs, NEW e \in todo[t], Records(t, e)
      PROVE  FALSE
  BY <1>2 DEF Records, Skip, RecordSuccess, RecordError, Advance
<1>3. ASSUME NEW t \in Tabs, NEW b \in Actions, AddAction(t, b) \/ Resolve(t, b)
      PROVE  FALSE
  BY <1>3 DEF AddAction, Resolve
<1>4. ASSUME NEW t \in Tabs, NEW e \in todo[t], Apply(t, e)
      PROVE  sent'[a] = sent[a] + 1 /\ step[t] = "call" /\ IsNext(t, e) /\ e.id = a
  BY <1>4 DEF Apply
<1>5. ASSUME NEW t \in Tabs, Reload(t)
      PROVE  /\ sent'[a] = sent[a] + 1
             /\ \E e \in todo[t] : step[t] = "call" /\ IsNext(t, e) /\ e.id = a
  BY <1>5 DEF Reload
<1>6. CASE UNCHANGED queueVars
  BY <1>6 DEF queueVars
<1> QED
  BY <1>1, <1>2, <1>3, <1>4, <1>5, <1>6, QueueCases

LEMMA InOrderKept ==
  ASSUME QueueTypeOK, QueuedInOrder, PassInOrder, InOrderUnlessFailed, NothingGoesBack,
         QueueTypeOK', [QueueNext]_queueVars
  PROVE  InOrderUnlessFailed'
<1>1. \A a \in Actions : stored[a] # "none" /\ Attempted(a) => Attempted(a)'
  BY OrderKept
<1> SUFFICES ASSUME NEW a \in Actions, NEW b \in Actions, a \in older'[b], sent'[b] > 0
             PROVE  Attempted(a)'
  BY DEF InOrderUnlessFailed, Attempted
<1>2. stored[b] # "none" /\ older'[b] = older[b] /\ stored[a] # "none"
  BY DEF QueueTypeOK, QueuedInOrder, NothingGoesBack
<1>3. CASE sent'[b] = sent[b]
  BY <1>1, <1>2, <1>3 DEF InOrderUnlessFailed, Attempted
<1>4. CASE sent'[b] # sent[b]
  <2>1. PICK t \in Tabs : \E e \in todo[t] : step[t] = "call" /\ IsNext(t, e) /\ e.id = b
    BY <1>4, SendsAreNext
  <2>2. PICK e \in todo[t] : IsNext(t, e) /\ e.id = b
    BY <2>1
  <2>3. \A f \in todo[t] : f.id # a
    BY <1>2, <2>2, NextIsUnique DEF QueuedInOrder
  <2>4. Attempted(a)
    BY <1>2, <2>2, <2>3 DEF PassInOrder, Ordered
  <2> QED
    BY <1>1, <1>2, <2>4
<1> QED
  BY <1>3, <1>4

LEMMA RepliesKept ==
  ASSUME QueueTypeOK, QueuedInOrder, PassInOrder, RepliesAreTrue, NothingGoesBack,
         PassGuarded, QueueTypeOK', [QueueNext]_queueVars
  PROVE  RepliesAreTrue'
<1> SUFFICES ASSUME NEW t \in Tabs, step'[t] \in {"applied", "ok"},
                    NEW e \in todo'[t], IsNext(t, e)'
             PROVE  sent'[e.id] > 0
  BY DEF RepliesAreTrue
<1>1. todo'[t] = todo[t]
  BY TodoChanges DEF Load, QueueTypeOK
<1>2. IsNext(t, e) /\ e.id \in Actions
  BY <1>1, NextStays DEF QueueTypeOK
<1>3. step[t] \in {"applied", "ok"} \/ sent'[e.id] = sent[e.id] + 1
  <2> USE DEF QueueTypeOK
  <2>1. ASSUME NEW u \in Tabs, Quiet(u)
        PROVE  step[t] \in {"applied", "ok"}
    BY <2>1 DEF Quiet, GoOnline, GoOffline, ManualSync, DetectConflicts, Load, Succeed,
       CallFails, EndPass, Call, BeginPass
  <2>2. ASSUME NEW u \in Tabs, Reload(u)
        PROVE  step[t] \in {"applied", "ok"}
    BY <2>2 DEF Reload
  <2>3. ASSUME NEW u \in Tabs, NEW f \in todo[u], Records(u, f)
        PROVE  step[t] \in {"applied", "ok"}
    BY <2>3 DEF Records, Skip, RecordSuccess, RecordError, Advance
  <2>4. ASSUME NEW u \in Tabs, NEW b \in Actions, AddAction(u, b) \/ Resolve(u, b)
        PROVE  step[t] \in {"applied", "ok"}
    BY <2>4 DEF AddAction, Resolve, BeginPass
  <2>5. ASSUME NEW u \in Tabs, NEW f \in todo[u], Apply(u, f)
        PROVE  step[t] \in {"applied", "ok"} \/ sent'[e.id] = sent[e.id] + 1
    <3>1. CASE u # t
      BY <2>5, <3>1 DEF Apply
    <3>2. CASE u = t
      <4>1. f = e
        BY <1>1, <1>2, <2>5, <3>2, NextIsUnique DEF Apply
      <4> QED
        BY <1>2, <2>5, <4>1 DEF Apply
    <3> QED
      BY <3>1, <3>2
  <2>6. CASE UNCHANGED queueVars
    BY <2>6 DEF queueVars, tabs
  <2> QED
    BY <2>1, <2>2, <2>3, <2>4, <2>5, <2>6, QueueCases
<1> QED
  BY <1>1, <1>2, <1>3 DEF RepliesAreTrue, NothingGoesBack, QueueTypeOK

\* A pass ends with its page, or goes on: it neither loads again nor, unless it
\* advances, goes back to the call.
LEMMA PassGoesOn ==
  ASSUME QueueTypeOK, QueueTypeOK', [QueueNext]_queueVars, NEW t \in Tabs,
         ~Reload(t), syncing[t], step[t] # "load"
  PROVE  /\ syncing'[t] /\ step'[t] # "load"
         /\ step'[t] \in {"next", "call"} /\ todo'[t] = todo[t] => step[t] \in {"next", "call"}
<1> USE DEF QueueTypeOK
<1> DEFINE GoesOn == /\ syncing'[t] /\ step'[t] # "load"
                     /\ step'[t] \in {"next", "call"} /\ todo'[t] = todo[t]
                          => step[t] \in {"next", "call"}
<1>1. ASSUME NEW u \in Tabs, Quiet(u)
      PROVE  GoesOn
  BY <1>1 DEF Quiet, GoOnline, GoOffline, ManualSync, DetectConflicts, Load, Succeed,
     CallFails, EndPass, Call, BeginPass
<1>2. ASSUME NEW u \in Tabs, Reload(u)
      PROVE  GoesOn
  <2>1. u # t
    BY <1>2
  <2>2. syncing'[t] = syncing[t] /\ step'[t] = step[t]
    BY <1>2, <2>1 DEF Reload
  <2> QED
    BY <2>2
<1>3. ASSUME NEW u \in Tabs, NEW e \in todo[u], Records(u, e)
      PROVE  GoesOn
  <2>1. /\ todo' = [todo EXCEPT ![u] = @ \ {e}] /\ step' = [step EXCEPT ![u] = "next"]
        /\ UNCHANGED syncing
    BY <1>3 DEF Records, Skip, RecordSuccess, RecordError, Advance
  <2> QED
    BY <1>3, <2>1
<1>4. ASSUME NEW u \in Tabs, NEW e \in todo[u], Apply(u, e)
      PROVE  GoesOn
  BY <1>4 DEF Apply
<1>5. ASSUME NEW u \in Tabs, NEW a \in Actions, AddAction(u, a) \/ Resolve(u, a)
      PROVE  GoesOn
  BY <1>5 DEF AddAction, Resolve, BeginPass
<1>6. CASE UNCHANGED queueVars
  BY <1>6 DEF queueVars, tabs
<1> QED
  BY <1>1, <1>2, <1>3, <1>4, <1>5, <1>6, QueueCases

\* No step but the loading of a page lets a tab send an action again.
LEMMA MaySendShrinks ==
  ASSUME QueueTypeOK, QueuedInOrder, PassGuarded, PassInOrder, NothingGoesBack,
         QueueTypeOK', [QueueNext]_queueVars, NEW a \in Actions, NEW t \in Tabs,
         ~Reload(t), t \in MaySend(a)'
  PROVE  t \in MaySend(a)
<1>1. CASE ~syncing[t] \/ step[t] = "load"
  BY <1>1 DEF MaySend
<1>2. CASE syncing[t] /\ step[t] # "load"
  <2>1. PICK e \in todo'[t] : e.id = a /\ (step'[t] \in {"next", "call"} \/ ~IsNext(t, e)')
    BY <1>2, PassGoesOn DEF MaySend
  <2>2. CASE todo'[t] = todo[t]
    BY <1>2, <2>1, <2>2, PassGoesOn, NextStays DEF MaySend
  <2>3. ASSUME NEW f \in todo[t], Records(t, f), todo'[t] = todo[t] \ {f}
        PROVE  t \in MaySend(a)
    <3>1. IsNext(t, f)
      BY <2>3 DEF Records, Skip, RecordSuccess, RecordError
    <3>2. ~IsNext(t, e)
      BY <2>1, <2>3, <3>1, NextIsUnique
    <3> QED
      BY <2>1, <2>3, <3>2 DEF MaySend
  <2>4. ~Load(t)
    BY <1>2 DEF Load
  <2> QED
    BY <2>1, <2>2, <2>3, <2>4, TodoChanges
<1> QED
  BY <1>1, <1>2

\* A tab that had an action carried out waits until it is loaded again.
LEMMA SenderIsDone ==
  ASSUME QueueTypeOK, QueuedInOrder, PassGuarded, PassInOrder, NothingGoesBack,
         QueueTypeOK', NEW t \in Tabs, NEW e \in todo[t], Apply(t, e)
  PROVE  t \in MaySend(e.id) /\ t \notin MaySend(e.id)'
<1> USE DEF QueueTypeOK
<1>1. step[t] = "call" /\ IsNext(t, e) /\ step'[t] = "applied" /\ UNCHANGED <<syncing, todo>>
  BY DEF Apply
<1>2. t \in MaySend(e.id)
  BY <1>1 DEF MaySend
<1>3. syncing'[t]
  BY <1>1 DEF PassGuarded
<1>4. \A f \in todo'[t] : f.id = e.id => IsNext(t, f)'
  BY <1>1, NextIsUnique, NextStays
<1> QED
  BY <1>1, <1>2, <1>3, <1>4 DEF MaySend

\* There are finitely many tabs.
LEMMA CountingTabs ==
  ASSUME NEW S \in SUBSET Tabs
  PROVE  /\ IsFiniteSet(S) /\ Cardinality(S) \in Nat /\ Cardinality(Tabs) \in Nat
         /\ Cardinality(S) <= Cardinality(Tabs)
         /\ \A T \in SUBSET S : Cardinality(T) <= Cardinality(S)
         /\ \A T \in SUBSET Tabs : \A t \in Tabs :
              /\ T \subseteq S \ {t} /\ t \in S => Cardinality(T) <= Cardinality(S) - 1
              /\ T \subseteq S \cup {t} => Cardinality(T) <= Cardinality(S) + 1
<1>1. IsFiniteSet(S) /\ Cardinality(S) \in Nat /\ Cardinality(Tabs) \in Nat
      /\ Cardinality(S) <= Cardinality(Tabs)
  BY FS_Subset, FS_CardinalityType
<1>2. \A T \in SUBSET S : Cardinality(T) <= Cardinality(S)
  BY <1>1, FS_Subset
<1>3. ASSUME NEW T \in SUBSET Tabs, NEW t \in Tabs, T \subseteq S \ {t}, t \in S
      PROVE  Cardinality(T) <= Cardinality(S) - 1
  <2>1. IsFiniteSet(S \ {t}) /\ Cardinality(S \ {t}) = Cardinality(S) - 1
    BY <1>1, <1>3, FS_RemoveElement
  <2> QED
    BY <1>3, <2>1, FS_Subset
<1>4. ASSUME NEW T \in SUBSET Tabs, NEW t \in Tabs, T \subseteq S \cup {t}
      PROVE  Cardinality(T) <= Cardinality(S) + 1
  <2>1. /\ IsFiniteSet(S \cup {t}) /\ Cardinality(S \cup {t}) \in Nat
        /\ Cardinality(S \cup {t}) <= Cardinality(S) + 1
    <3>1. /\ IsFiniteSet(S \cup {t})
          /\ Cardinality(S \cup {t}) = IF t \in S THEN Cardinality(S) ELSE Cardinality(S) + 1
      BY <1>1, FS_AddElement
    <3> QED
      BY <1>1, <3>1
  <2>2. Cardinality(T) <= Cardinality(S \cup {t}) /\ Cardinality(T) \in Nat
    BY <1>4, <2>1, FS_Subset, FS_CardinalityType
  <2> QED
    BY <1>1, <2>1, <2>2
<1> QED
  BY <1>1, <1>2, <1>3, <1>4

LEMMA SendsKept ==
  ASSUME QueueTypeOK, QueuedInOrder, PassGuarded, PassInOrder, NothingGoesBack, SendsLeft,
         QueueTypeOK', [QueueNext]_queueVars
  PROVE  SendsLeft'
<1> USE DEF QueueTypeOK
<1> SUFFICES ASSUME NEW a \in Actions
             PROVE  sent'[a] + Cardinality(MaySend(a)') <= Cardinality(Tabs) + reloads'
  BY DEF SendsLeft
<1> DEFINE before == MaySend(a)
           after == MaySend(a)'
<1>1. before \in SUBSET Tabs /\ after \in SUBSET Tabs
  BY DEF MaySend
<1>2. sent[a] + Cardinality(before) <= Cardinality(Tabs) + reloads
  BY DEF SendsLeft
<1>3. /\ sent[a] \in Nat /\ sent'[a] \in Nat /\ reloads \in Nat /\ reloads' \in Nat
      /\ Cardinality(before) \in Nat /\ Cardinality(after) \in Nat /\ Cardinality(Tabs) \in Nat
  BY <1>1, CountingTabs
<1>4. ASSUME NEW t \in Tabs, Reload(t)
      PROVE  sent'[a] + Cardinality(after) <= Cardinality(Tabs) + reloads'
  <2>1. reloads' = reloads + 1
    BY <1>4 DEF Reload
  <2>3. after \subseteq before \cup {t}
    <3> SUFFICES ASSUME NEW u \in Tabs \ {t}, u \in after
                 PROVE  u \in before
      BY <1>1
    <3>1. /\ syncing'[u] = syncing[u] /\ step'[u] = step[u] /\ todo'[u] = todo[u]
          /\ UNCHANGED older
      BY <1>4 DEF Reload, store
    <3> QED
      BY <3>1 DEF MaySend, IsNext
  <2>4. CASE sent'[a] = sent[a]
    <3>1. Cardinality(after) <= Cardinality(before) + 1
      BY <1>1, <2>3, CountingTabs
    <3> HIDE DEF before, after
    <3> QED
      BY <1>2, <1>3, <2>1, <2>4, <3>1
  <2>5. CASE sent'[a] # sent[a]
    <3>1. sent'[a] = sent[a] + 1
      BY <2>5, SendsAreNext
    <3>2. \E e \in todo[t] : step[t] = "call" /\ e.id = a
      BY <1>4, <2>5 DEF Reload
    <3>3. after \subseteq before
      BY <2>3, <3>2 DEF MaySend
    <3>4. Cardinality(after) <= Cardinality(before)
      BY <1>1, <3>3, CountingTabs
    <3> HIDE DEF before, after
    <3> QED
      BY <1>2, <1>3, <2>1, <3>1, <3>4
  <2> QED
    BY <2>4, <2>5
<1>5. CASE \A t \in Tabs : ~Reload(t)
  <2>1. after \subseteq before
    BY <1>1, <1>5, MaySendShrinks
  <2>2. reloads' = reloads
    <3>1. ASSUME NEW t \in Tabs, Quiet(t)
          PROVE  reloads' = reloads
      BY <3>1 DEF Quiet, GoOnline, GoOffline, ManualSync, DetectConflicts, Load, Succeed,
         CallFails, EndPass, Call
    <3>2. ASSUME NEW t \in Tabs, NEW e \in todo[t], Records(t, e) \/ Apply(t, e)
          PROVE  reloads' = reloads
      BY <3>2 DEF Records, Skip, RecordSuccess, RecordError, Advance, Apply
    <3>3. ASSUME NEW t \in Tabs, NEW b \in Actions, AddAction(t, b) \/ Resolve(t, b)
          PROVE  reloads' = reloads
      BY <3>3 DEF AddAction, Resolve
    <3>4. CASE UNCHANGED queueVars
      BY <3>4 DEF queueVars
    <3> QED
      BY <1>5, <3>1, <3>2, <3>3, <3>4, QueueCases
  <2>3. CASE sent'[a] = sent[a]
    <3>1. Cardinality(after) <= Cardinality(before)
      BY <1>1, <2>1, CountingTabs
    <3>2. sent'[a] + Cardinality(after) <= Cardinality(Tabs) + reloads'
      <4> HIDE DEF before, after
      <4> QED
        BY <1>2, <1>3, <2>2, <2>3, <3>1
    <3> QED
      BY <3>2
  <2>4. CASE sent'[a] # sent[a]
    <3>1. sent'[a] = sent[a] + 1
      BY <2>4, SendsAreNext
    <3>2. PICK t \in Tabs : \E e \in todo[t] : e.id = a /\ Apply(t, e)
      BY <1>5, <2>4, SendsAreNext
    <3>3. t \in before /\ t \notin after
      BY <3>2, SenderIsDone
    <3>4. after \subseteq before \ {t}
      BY <2>1, <3>3
    <3>5. Cardinality(after) <= Cardinality(before) - 1
      BY <1>1, <3>3, <3>4, CountingTabs
    <3> QED
      BY <1>2, <1>3, <2>2, <3>1, <3>5
  <2> QED
    BY <2>3, <2>4
<1> QED
  BY <1>4, <1>5

-----------------------------------------------------------------------------
(* The theorems *)

LEMMA QueueInvInit == QueueInit => QueueInv
<1> SUFFICES ASSUME QueueInit
             PROVE  QueueInv
  OBVIOUS
<1>1. QueueTypeOK
  BY DEF QueueInit, QueueTypeOK
<1>2. QueuedInOrder /\ PassGuarded /\ PassInOrder /\ InOrderUnlessFailed /\ RepliesAreTrue
  BY DEF QueueInit, QueuedInOrder, PassGuarded, PassInOrder, Ordered, InOrderUnlessFailed,
     RepliesAreTrue
<1>3. ASSUME NEW a \in Actions
      PROVE  sent[a] + Cardinality(MaySend(a)) <= Cardinality(Tabs) + reloads
  <2>1. MaySend(a) \in SUBSET Tabs
    BY DEF MaySend
  <2>2. /\ Cardinality(MaySend(a)) \in Nat /\ Cardinality(Tabs) \in Nat
        /\ Cardinality(MaySend(a)) <= Cardinality(Tabs)
    BY <2>1, CountingTabs
  <2> QED
    BY <2>2 DEF QueueInit
<1> QED
  BY <1>1, <1>2, <1>3 DEF QueueInv, SendsLeft

LEMMA QueueInvStep == QueueInv /\ [QueueNext]_queueVars => QueueInv'
<1> SUFFICES ASSUME QueueInv, [QueueNext]_queueVars
             PROVE  QueueInv'
  OBVIOUS
<1> USE DEF QueueInv
<1>1. QueueTypeOK'
  BY QueueTypesKept
<1>2. NothingGoesBack
  BY StoreGrows
<1>3. QueuedInOrder' /\ PassGuarded' /\ PassInOrder'
  BY <1>1, <1>2, OrderKept, GuardKept, PassKept
<1>4. InOrderUnlessFailed' /\ RepliesAreTrue' /\ SendsLeft'
  BY <1>1, <1>2, InOrderKept, RepliesKept, SendsKept
<1> QED
  BY <1>1, <1>3, <1>4

LEMMA QueueInvImplies == QueueInv => OncePerPage
<1> SUFFICES ASSUME QueueInv, NEW a \in Actions
             PROVE  sent[a] <= Cardinality(Tabs) + reloads
  BY DEF OncePerPage
<1>1. MaySend(a) \in SUBSET Tabs
  BY DEF MaySend
<1>2. Cardinality(MaySend(a)) \in Nat /\ Cardinality(Tabs) \in Nat
  BY <1>1, CountingTabs
<1> QED
  BY <1>2 DEF QueueInv, SendsLeft, QueueTypeOK

\* A pass leaves the pending state behind only for an action whose reply came.
LEMMA PendingIsSettled ==
  ASSUME QueueInv, [QueueNext]_queueVars, NEW a \in Actions, Pending(a), stored'[a] # "pending"
  PROVE  sent[a] > 0 \/ \E t \in Tabs : a \in conflicts[t] \ conflicts'[t]
<1> USE DEF QueueInv, QueueTypeOK, Pending, store
<1>1. ~UNCHANGED queueVars /\ \A t \in Tabs : ~Quiet(t) /\ ~Reload(t)
  <2>1. ASSUME NEW t \in Tabs, Quiet(t)
        PROVE  UNCHANGED stored
    BY <2>1 DEF Quiet, GoOnline, GoOffline, ManualSync, DetectConflicts, Load, Succeed,
       CallFails, EndPass, Call
  <2> QED
    BY <2>1 DEF Reload, queueVars
<1>2. ASSUME NEW t \in Tabs, NEW e \in todo[t], Records(t, e)
      PROVE  sent[a] > 0
  <2>1. RecordSuccess(t, e) /\ e.id = a
    BY <1>2 DEF Records, Skip, RecordSuccess, RecordError, MarkError, MarkSynced
  <2> QED
    BY <2>1 DEF RecordSuccess, RepliesAreTrue
<1>3. ASSUME NEW t \in Tabs, NEW e \in todo[t], Apply(t, e)
      PROVE  FALSE
  BY <1>3 DEF Apply
<1>4. ASSUME NEW t \in Tabs, NEW b \in Actions, AddAction(t, b)
      PROVE  FALSE
  BY <1>4 DEF AddAction
<1>5. ASSUME NEW t \in Tabs, NEW b \in Actions, Resolve(t, b)
      PROVE  a \in conflicts[t] \ conflicts'[t]
  BY <1>5 DEF Resolve, MarkSynced, MarkError, Delete
<1> QED
  BY <1>1, <1>2, <1>3, <1>4, <1>5, QueueCases

LEMMA QueueInvariance == QueueSpec => []QueueInv
BY QueueInvInit, QueueInvStep, PTL DEF QueueSpec

\* Every variable keeps its type, in any number of tabs.
THEOREM QueueTypeCorrect == QueueSpec => []QueueTypeOK
<1>1. QueueInv => QueueTypeOK
  BY DEF QueueInv
<1> QED
  BY <1>1, QueueInvariance, PTL

\* However many tabs pass over the queue, an action is carried out only after
\* every action queued before it was attempted or settled.
THEOREM QueueOrder == QueueSpec => []InOrderUnlessFailed
<1>1. QueueInv => InOrderUnlessFailed
  BY DEF QueueInv
<1> QED
  BY <1>1, QueueInvariance, PTL

\* A page has each action carried out at most once per load.
THEOREM QueueRepeats == QueueSpec => []OncePerPage
BY QueueInvImplies, QueueInvariance, PTL

\* What leaves the pending state was carried out or resolved by the user.
THEOREM QueueSettles == QueueSpec => SettledBySendOrUser
<1>1. QueueInv /\ [QueueNext]_queueVars =>
        [\A a \in Actions :
           Pending(a) /\ stored'[a] # "pending"
             => sent[a] > 0 \/ \E t \in Tabs : a \in conflicts[t] \ conflicts'[t]]_queueVars
  BY PendingIsSettled
<1> QED
  BY <1>1, QueueInvariance, PTL DEF QueueSpec, SettledBySendOrUser
=============================================================================
