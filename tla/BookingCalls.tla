---------------------------- MODULE BookingCalls ----------------------------
(***************************************************************************)
(* The browser's side of Scheduling: enhancedApiClient.post                *)
(* (frontend/src/lib/api-client-enhanced.ts), whose retry loop wraps the   *)
(* one of apiClient.fetch (frontend/src/lib/api-client.ts), over a network *)
(* that loses requests and answers.  A lost answer leaves the server at    *)
(* work on the request while the client sends the next one.                *)
(*                                                                         *)
(* Send n of call c is request <<c, n>> of Scheduling.  Delays between the *)
(* sends take any time.  offlineQueue is not modelled: no caller sets it.  *)
(***************************************************************************)
EXTENDS Integers

CONSTANTS
  Calls,         \* user actions that create a booking or an event
  InnerRetries,  \* maxRetries of ApiClient.fetch
  OuterRetries,  \* DEFAULT_RETRY_CONFIG.maxRetries
  Slots, LockTtl, MaxTouched, MaxFaults, Nobody  \* see Scheduling

ASSUME CallsAssumption ==
  /\ InnerRetries \in Nat /\ OuterRetries \in Nat /\ MaxFaults \in Nat
  /\ LockTtl \in Nat \ {0} /\ MaxTouched \in Nat
  /\ \A s \in Slots : s[1] < s[2]

\* What the two loops can send at most.
MaxSends == (1 + InnerRetries) * (1 + OuterRetries)
Requests == Calls \X (1..MaxSends)

ASSUME WriterAssumption == Nobody \notin Requests

VARIABLES
  at, job, rows, writer, locks, settled, touched, faults,  \* the server: Scheduling
  call      \* per call: phase, what it asks for, sends so far, retries of both loops

INSTANCE Scheduling

handlers == <<at, job, rows, writer, locks, settled, touched>>
callsVars == <<at, job, rows, writer, locks, settled, touched, faults, call>>

Outcomes == {"booked", "refused", "failed", "unreachable"}
Phases == {"idle", "sending", "waiting"} \cup Outcomes

\* Every variable has its type; a call never sends more than both loops allow,
\* and the retry counters stay within theirs.
CallsTypeOK ==
  /\ ServerTypeOK
  /\ call \in [Calls -> [phase: Phases, asks: Jobs \cup {NoJob}, sends: 0..MaxSends, inner: 0..InnerRetries, outer: 0..OuterRetries]]

CallsInit ==
  /\ ServerInit
  /\ call = [c \in Calls |-> [phase |-> "idle", asks |-> NoJob, sends |-> 0, inner |-> 0, outer |-> 0]]
-----------------------------------------------------------------------------
Current(c) == <<c, call[c].sends>>
Update(c, record) == call' = [call EXCEPT ![c] = record]

\* The record r of a call as it is posted, and as a request is sent for it.
Posted(r, j) == [r EXCEPT !.phase = "sending", !.asks = j]
Sent(r) == [r EXCEPT !.phase = "waiting", !.sends = @ + 1]

Post(c, j) ==
  /\ call[c].phase = "idle"
  /\ Update(c, Posted(call[c], j))
  /\ UNCHANGED <<handlers, faults>>

Send(c) ==
  /\ call[c].phase = "sending"
  /\ Update(c, Sent(call[c]))
  /\ Arrive(<<c, call[c].sends + 1>>, call[c].asks)

\* "Failed to fetch" in the inner loop, then, as the error that loop rethrows,
\* in the outer one, which starts the inner loop again.
InnerAgain(r) == [r EXCEPT !.phase = "sending", !.inner = @ + 1]
OuterAgain(r) == [r EXCEPT !.phase = "sending", !.inner = 0, !.outer = @ + 1]
Ended(r, outcome) == [r EXCEPT !.phase = outcome, !.inner = 0, !.outer = 0]

AfterNetworkError(r) ==
  CASE r.inner < InnerRetries -> InnerAgain(r)
    [] r.inner = InnerRetries /\ r.outer < OuterRetries -> OuterAgain(r)
    [] OTHER -> Ended(r, "unreachable")

\* Mutant: one retry too many.
AfterServerErrorOneMore(r) ==
  IF r.inner <= InnerRetries THEN InnerAgain(r) ELSE Ended(r, "failed")

\* A 5xx answer is retried by the inner loop only: the error that loop throws
\* at last carries the server's words, which isRetryableError does not know.
AfterServerError(r) ==
  IF r.inner < InnerRetries THEN InnerAgain(r) ELSE Ended(r, "failed")

\* The request does not reach the server, or its answer does not come back.
NetworkFails(c) ==
  /\ call[c].phase \in {"sending", "waiting"} /\ Fault
  /\ Update(c, AfterNetworkError(call[c]))
  /\ UNCHANGED handlers

Receive(c) ==
  /\ call[c].phase = "waiting"
  /\ \/ at[Current(c)] = "ok" /\ Update(c, Ended(call[c], "booked"))
     \/ at[Current(c)] = "conflict" /\ Update(c, Ended(call[c], "refused"))
     \/ at[Current(c)] = "error" /\ Update(c, AfterServerError(call[c]))
  /\ UNCHANGED <<handlers, faults>>

Server == \E r \in Requests : Serve(r) /\ UNCHANGED call

CallsNext ==
  \/ \E c \in Calls : \/ \E j \in Jobs : Post(c, j)
                      \/ Send(c) \/ NetworkFails(c) \/ Receive(c)
  \/ Server
  \/ Edit /\ UNCHANGED call
  \/ Tick /\ UNCHANGED call

CallsSpec == CallsInit /\ [][CallsNext]_callsVars
-----------------------------------------------------------------------------
RowsOf(c) == {r \in Requests : r[1] = c /\ rows[r] # "none"}

\* A user who is told "booked" has a row.
BookedIsStored ==
  \A c \in Calls : call[c].phase = "booked" => RowsOf(c) # {}
=============================================================================
