--------------------------- MODULE CircuitBreaker ---------------------------
(***************************************************************************)
(* One named breaker of backend/utils/circuit_breaker.py and the           *)
(* coroutines that go through its decorator.  can_execute() and the        *)
(* record_*() methods never suspend while they touch the state, so each is *)
(* one step; the protected call runs between the admission and the         *)
(* recording of its outcome, and that is where coroutines interleave.      *)
(*                                                                         *)
(* Three abstractions.  The two consecutive-outcome counters saturate at   *)
(* their thresholds, beyond which the code cannot tell them apart.  The    *)
(* wall clock is kept as the age of the last recorded failure, saturated   *)
(* at recovery_timeout.  The monitoring totals (failures, successes,       *)
(* total_calls, rejected_calls) decide nothing and are left out.           *)
(***************************************************************************)
EXTENDS Integers, FiniteSets

CONSTANTS
  Calls,             \* the coroutines that may be inside the decorator
  FailureThreshold,
  SuccessThreshold,
  HalfOpenMaxCalls,
  RecoveryTimeout

ASSUME BreakerAssumption ==
  /\ FailureThreshold \in Nat \ {0}
  /\ SuccessThreshold \in Nat \ {0}
  /\ HalfOpenMaxCalls \in Nat
  /\ RecoveryTimeout \in Nat \ {0}

VARIABLES
  state,                 \* CircuitState
  consecutiveFailures,
  consecutiveSuccesses,
  halfOpenCalls,
  failureAge,            \* ticks since last_failure_time, or NoFailure
  call,                  \* where each coroutine is, see CallStates
  leaked                 \* history: whose probes of this half-open period left unrecorded

vars == <<state, consecutiveFailures, consecutiveSuccesses, halfOpenCalls,
          failureAge, call, leaked>>

\* A call in flight is "current" when it was admitted in the breaker's present
\* period and "stale" when the breaker has changed state since.
CallStates == {"idle", "current", "stale"}

NoFailure == -1

Saturate(n, bound) == IF n < bound THEN n ELSE bound

InFlight == {c \in Calls : call[c] # "idle"}
Current  == {c \in Calls : call[c] = "current"}

TypeOK ==
  /\ state \in {"CLOSED", "OPEN", "HALF_OPEN"}
  /\ consecutiveFailures \in 0..FailureThreshold
  /\ consecutiveSuccesses \in 0..SuccessThreshold
  /\ halfOpenCalls \in 0..HalfOpenMaxCalls
  /\ failureAge \in 0..RecoveryTimeout \cup {NoFailure}
  /\ call \in [Calls -> CallStates]
  /\ leaked \subseteq Calls

Init ==
  /\ state = "CLOSED"
  /\ consecutiveFailures = 0
  /\ consecutiveSuccesses = 0
  /\ halfOpenCalls = 0
  /\ failureAge = NoFailure
  /\ call = [c \in Calls |-> "idle"]
  /\ leaked = {}

-----------------------------------------------------------------------------
(* can_execute *)

RecoveryDue == state = "OPEN" /\ failureAge = RecoveryTimeout

SlotFreeOffByOne == state = "HALF_OPEN" /\ halfOpenCalls <= HalfOpenMaxCalls
SlotFree == state = "HALF_OPEN" /\ halfOpenCalls < HalfOpenMaxCalls

\* What can_execute() would answer now.
CanExecute == state = "CLOSED" \/ RecoveryDue \/ SlotFree

\* Every call in flight belongs to a period that has ended.
Outdated == [c \in Calls |-> IF call[c] = "current" THEN "stale" ELSE call[c]]

AdmitClosed(c) ==
  /\ call[c] = "idle"
  /\ state = "CLOSED"
  /\ call' = [call EXCEPT ![c] = "current"]
  /\ UNCHANGED <<state, consecutiveFailures, consecutiveSuccesses,
                 halfOpenCalls, failureAge, leaked>>

\* The call that finds the recovery timeout elapsed turns the breaker to
\* HALF_OPEN and goes through without taking one of the half-open slots.
AdmitRecovery(c) ==
  /\ call[c] = "idle"
  /\ RecoveryDue
  /\ state' = "HALF_OPEN"
  /\ halfOpenCalls' = 0
  /\ call' = [Outdated EXCEPT ![c] = "current"]
  /\ leaked' = {}
  /\ UNCHANGED <<consecutiveFailures, consecutiveSuccesses, failureAge>>

AdmitProbe(c) ==
  /\ call[c] = "idle"
  /\ SlotFree
  /\ halfOpenCalls' = halfOpenCalls + 1
  /\ call' = [call EXCEPT ![c] = "current"]
  /\ UNCHANGED <<state, consecutiveFailures, consecutiveSuccesses,
                 failureAge, leaked>>

Admit(c) == AdmitClosed(c) \/ AdmitRecovery(c) \/ AdmitProbe(c)

-----------------------------------------------------------------------------
(* The protected call returns *)

ClosesFromAnyState == state # "CLOSED" /\ consecutiveSuccesses + 1 >= SuccessThreshold
ClosesOneLate == state = "HALF_OPEN" /\ consecutiveSuccesses >= SuccessThreshold
Closes == state = "HALF_OPEN" /\ consecutiveSuccesses + 1 >= SuccessThreshold

TripsOneLate == state = "CLOSED" /\ consecutiveFailures >= FailureThreshold
Trips   == state = "CLOSED" /\ consecutiveFailures + 1 >= FailureThreshold
Reopens == state = "HALF_OPEN"

Succeed(c) ==
  /\ call[c] # "idle"
  /\ consecutiveSuccesses' = Saturate(consecutiveSuccesses + 1, SuccessThreshold)
  /\ consecutiveFailures' = 0
  /\ state' = IF Closes THEN "CLOSED" ELSE state
  /\ halfOpenCalls' = IF Closes THEN 0 ELSE halfOpenCalls
  /\ call' = [(IF Closes THEN Outdated ELSE call) EXCEPT ![c] = "idle"]
  /\ UNCHANGED <<failureAge, leaked>>

Fail(c) ==
  /\ call[c] # "idle"
  /\ consecutiveFailures' = Saturate(consecutiveFailures + 1, FailureThreshold)
  /\ consecutiveSuccesses' = 0
  /\ failureAge' = 0
  /\ state' = IF Trips \/ Reopens THEN "OPEN" ELSE state
  /\ halfOpenCalls' = IF Reopens THEN 0 ELSE halfOpenCalls
  /\ call' = [(IF Trips \/ Reopens THEN Outdated ELSE call) EXCEPT ![c] = "idle"]
  /\ UNCHANGED leaked

\* asyncio.TimeoutError, a nested CircuitBreakerOpen or a cancellation leaves
\* through the wrapper with no record: the half-open slot of the call stays taken.
Unrecorded(c) ==
  /\ call[c] # "idle"
  /\ call' = [call EXCEPT ![c] = "idle"]
  /\ leaked' = IF state = "HALF_OPEN" /\ call[c] = "current" THEN leaked \cup {c} ELSE leaked
  /\ UNCHANGED <<state, consecutiveFailures, consecutiveSuccesses,
                 halfOpenCalls, failureAge>>

Return(c) == Succeed(c) \/ Fail(c) \/ Unrecorded(c)

\* reset(): an operator forces the breaker closed and clears its statistics;
\* calls in flight are not told.
Reset ==
  /\ state' = "CLOSED"
  /\ consecutiveFailures' = 0
  /\ consecutiveSuccesses' = 0
  /\ failureAge' = NoFailure
  /\ halfOpenCalls' = 0
  /\ call' = Outdated
  /\ UNCHANGED leaked

Tick ==
  /\ failureAge \in 0..(RecoveryTimeout - 1)
  /\ failureAge' = failureAge + 1
  /\ UNCHANGED <<state, consecutiveFailures, consecutiveSuccesses,
                 halfOpenCalls, call, leaked>>

Next ==
  \/ \E c \in Calls : Admit(c) \/ Return(c)
  \/ Reset
  \/ Tick

Spec == Init /\ [][Next]_vars

\* Time passes, callers keep calling, and an admitted call ends: every tool the
\* breaker protects has a client timeout of its own.
Fairness ==
  /\ WF_vars(Tick)
  /\ WF_vars(\E c \in Calls : Admit(c))
  /\ \A c \in Calls : WF_vars(Return(c))

FairSpec == Spec /\ Fairness

-----------------------------------------------------------------------------
(* Properties *)

\* The service under test is protected: however calls admitted in earlier
\* periods overlap with it, a HALF_OPEN period has at most one call more in
\* flight than half_open_max_calls (the one that opened the period).
ProbeBound ==
  state = "HALF_OPEN" => Cardinality(Current) <= HalfOpenMaxCalls + 1

\* The breaker is never closed with failure_threshold consecutive failures on
\* record, whatever order late results of earlier periods arrive in.
ClosedBelowThreshold ==
  state = "CLOSED" => consecutiveFailures < FailureThreshold

\* A breaker that rejects on a timer has a running timer: without a failure
\* time can_execute() would answer False for ever.
OpenHasDeadline ==
  state # "CLOSED" => failureAge # NoFailure

\* An open breaker becomes passable only through a probe or a reset: the late
\* success of a call admitted before it opened does not close it.
OpenIsLeftByProbeOrReset ==
  [][state = "OPEN" /\ state' = "CLOSED" => failureAge' = NoFailure]_vars

\* Once the protected service stops failing and timing out for good, the breaker
\* is closed again, and again after every opening, unless a probe of the period
\* it is in had left unrecorded before.
Recovers ==
  <>[][\A c \in Calls : ~Fail(c) /\ ~Unrecorded(c)]_vars
    => []<>(state = "CLOSED") \/ <>[](state = "HALF_OPEN" /\ leaked # {})

\* can_execute's docstring: "True if call should proceed, False if circuit is
\* open".  A breaker that is not open and has no call in flight admits, whatever
\* results of earlier periods arrived in between, unless the slots were lost to
\* calls that left unrecorded.  (Where the slots do not suffice for
\* success_threshold, successes use them up as well.)
IdleBreakerAdmits ==
  state # "OPEN" /\ InFlight = {} /\ SuccessThreshold <= HalfOpenMaxCalls + 1
    => CanExecute \/ leaked # {}
=============================================================================
