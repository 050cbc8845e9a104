------------------------ MODULE CircuitBreakerProofs ------------------------
(***************************************************************************)
(* The safety properties of CircuitBreaker for every set of coroutines and *)
(* every setting of the thresholds.  ProbeBound is not inductive: a late   *)
(* admission must be charged to a half-open slot, so the invariant counts  *)
(* the calls of the current period against halfOpenCalls.                  *)
(***************************************************************************)
EXTENDS CircuitBreaker, FiniteSetTheorems, TLAPS

ProbesArePaidFor ==
  state = "HALF_OPEN" =>
    IsFiniteSet(Current) /\ Cardinality(Current) <= halfOpenCalls + 1

IInv == TypeOK /\ ClosedBelowThreshold /\ OpenHasDeadline /\ ProbesArePaidFor

\* Breaker variables keep their types in every step of the wrapper, of reset()
\* and of the clock.
THEOREM TypeCorrect == Spec => []TypeOK
<1> USE BreakerAssumption
<1>1. Init => TypeOK
  BY DEF Init, TypeOK, CallStates, NoFailure
<1>2. TypeOK /\ [Next]_vars => TypeOK'
  <2> SUFFICES ASSUME TypeOK, [Next]_vars PROVE TypeOK'
    OBVIOUS
  <2> USE DEF TypeOK, CallStates, NoFailure, Outdated
  <2>1. CASE UNCHANGED vars
    BY <2>1 DEF vars
  <2>2. ASSUME NEW c \in Calls, Admit(c) PROVE TypeOK'
    <3>1. CASE AdmitClosed(c)
      BY <3>1 DEF AdmitClosed
    <3>2. CASE AdmitRecovery(c)
      BY <3>2 DEF AdmitRecovery
    <3>3. CASE AdmitProbe(c)
      BY <3>3 DEF AdmitProbe, SlotFree
    <3> QED
      BY <2>2, <3>1, <3>2, <3>3 DEF Admit
  <2>3. ASSUME NEW c \in Calls, Succeed(c) PROVE TypeOK'
    BY <2>3 DEF Succeed, Closes, Saturate
  <2>4. ASSUME NEW c \in Calls, Fail(c) PROVE TypeOK'
    BY <2>4 DEF Fail, Trips, Reopens, Saturate
  <2>5. ASSUME NEW c \in Calls, Unrecorded(c) PROVE TypeOK'
    BY <2>5 DEF Unrecorded
  <2>6. CASE Reset
    BY <2>6 DEF Reset
  <2>7. CASE Tick
    BY <2>7 DEF Tick
  <2> QED
    BY <2>1, <2>2, <2>3, <2>4, <2>5, <2>6, <2>7 DEF Next, Return
<1> QED
  BY <1>1, <1>2, PTL DEF Spec

\* Admitting a call adds at most that call to the calls of the period.
LEMMA AdmissionAddsOne ==
  ASSUME NEW c \in Calls, TypeOK, IsFiniteSet(Current),
         call' = [call EXCEPT ![c] = "current"]
  PROVE  IsFiniteSet(Current') /\ Cardinality(Current') <= Cardinality(Current) + 1
<1>1. Current' = Current \cup {c}
  BY DEF Current, TypeOK
<1>2. Cardinality(Current) \in Nat
  BY FS_CardinalityType
<1>3. /\ IsFiniteSet(Current \cup {c})
      /\ \/ Cardinality(Current \cup {c}) = Cardinality(Current)
         \/ Cardinality(Current \cup {c}) = Cardinality(Current) + 1
  BY FS_AddElement
<1> QED
  BY <1>1, <1>2, <1>3

\* A returning call leaves a subset of the calls of the period.
LEMMA ReturnAddsNone ==
  ASSUME IsFiniteSet(Current), Current' \subseteq Current
  PROVE  IsFiniteSet(Current') /\ Cardinality(Current') <= Cardinality(Current)
BY FS_Subset

\* The inductive invariant, action by action.
LEMMA Inductive == IInv /\ TypeOK' /\ [Next]_vars => IInv'
<1> USE BreakerAssumption
<1> SUFFICES ASSUME IInv, TypeOK', [Next]_vars PROVE IInv'
  OBVIOUS
<1> USE DEF IInv
<1>1. CASE UNCHANGED vars
  BY <1>1 DEF vars, TypeOK, ClosedBelowThreshold, OpenHasDeadline, ProbesArePaidFor, Current
<1>2. ASSUME NEW c \in Calls, AdmitClosed(c) PROVE IInv'
  BY <1>2 DEF AdmitClosed, ClosedBelowThreshold, OpenHasDeadline, ProbesArePaidFor
<1>3. ASSUME NEW c \in Calls, AdmitRecovery(c) PROVE IInv'
  <2>1. ClosedBelowThreshold' /\ OpenHasDeadline'
    BY <1>3 DEF AdmitRecovery, RecoveryDue, ClosedBelowThreshold, OpenHasDeadline
  <2>2. Current' = {c}
    BY <1>3 DEF AdmitRecovery, Outdated, Current, TypeOK, CallStates
  <2>3. IsFiniteSet(Current') /\ Cardinality(Current') = 1
    BY <2>2, FS_Singleton
  <2> QED
    BY <1>3, <2>1, <2>3 DEF AdmitRecovery, ProbesArePaidFor
<1>4. ASSUME NEW c \in Calls, AdmitProbe(c) PROVE IInv'
  <2>1. ClosedBelowThreshold' /\ OpenHasDeadline'
    BY <1>4 DEF AdmitProbe, SlotFree, ClosedBelowThreshold, OpenHasDeadline
  <2>2. IsFiniteSet(Current) /\ Cardinality(Current) <= halfOpenCalls + 1
    BY <1>4 DEF AdmitProbe, SlotFree, ProbesArePaidFor
  <2>3. IsFiniteSet(Current') /\ Cardinality(Current') <= Cardinality(Current) + 1
    BY <1>4, <2>2, AdmissionAddsOne DEF AdmitProbe
  <2>4. Cardinality(Current) \in Nat /\ Cardinality(Current') \in Nat
    BY <2>2, <2>3, FS_CardinalityType
  <2> QED
    BY <1>4, <2>1, <2>2, <2>3, <2>4 DEF AdmitProbe, ProbesArePaidFor, TypeOK
<1>5. ASSUME NEW c \in Calls, Succeed(c) PROVE IInv'
  <2>1. ClosedBelowThreshold' /\ OpenHasDeadline'
    BY <1>5 DEF Succeed, Closes, ClosedBelowThreshold, OpenHasDeadline, TypeOK
  <2>2. ASSUME state' = "HALF_OPEN" PROVE ProbesArePaidFor'
    <3>1. state = "HALF_OPEN" /\ halfOpenCalls' = halfOpenCalls /\ ~Closes
      BY <1>5, <2>2 DEF Succeed
    <3>2. Current' \subseteq Current
      BY <1>5, <3>1 DEF Succeed, Current, TypeOK
    <3>3. IsFiniteSet(Current') /\ Cardinality(Current') <= Cardinality(Current)
      BY <3>1, <3>2, ReturnAddsNone DEF ProbesArePaidFor
    <3> QED
      BY <3>1, <3>3, FS_CardinalityType DEF ProbesArePaidFor, TypeOK
  <2> QED
    BY <2>1, <2>2 DEF ProbesArePaidFor
<1>6. ASSUME NEW c \in Calls, Fail(c) PROVE IInv'
  <2>1. ClosedBelowThreshold' /\ OpenHasDeadline'
    BY <1>6 DEF Fail, Trips, Reopens, Saturate, ClosedBelowThreshold, OpenHasDeadline,
                NoFailure, TypeOK
  <2>2. state' # "HALF_OPEN"
    BY <1>6 DEF Fail, Reopens
  <2> QED
    BY <2>1, <2>2 DEF ProbesArePaidFor
<1>7. ASSUME NEW c \in Calls, Unrecorded(c) PROVE IInv'
  <2>1. ClosedBelowThreshold' /\ OpenHasDeadline'
    BY <1>7 DEF Unrecorded, ClosedBelowThreshold, OpenHasDeadline
  <2>2. ASSUME state' = "HALF_OPEN" PROVE ProbesArePaidFor'
    <3>1. state = "HALF_OPEN" /\ halfOpenCalls' = halfOpenCalls
      BY <1>7, <2>2 DEF Unrecorded
    <3>2. Current' \subseteq Current
      BY <1>7 DEF Unrecorded, Current, TypeOK
    <3>3. IsFiniteSet(Current') /\ Cardinality(Current') <= Cardinality(Current)
      BY <3>1, <3>2, ReturnAddsNone DEF ProbesArePaidFor
    <3> QED
      BY <3>1, <3>3, FS_CardinalityType DEF ProbesArePaidFor, TypeOK
  <2> QED
    BY <2>1, <2>2 DEF ProbesArePaidFor
<1>8. CASE Reset
  BY <1>8 DEF Reset, ClosedBelowThreshold, OpenHasDeadline, ProbesArePaidFor
<1>9. CASE Tick
  BY <1>9 DEF Tick, ClosedBelowThreshold, OpenHasDeadline, ProbesArePaidFor, Current,
              NoFailure, TypeOK
<1> QED
  BY <1>1, <1>2, <1>3, <1>4, <1>5, <1>6, <1>7, <1>8, <1>9 DEF Next, Admit, Return

LEMMA InvariantHolds == Spec => []IInv
<1>1. Init => IInv
  BY BreakerAssumption DEF Init, IInv, TypeOK, CallStates, NoFailure, ClosedBelowThreshold,
     OpenHasDeadline, ProbesArePaidFor
<1>2. IInv /\ TypeOK' /\ [Next]_vars => IInv'
  BY Inductive
<1> QED
  BY <1>1, <1>2, TypeCorrect, PTL DEF Spec

\* For every threshold setting and any number of coroutines: a HALF_OPEN period
\* never has more than half_open_max_calls + 1 of its own calls in flight.
THEOREM ProbesAreBounded == Spec => []ProbeBound
<1>1. IInv => ProbeBound
  <2> SUFFICES ASSUME IInv, state = "HALF_OPEN"
               PROVE  Cardinality(Current) <= HalfOpenMaxCalls + 1
    BY DEF ProbeBound
  <2>1. IsFiniteSet(Current) /\ Cardinality(Current) <= halfOpenCalls + 1
    BY DEF IInv, ProbesArePaidFor
  <2>2. halfOpenCalls \in 0..HalfOpenMaxCalls
    BY DEF IInv, TypeOK
  <2> QED
    BY <2>1, <2>2, FS_CardinalityType, BreakerAssumption
<1> QED
  BY <1>1, InvariantHolds, PTL

\* A closed breaker is always below its failure threshold.
THEOREM ClosedIsBelowThreshold == Spec => []ClosedBelowThreshold
<1>1. IInv => ClosedBelowThreshold
  BY DEF IInv
<1> QED
  BY <1>1, InvariantHolds, PTL

\* A breaker that is not closed always knows when it failed last, so that its
\* recovery timeout can elapse.
THEOREM OpenAlwaysHasDeadline == Spec => []OpenHasDeadline
<1>1. IInv => OpenHasDeadline
  BY DEF IInv
<1> QED
  BY <1>1, InvariantHolds, PTL

\* Nothing but a reset takes the breaker from OPEN to CLOSED in one step.
THEOREM OpenNeedsProbeOrReset == Spec => OpenIsLeftByProbeOrReset
<1>1. [Next]_vars => [state = "OPEN" /\ state' = "CLOSED" => failureAge' = NoFailure]_vars
  BY DEF Next, Admit, AdmitClosed, AdmitRecovery, AdmitProbe, Return, Succeed, Fail,
         Unrecorded, Reset, Tick, Closes, Trips, Reopens, vars
<1> QED
  BY <1>1, PTL DEF Spec, OpenIsLeftByProbeOrReset

\* A probe of a period nothing leaked from is in flight or has succeeded, and a
\* period that has seen a success is still short of success_threshold.
ProbesAreAnswered ==
  state = "HALF_OPEN" /\ leaked = {} =>
    /\ halfOpenCalls + 1 <= consecutiveSuccesses + Cardinality(Current)
    /\ \/ consecutiveSuccesses < SuccessThreshold
       \/ halfOpenCalls + 1 <= Cardinality(Current)

\* Admitting an idle coroutine adds exactly that call to the calls of the period.
LEMMA AdmissionAddsExactlyOne ==
  ASSUME NEW c \in Calls, TypeOK, IsFiniteSet(Current), call[c] = "idle",
         call' = [call EXCEPT ![c] = "current"]
  PROVE  Cardinality(Current') = Cardinality(Current) + 1
<1>1. Current' = Current \cup {c} /\ c \notin Current
  BY DEF Current, TypeOK
<1> QED
  BY <1>1, FS_AddElement

\* A returning call takes at most itself from the calls of the period.
LEMMA ReturnTakesOne ==
  ASSUME NEW c \in Calls, IsFiniteSet(Current), Current' = Current \ {c}
  PROVE  /\ Cardinality(Current') \in Nat
         /\ Cardinality(Current) \in Nat
         /\ Cardinality(Current) <= Cardinality(Current') + 1
         /\ c \notin Current => Cardinality(Current) = Cardinality(Current')
<1>1. IsFiniteSet(Current')
  BY FS_Subset
<1>2. Cardinality(Current') \in Nat /\ Cardinality(Current) \in Nat
  BY <1>1, FS_CardinalityType
<1>3. Cardinality(Current') = IF c \in Current THEN Cardinality(Current) - 1
                                               ELSE Cardinality(Current)
  BY FS_RemoveElement
<1> QED
  BY <1>2, <1>3

\* What the calls of a half-open period have come to, step by step.
LEMMA NextAnswersProbes ==
  IInv /\ TypeOK' /\ ProbesAreAnswered /\ [Next]_vars => ProbesAreAnswered'
<1> USE BreakerAssumption
<1> SUFFICES ASSUME IInv, TypeOK', ProbesAreAnswered, [Next]_vars,
                    state' = "HALF_OPEN", leaked' = {}
             PROVE  /\ halfOpenCalls' + 1 <= consecutiveSuccesses' + Cardinality(Current')
                    /\ \/ consecutiveSuccesses' < SuccessThreshold
                       \/ halfOpenCalls' + 1 <= Cardinality(Current')
  BY DEF ProbesAreAnswered
<1> DEFINE Goal == /\ halfOpenCalls' + 1 <= consecutiveSuccesses' + Cardinality(Current')
                   /\ \/ consecutiveSuccesses' < SuccessThreshold
                      \/ halfOpenCalls' + 1 <= Cardinality(Current')
<1>1. CASE UNCHANGED <<state, consecutiveSuccesses, halfOpenCalls, call, leaked>>
  BY <1>1 DEF ProbesAreAnswered, Current
<1>2. ASSUME NEW c \in Calls, AdmitRecovery(c) PROVE Goal
  <2>1. Current' = {c}
    BY <1>2 DEF AdmitRecovery, Outdated, Current, IInv, TypeOK, CallStates
  <2>2. Cardinality(Current') = 1 /\ halfOpenCalls' = 0
    BY <1>2, <2>1, FS_Singleton DEF AdmitRecovery
  <2>3. consecutiveSuccesses' \in Int /\ 0 <= consecutiveSuccesses'
    BY DEF TypeOK
  <2>4. halfOpenCalls' + 1 <= Cardinality(Current')
    BY <2>2
  <2>5. \A n \in Nat : 0 + 1 <= n + 1
    OBVIOUS
  <2>6. halfOpenCalls' + 1 <= consecutiveSuccesses' + Cardinality(Current')
    <3>1. consecutiveSuccesses' \in Nat
      BY <2>3
    <3> QED
      BY <2>2, <2>5, <3>1
  <2> QED
    BY <2>4, <2>6
<1>3. ASSUME NEW c \in Calls, AdmitProbe(c) PROVE Goal
  <2>1. state = "HALF_OPEN" /\ leaked = {}
    BY <1>3 DEF AdmitProbe, SlotFree
  <2>2. IsFiniteSet(Current) /\ Cardinality(Current) \in Nat
    BY <2>1, FS_CardinalityType DEF IInv, ProbesArePaidFor
  <2>3. Cardinality(Current') = Cardinality(Current) + 1
    BY <1>3, <2>2, AdmissionAddsExactlyOne DEF AdmitProbe, IInv
  <2>4. halfOpenCalls' = halfOpenCalls + 1 /\ consecutiveSuccesses' = consecutiveSuccesses
    BY <1>3 DEF AdmitProbe
  <2>5. halfOpenCalls \in Nat /\ consecutiveSuccesses \in Nat
    BY DEF IInv, TypeOK
  <2> QED
    BY <2>1, <2>2, <2>3, <2>4, <2>5 DEF ProbesAreAnswered
<1>4. ASSUME NEW c \in Calls, Succeed(c) PROVE Goal
  <2>1. state = "HALF_OPEN" /\ ~Closes /\ leaked = {} /\ halfOpenCalls' = halfOpenCalls
    BY <1>4 DEF Succeed
  <2>2. consecutiveSuccesses' = consecutiveSuccesses + 1 /\ consecutiveSuccesses' < SuccessThreshold
    BY <1>4, <2>1 DEF Succeed, Closes, Saturate, IInv, TypeOK
  <2>3. Current' = Current \ {c}
    BY <1>4, <2>1 DEF Succeed, Current, IInv, TypeOK
  <2>4. IsFiniteSet(Current)
    BY <2>1 DEF IInv, ProbesArePaidFor
  <2>5. /\ Cardinality(Current') \in Nat /\ Cardinality(Current) \in Nat
        /\ Cardinality(Current) <= Cardinality(Current') + 1
    BY <2>3, <2>4, ReturnTakesOne
  <2>6. halfOpenCalls \in Nat /\ consecutiveSuccesses \in Nat
    BY DEF IInv, TypeOK
  <2> QED
    BY <2>1, <2>2, <2>5, <2>6 DEF ProbesAreAnswered
<1>5. ASSUME NEW c \in Calls, Unrecorded(c) PROVE Goal
  <2>1. /\ state = "HALF_OPEN" /\ leaked = {} /\ call[c] # "current"
        /\ halfOpenCalls' = halfOpenCalls /\ consecutiveSuccesses' = consecutiveSuccesses
    BY <1>5 DEF Unrecorded
  <2>2. Current' = Current
    BY <1>5, <2>1 DEF Unrecorded, Current, IInv, TypeOK
  <2> QED
    BY <2>1, <2>2 DEF ProbesAreAnswered
<1>6. ASSUME NEW c \in Calls, AdmitClosed(c) \/ Fail(c) PROVE Goal
  BY <1>6 DEF AdmitClosed, Fail, Reopens
<1>7. CASE Reset
  BY <1>7 DEF Reset
<1>8. CASE Tick
  BY <1>1, <1>8 DEF Tick
<1> QED
  BY <1>1, <1>2, <1>3, <1>4, <1>5, <1>6, <1>7, <1>8 DEF Next, Admit, Return, vars

\* Whatever late results arrive: an idle breaker that is not open admits the next
\* call unless a probe of the period left unrecorded, provided a period has as
\* many probes as it needs successes.
THEOREM IdleBreakerIsPassable == Spec => []IdleBreakerAdmits
<1>1. Init => ProbesAreAnswered
  BY DEF Init, ProbesAreAnswered
<1>2. IInv /\ ProbesAreAnswered => IdleBreakerAdmits
  <2> SUFFICES ASSUME IInv, ProbesAreAnswered, state = "HALF_OPEN", InFlight = {},
                      SuccessThreshold <= HalfOpenMaxCalls + 1, leaked = {}
               PROVE  SlotFree
    BY DEF IdleBreakerAdmits, CanExecute, IInv, TypeOK
  <2>1. Cardinality(Current) = 0
    <3>1. Current = {}
      BY DEF Current, InFlight
    <3> QED
      BY <3>1, FS_EmptySet
  <2>2. halfOpenCalls \in Nat /\ consecutiveSuccesses \in Nat
    BY DEF IInv, TypeOK
  <2> QED
    BY <2>1, <2>2, BreakerAssumption DEF ProbesAreAnswered, SlotFree
<1> QED
  BY <1>1, <1>2, NextAnswersProbes, InvariantHolds, TypeCorrect, PTL DEF Spec
=============================================================================
