----------------------------- MODULE RateLimits -----------------------------
(***************************************************************************)
(* The two rate limiters that a request of one client passes on its way to *)
(* one endpoint: RateLimitMiddleware (backend/utils/rate_limiter.py), with *)
(* its in-memory fallback, and the limit that the handler itself applies   *)
(* (backend/utils/rate_limit.py, a Lua script).                            *)
(*                                                                         *)
(* Both keep a sorted set in Redis, by second.  A request reads the clock, *)
(* and the set is consulted later, after an await.  Times are ages: how    *)
(* many seconds ago.  An age that can matter to no request any more is     *)
(* forgotten; the expiry of the keys (one and five seconds after the       *)
(* window) comes later than that.                                          *)
(*                                                                         *)
(* The middleware's member is the second itself, so the set has one entry  *)
(* per second; the handler's members are unique.  Other strategies than    *)
(* the sliding window are configured nowhere and left out, as are tiers    *)
(* and API keys, which only choose the key and the limit.                  *)
(***************************************************************************)
EXTENDS Integers, FiniteSets

CONSTANTS
  Arrivals,      \* requests of the client in progress at once
  GateLimit, GateWindow,     \* the middleware's limit for the endpoint
  MaxRequests, Window,       \* the handler's own limit
  MaxDelay       \* bound: seconds between reading the clock and the set

ASSUME LimitsAssumption ==
  /\ GateLimit \in Nat \ {0} /\ GateWindow \in Nat \ {0}
  /\ MaxRequests \in Nat \ {0} /\ Window \in Nat \ {0}
  /\ MaxDelay \in 0..4   \* less than the slack of the keys' expiry

GateAges == 0..(GateWindow + MaxDelay - 1)
Ages == 0..(Window + MaxDelay - 1)
NoAdvice == -1
Stages == {"idle", "gate", "passed", "limit"}

VARIABLES
  marks,       \* the middleware's set: ages of its seconds
  memory,      \* its fallback in this worker process: hits per age
  hits,        \* the handler's set: hits per age
  arrival,     \* per request: place, age of the clock reading, and whether
               \* it was sent on the handler's advice (history)
  advice,      \* seconds the client was told to wait and has still to, as long
               \* as it sends nothing else
  seconds,     \* history: ages of the seconds in which Redis let requests by
  served       \* history: requests per age that the handler's limit admitted
               \* in the second in which they had read the clock

limitVars == <<marks, memory, hits, arrival, advice, seconds, served>>

\* The hits of a bag, one pair each, and how many there are.
Units(bag) == UNION {{a} \X (1..bag[a]) : a \in DOMAIN bag}
Total(bag) == Cardinality(Units(bag))

LimitsTypeOK ==
  /\ marks \subseteq GateAges
  /\ memory \in [GateAges -> 0..GateLimit]
  /\ hits \in [Ages -> 0..MaxRequests] /\ Total(hits) <= MaxRequests
  /\ arrival \in [Arrivals -> [at: Stages, read: 0..MaxDelay, advised: BOOLEAN]]
  /\ advice \in NoAdvice..(Window + MaxDelay)
  /\ seconds \subseteq GateAges
  /\ served \in [0..(Window - 1) -> 0..MaxRequests]

Absent == [at |-> "idle", read |-> 0, advised |-> FALSE]
Empty(ages) == [a \in ages |-> 0]

LimitsInit ==
  /\ marks = {} /\ memory = Empty(GateAges) /\ hits = Empty(Ages)
  /\ arrival = [r \in Arrivals |-> Absent]
  /\ advice = NoAdvice
  /\ seconds = {} /\ served = Empty(0..(Window - 1))

-----------------------------------------------------------------------------
(* The clock *)

OlderSet(S, ages) == {a + 1 : a \in S} \cap ages
Older(bag) == [a \in DOMAIN bag |-> IF a = 0 THEN 0 ELSE bag[a - 1]]

Waiting(r) == arrival[r].at \in {"gate", "limit"}

Tick ==
  /\ \A r \in Arrivals : Waiting(r) => arrival[r].read < MaxDelay
  /\ marks' = OlderSet(marks, GateAges)
  /\ seconds' = OlderSet(seconds, GateAges)
  /\ memory' = Older(memory)
  /\ hits' = Older(hits)
  /\ served' = Older(served)
  /\ arrival' = [r \in Arrivals |-> IF Waiting(r) THEN [arrival[r] EXCEPT !.read = @ + 1] ELSE arrival[r]]
  /\ advice' = IF advice > 0 THEN advice - 1 ELSE advice

-----------------------------------------------------------------------------
(* The middleware *)

\* The client sends a request; on the handler's advice, if it waited as told and
\* sends nothing else meanwhile.
Send(r) ==
  /\ arrival[r].at = "idle"
  /\ LET alone == \A q \in Arrivals : arrival[q].at = "idle"
     IN  arrival' = [q \in Arrivals |->
                   IF q = r
                     THEN [at |-> "gate", read |-> 0, advised |-> alone /\ advice = 0]
                     ELSE [arrival[q] EXCEPT !.advised = FALSE]]
  /\ advice' = NoAdvice
  /\ UNCHANGED <<marks, memory, hits, seconds, served>>

Drop(r) == arrival' = [arrival EXCEPT ![r] = Absent]
Pass(r) ==
  arrival' = [arrival EXCEPT ![r] = [at |-> "passed", read |-> 0, advised |-> @.advised]]

KeptTooShort(ages, r, window) == {a \in ages : a + 1 < window + arrival[r].read}

\* What ZREMRANGEBYSCORE and the list comprehension keep.
Kept(ages, r, window) == {a \in ages : a < window + arrival[r].read}

Marked(r) == Kept(marks, r, GateWindow) \cup {arrival[r].read}

BelowOneOver(count, limit) == count <= limit
Below(count, limit) == count < limit

\* One pipeline: the second is added whatever the answer will be.
Gate(r) ==
  /\ arrival[r].at = "gate"
  /\ marks' = Marked(r)
  /\ IF Below(Cardinality(Kept(marks, r, GateWindow)), GateLimit)
       THEN /\ Pass(r)
            /\ seconds' = seconds \cup {arrival[r].read}
       ELSE Drop(r) /\ UNCHANGED seconds
  /\ UNCHANGED <<memory, hits, advice, served>>

Only(bag, ages) == [a \in DOMAIN bag |-> IF a \in ages THEN bag[a] ELSE 0]
Plus(bag, age) == [bag EXCEPT ![age] = @ + 1]

\* A RedisError, before or after the effect: the process decides by its own hits.
GateFallback(r) ==
  /\ arrival[r].at = "gate"
  /\ marks' \in {marks, Marked(r)}
  /\ LET kept == Only(memory, Kept(GateAges, r, GateWindow))
     IN  IF Below(Total(kept), GateLimit)
           THEN memory' = Plus(kept, arrival[r].read) /\ Pass(r)
           ELSE memory' = kept /\ Drop(r)
  /\ UNCHANGED <<hits, advice, seconds, served>>

-----------------------------------------------------------------------------
(* The handler's limit *)

ReadClock(r) ==
  /\ arrival[r].at = "passed"
  /\ arrival' = [arrival EXCEPT ![r].at = "limit"]
  /\ UNCHANGED <<marks, memory, hits, advice, seconds, served>>

Current(r) == Only(hits, Kept(Ages, r, Window))
IsOldest(a, bag) == bag[a] > 0 /\ \A b \in DOMAIN bag : bag[b] > 0 => b <= a

AdmitByScript(r) ==
  /\ arrival[r].at = "limit"
  /\ Below(Total(Current(r)), MaxRequests)
  /\ hits' = Plus(Current(r), arrival[r].read)
  /\ served' = IF arrival[r].read = 0 THEN Plus(served, 0) ELSE served
  /\ Drop(r)
  /\ UNCHANGED <<marks, memory, advice, seconds>>

RetryAfterOneShort(r, oldest) == Window + arrival[r].read - oldest - 1
RetryAfter(r, oldest) == Window + arrival[r].read - oldest

\* 429 with Retry-After; nothing is recorded.
RefuseByScript(r) ==
  /\ arrival[r].at = "limit"
  /\ ~Below(Total(Current(r)), MaxRequests)
  /\ hits' = Current(r)
  /\ \E a \in Ages :
       /\ IsOldest(a, Current(r))
       /\ advice' = IF \A q \in Arrivals \ {r} : arrival[q].at = "idle"
                      THEN RetryAfter(r, a)
                      ELSE NoAdvice
  /\ Drop(r)
  /\ UNCHANGED <<marks, memory, seconds, served>>

\* A RedisError, before or after the effect: oauth_exchange refuses, every other
\* limit admits.  Neither is recorded in the histories.
LimitFault(r) ==
  /\ arrival[r].at = "limit"
  /\ \/ hits' = hits
     \/ hits' = Current(r)
     \/ Below(Total(Current(r)), MaxRequests) /\ hits' = Plus(Current(r), arrival[r].read)
  /\ Drop(r)
  /\ UNCHANGED <<marks, memory, advice, seconds, served>>

LimitsNext ==
  \/ Tick
  \/ \E r \in Arrivals :
       \/ Send(r) \/ Gate(r) \/ GateFallback(r)
       \/ ReadClock(r) \/ AdmitByScript(r) \/ RefuseByScript(r) \/ LimitFault(r)

LimitsSpec == LimitsInit /\ [][LimitsNext]_limitVars

-----------------------------------------------------------------------------
(* Properties *)

\* Both limits hold over every window, not only over aligned ones, however many
\* slow requests with an older reading, failing calls and refusals are mixed in.
\* The handler's limit: of the requests it admitted in the second of their clock
\* reading, no more than max_requests.  The middleware limits seconds and not
\* requests: those that Redis let by were sent in GateLimit different seconds.
LimitsHold ==
  /\ Total(served) <= MaxRequests
  /\ Cardinality({a \in seconds : a < GateWindow}) <= GateLimit

\* Retry-After is true: a client that waited as the handler's limit told it, and
\* sent nothing else, is not refused by it again.
AdviceHolds ==
  [][\A r \in Arrivals :
       arrival[r].at = "limit" /\ arrival[r].advised => advice' = advice]_limitVars
=============================================================================
