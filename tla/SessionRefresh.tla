--------------------------- MODULE SessionRefresh ---------------------------
(***************************************************************************)
(* The silent refresh of frontend/src/auth.ts: the browser keeps one       *)
(* session cookie, every request carries a copy of it to some server       *)
(* process, and the jwt callback there trades the refresh token inside it  *)
(* for a new pair when the access token is about to expire.  Processes     *)
(* share a trade in progress and remember recent ones; the backend answers *)
(* as RefreshRotation says it does, replaying a rotation for a while.      *)
(*                                                                         *)
(* Refresh tokens are numbered: trading token t yields t + 1, once (the    *)
(* backend's SingleUse).  Times are ages in units of half a minute, and an *)
(* age no comparison can tell from a greater one stops growing.  Requests  *)
(* are short: their fetch is aborted after 15 seconds.                     *)
(***************************************************************************)
EXTENDS Integers, FiniteSets

CONSTANTS
  Sessions,    \* GET /api/auth/session in flight: stores the cookie it answers with
  Renders,     \* auth() in a page or a route handler: cannot store one
  Servers,     \* server processes, each with its own memory
  LastToken,   \* bound: the access token of this one is taken not to expire
  AccessTtl,   \* ACCESS_TOKEN_EXPIRE_MINUTES of the backend
  Margin,      \* the 60 seconds of isBackendTokenExpired
  RecentTtl,   \* RECENT_REFRESH_RESULT_TTL_MS
  ReplayTtl,   \* REFRESH_ROTATION_CACHE_TTL_SECONDS of the backend
  Cooldown,    \* refreshRetryAt: 5, 15 and 30 seconds round up to one length
  MaxFlight    \* a request is over within this many units

Requests == Sessions \cup Renders

ASSUME SessionAssumption ==
  /\ LastToken \in Nat \ {0}
  /\ {AccessTtl, Margin, RecentTtl, ReplayTtl, Cooldown, MaxFlight} \subseteq Nat \ {0}
  /\ Margin < AccessTtl
  /\ Sessions \cap Renders = {}

\* A call is aborted after 15 seconds (AUTH_HTTP_TIMEOUT_MS).  Twice that is less
\* than the replay window (5 minutes) and fits between a new access token and its
\* refresh (a minute less than the token's life).
ASSUME PaceAssumption ==
  2 * MaxFlight < ReplayTtl /\ 2 * MaxFlight <= AccessTtl - Margin

VARIABLES
  cookie,    \* the browser's session
  newest,    \* the backend: the last refresh token minted
  age,       \* the backend: units since each token was minted
  revoked,   \* the backend: the account's newest token is not honoured any more
  fetch,     \* _refreshLocks: the trade in progress per server and token
  recent,    \* _recentRefreshResults: units since the trade, or Absent
  req,       \* the requests: where each is, on which server, with which session
  polled,    \* a session response was stored in this unit
  calm       \* nothing fails, and the user makes a session request in every unit

vars == <<cookie, newest, age, revoked, fetch, recent, req, polled, calm>>

Tokens  == 0..LastToken
MaxAge  == IF AccessTtl < ReplayTtl THEN ReplayTtl ELSE AccessTtl
Absent  == RecentTtl + 1
Replies == {"ok", "used", "rejected", "failed"}
Jwts    == [tok : Tokens, cool : 0..Cooldown, error : BOOLEAN]

Idle == [at |-> "idle"]
InFlight == [at : {"sent", "waiting", "answered"}, server : Servers, jwt : Jwts,
             flight : 0..MaxFlight]

TypeOK ==
  /\ cookie \in Jwts
  /\ newest \in Tokens
  /\ age \in [Tokens -> 0..MaxAge]
  /\ revoked \in BOOLEAN
  /\ fetch \in [Servers -> [Tokens -> Replies \cup {"none", "sent"}]]
  /\ recent \in [Servers -> [Tokens -> 0..Absent]]
  /\ req \in [Requests -> {Idle} \cup InFlight]
  /\ polled \in BOOLEAN
  /\ calm \in BOOLEAN

SignedIn(t) == [tok |-> t, cool |-> 0, error |-> FALSE]

Init ==
  /\ cookie = SignedIn(0)
  /\ newest = 0
  /\ age = [t \in Tokens |-> 0]
  /\ revoked = FALSE
  /\ fetch = [s \in Servers |-> [t \in Tokens |-> "none"]]
  /\ recent = [s \in Servers |-> [t \in Tokens |-> Absent]]
  /\ req = [r \in Requests |-> Idle]
  /\ polled = FALSE
  /\ calm \in BOOLEAN

-----------------------------------------------------------------------------
(* Time *)

AccessValid(t) == t = LastToken \/ age[t] < AccessTtl
NearExpiry(t)  == t # LastToken /\ age[t] > AccessTtl - Margin
Remembered(s, t) == recent[s][t] <= RecentTtl

Older(a, bound) == IF a < bound THEN a + 1 ELSE a

CooledDown(j) == [j EXCEPT !.cool = IF @ > 0 THEN @ - 1 ELSE 0]

Longer(q) == [q EXCEPT !.flight = @ + 1, !.jwt = CooledDown(@)]

Tick ==
  /\ \A r \in Requests : req[r] # Idle => req[r].flight < MaxFlight
  /\ calm => polled
  /\ polled' = FALSE
  /\ cookie' = CooledDown(cookie)
  /\ req' = [r \in Requests |-> IF req[r] = Idle THEN Idle ELSE Longer(req[r])]
  /\ age' = [t \in Tokens |-> IF t > newest THEN 0 ELSE Older(age[t], MaxAge)]
  /\ recent' = [s \in Servers |-> [t \in Tokens |-> Older(recent[s][t], Absent)]]
  /\ UNCHANGED <<newest, revoked, fetch, calm>>

-----------------------------------------------------------------------------
(* The jwt callback *)

Cooling(j)   == [j EXCEPT !.cool = Cooldown]
SignedOut(j) == [j EXCEPT !.cool = 0, !.error = TRUE]

\* Another request may have rotated the token: not a reason to sign out.
LostRaceSignsOut(j) == SignedOut(j)
LostRace(j) == Cooling(j)

\* What becomes of session j on server s when the trade of its token ends.
PairNotStored(s, j, reply) == IF reply = "rejected" THEN SignedOut(j) ELSE Cooling(j)
Outcome(s, j, reply) ==
  CASE reply = "ok"       -> SignedIn(j.tok + 1)
    [] reply = "used"     -> IF Remembered(s, j.tok) THEN SignedIn(j.tok + 1) ELSE LostRace(j)
    [] reply = "rejected" -> IF AccessValid(j.tok) THEN Cooling(j) ELSE SignedOut(j)
    [] reply = "failed"   -> Cooling(j)

Due(j) == ~j.error /\ j.cool = 0 /\ NearExpiry(j.tok)

\* The request arrives at a server with a copy of the cookie.  Bound: renders
\* only in calm histories; elsewhere a lost response does what they do.
Start(r) ==
  /\ req[r] = Idle
  /\ r \in Renders => calm
  /\ \E s \in Servers :
       req' = [req EXCEPT ![r] = [at |-> "sent", server |-> s, jwt |-> cookie, flight |-> 0]]
  /\ UNCHANGED <<cookie, newest, age, revoked, fetch, recent, polled, calm>>

\* Nothing to do.
ServeAsIs(r) ==
  /\ req[r].at = "sent"
  /\ ~Due(req[r].jwt)
  /\ req' = [req EXCEPT ![r].at = "answered"]
  /\ UNCHANGED <<cookie, newest, age, revoked, fetch, recent, polled, calm>>

\* A recent trade to reuse.
ServeFromMemory(r) ==
  /\ req[r].at = "sent"
  /\ Due(req[r].jwt)
  /\ Remembered(req[r].server, req[r].jwt.tok)
  /\ req' = [req EXCEPT ![r].at = "answered", ![r].jwt = Outcome(req[r].server, @, "ok")]
  /\ UNCHANGED <<cookie, newest, age, revoked, fetch, recent, polled, calm>>

\* Join the trade in progress, or begin one.
ServeByTrade(r) ==
  /\ req[r].at = "sent"
  /\ Due(req[r].jwt)
  /\ ~Remembered(req[r].server, req[r].jwt.tok)
  /\ fetch' = [fetch EXCEPT ![req[r].server][req[r].jwt.tok] = IF @ = "none" THEN "sent" ELSE @]
  /\ req' = [req EXCEPT ![r].at = "waiting"]
  /\ UNCHANGED <<cookie, newest, age, revoked, recent, polled, calm>>

WaitsFor(r, s, t) == req[r].at = "waiting" /\ req[r].server = s /\ req[r].jwt.tok = t

NeverUnlocked(s, t) == [fetch EXCEPT ![s][t] = "sent"]
Unlocked(s, t) == [fetch EXCEPT ![s][t] = "none"]
ReleaseLock(s, t) == fetch' = Unlocked(s, t)

Answered(q, reply) == [q EXCEPT !.at = "answered", !.jwt = Outcome(q.server, @, reply)]

\* The trade ends: it is remembered, the lock goes, all who wait are answered.
Settle(s, t) ==
  /\ fetch[s][t] \in Replies
  /\ req' = [r \in Requests |-> IF WaitsFor(r, s, t) THEN Answered(req[r], fetch[s][t])
                                                     ELSE req[r]]
  /\ recent' = IF fetch[s][t] = "ok" THEN [recent EXCEPT ![s][t] = 0] ELSE recent
  /\ ReleaseLock(s, t)
  /\ UNCHANGED <<cookie, newest, age, revoked, polled, calm>>

Deliver(r) ==
  /\ req[r].at = "answered"
  /\ req' = [req EXCEPT ![r] = Idle]
  /\ cookie' = IF r \in Sessions THEN req[r].jwt ELSE cookie
  /\ polled' = (polled \/ r \in Sessions)
  /\ UNCHANGED <<newest, age, revoked, fetch, recent, calm>>

-----------------------------------------------------------------------------
(* The backend, and what goes wrong *)

Reply(s, t, reply) == fetch' = [fetch EXCEPT ![s][t] = reply]

Rotate(s, t) ==
  /\ fetch[s][t] = "sent"
  /\ t = newest
  /\ ~revoked
  /\ newest' = t + 1
  /\ Reply(s, t, "ok")
  /\ UNCHANGED <<cookie, age, revoked, recent, req, polled, calm>>

\* The replay comes before any look at the account.
Answer(s, t) ==
  /\ fetch[s][t] = "sent"
  /\ \/ t < newest /\ age[t + 1] < ReplayTtl  /\ Reply(s, t, "ok")
     \/ t < newest /\ age[t + 1] >= ReplayTtl /\ Reply(s, t, "used")
     \/ t = newest /\ revoked /\ Reply(s, t, "rejected")
  /\ UNCHANGED <<cookie, newest, age, revoked, recent, req, polled, calm>>

\* A refusal (409, 429, 5xx), a lost call or reply, or the 15 seconds are over.
FetchFails(s, t) ==
  /\ ~calm
  /\ fetch[s][t] \in {"sent", "ok", "used", "rejected"}
  /\ Reply(s, t, "failed")
  /\ UNCHANGED <<cookie, newest, age, revoked, recent, req, polled, calm>>

\* The response does not reach the browser.
Lose(r) ==
  /\ ~calm
  /\ req[r].at = "answered"
  /\ req' = [req EXCEPT ![r] = Idle]
  /\ UNCHANGED <<cookie, newest, age, revoked, fetch, recent, polled, calm>>

\* The process dies with its memory and the requests it was serving.
Restart(s) ==
  /\ ~calm
  /\ fetch' = [fetch EXCEPT ![s] = [t \in Tokens |-> "none"]]
  /\ recent' = [recent EXCEPT ![s] = [t \in Tokens |-> Absent]]
  /\ req' = [r \in Requests |-> IF req[r] # Idle /\ req[r].server = s THEN Idle ELSE req[r]]
  /\ UNCHANGED <<cookie, newest, age, revoked, polled, calm>>

\* Sessions revoked, account deleted, or the refresh token expired.
Revoke ==
  /\ ~revoked
  /\ revoked' = TRUE
  /\ UNCHANGED <<cookie, newest, age, fetch, recent, req, polled, calm>>

Serve(r) == ServeAsIs(r) \/ ServeFromMemory(r) \/ ServeByTrade(r)
Trade(s, t) == Rotate(s, t) \/ Answer(s, t) \/ Settle(s, t)

Next ==
  \/ Tick
  \/ Revoke
  \/ \E r \in Requests : Start(r) \/ Serve(r) \/ Deliver(r) \/ Lose(r)
  \/ \E s \in Servers : Restart(s)
  \/ \E s \in Servers, t \in Tokens : Trade(s, t) \/ FetchFails(s, t)

Spec == Init /\ [][Next]_vars

\* Time passes; the user's work makes session requests (getSession() precedes
\* every API call); servers and backend answer.
Fairness ==
  /\ WF_vars(Tick)
  /\ \A r \in Sessions : WF_vars(Start(r))
  /\ \A r \in Requests : WF_vars(Serve(r)) /\ WF_vars(Deliver(r))
  /\ \A s \in Servers, t \in Tokens : WF_vars(Trade(s, t))

FairSpec == Spec /\ Fairness

-----------------------------------------------------------------------------
(* Properties *)

\* A process never asks the backend about a token whose successor it still
\* remembers: the lookup after "already been used" (the second one in
\* refreshBackendToken) cannot find anything.
NeverAsksWhatItKnows ==
  \A s \in Servers, t \in Tokens : fetch[s][t] # "none" => ~Remembered(s, t)

\* A session is stamped RefreshTokenError only when the backend no longer
\* honours the account's newest token, never because requests raced or failed.
RacesNeverSignOut == cookie.error => revoked

\* A user at work, with a backend that answers, never holds a token that was
\* traded longer ago than the backend replays, whatever order concurrent
\* responses are stored in and though page renders trade tokens whose
\* successors are thrown away.
ActiveSessionNeverStranded ==
  calm /\ cookie.tok < newest => age[cookie.tok + 1] < ReplayTtl

\* ... and keeps a valid access token, or is told to sign in again.
ActiveSessionStaysValid == []<>(calm => AccessValid(cookie.tok) \/ cookie.error)
=============================================================================
