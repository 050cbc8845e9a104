# GraftAI in TLA+

GraftAI is a scheduling product: a FastAPI backend (`src/backend`) on PostgreSQL, Redis and Celery, and a Next.js
frontend (`src/frontend`). This directory holds TLA+ models of the parts of it whose correctness depends on the
order of things, the TLC runs that check them on small instances, and TLAPS proofs that hold for every instance.

Contents: [the system](#the-system) · [modules](#modules-and-the-code) · [runs](#runs) · [bounds](#bounds) ·
[fairness](#fairness) · [proofs](#proofs) · [findings](#findings) · [not modelled](#not-modelled) · [plan](#plan)

## The system

| Component | State it keeps | Operations | Talks to | Module |
|---|---|---|---|---|
| Circuit breaker (`utils/circuit_breaker.py`) | state, two counters, half-open slots, last failure time, per process | admission, success, failure, reset | the tools it wraps | `CircuitBreaker` |
| Refresh-token rotation (`auth/routes.py`, `core/redis.py`) | replay cache, lock and blacklist entry per token, in Redis | `POST /auth/refresh`, login | database, every client | `RefreshRotation`, `TokenExchange` |
| Frontend session (`frontend/src/auth.ts`) | session cookie; trades in progress and recent trades per server process | jwt callback, `refreshBackendToken` | rotation | `SessionRefresh` |
| Account sessions (`api/auth.py`, `auth/routes.py`, `auth/schemes.py`) | `token_version` | sign in, refresh, revoke one or all, check | rotation | `AccountSessions` |
| Connected accounts (`integrations/token_service.py`, `services/auth_service.py`) | `user_tokens` rows | renew, deactivate, sign in, disconnect | Google, Microsoft | `ProviderTokens` |
| Calendar sync (`services/sync_engine.py`, `services/integrations/*`) | sync token, copied events | load, list, upsert, cancel, commit | the providers | `CalendarSync` |
| Bookings, events (`api/bookings.py`, `services/scheduler.py`, `api/calendar.py`) | booking and event rows, slot locks | create, change, cancel, move | SQLite | `Scheduling` |
| API clients (`lib/api-client*.ts`) | retry counters of a call | send, retry, give up | every route | `BookingCalls` |
| Offline queue (`lib/offlineQueue.ts`, `lib/syncConflictResolver.ts`) | IndexedDB; per tab a pass, network status, conflicts | add, sync pass, record, resolve | the API | `OfflineQueue` |
| Usage quotas (`services/usage.py`) | daily counters and the day of their reset | check, charge, reset | AI chat, calendar | `UsageQuota` |
| Rate limits (`utils/rate_limiter.py`, `utils/rate_limit.py`) | Redis sorted sets, a map in memory | admit or refuse | every request | `RateLimits` |
| Billing (`api/billing.py`, `services/payment.py`) | tier, status, limits, subscription id | webhook, verify, cancel, approve | Razorpay | `Subscription` |
| Everything else | see [not modelled](#not-modelled) | | | |

What is hard here, and what makes each part right:

* **Concurrency without transactions.** A request handler is a coroutine that loses the processor at every `await`;
  several workers run it, and their only shared state is Redis or the database. Rotation must stay single-use under that;
  bookings must not share a slot; limits may be overrun only by what is in progress.
* **Objects older than their rows.** A SQLAlchemy session answers a second query with the object it already holds and
  sends only the columns it saw changed. Revocations, quota resets, plan changes and token renewals all decide by such
  copies. What they write must stay consistent with what others wrote meanwhile.
* **State in several places.** The browser session is a copy in each request of what the browser holds; a calendar is
  copied into `events`; a provider's grant lives at the provider. A copy must not run ahead of what it copies, nor
  be lost to a race of its own readers.
* **Time.** Locks, replay entries, blacklist entries, windows and tokens expire, each on its own clock. They must expire
  in an order that leaves no gap.
* **Partial failure and recovery.** A Redis operation may take effect and raise; a worker may die between two of them;
  a call may be carried out and its reply lost. A retry must not do twice what the user did once, nor forget it; an open
  breaker must close, a sync must catch up, what was queued offline must reach the server.

How the parts interact. The frontend session is the client of rotation: `SessionRefresh` represents the backend by two
facts, "a token is traded once" and "a trade is replayed for `ReplayTtl`". The first is what `RefreshRotation` checks and
proves (`SingleUse`, and the refinement of `TokenExchange`), the second is its actions `ReplayHit` and `RecheckHit`.
`AccountSessions` adds what rotation leaves open, the version a minted pair carries. `BookingCalls` composes the
browser's retry loops with the server of `Scheduling`: a lost answer leaves the server at work on one request
while the client sends the next. `CalendarSync` obtains its access tokens from `ProviderTokens`, and uses no other state of it.

## Modules and the code

### CircuitBreaker

One breaker object and the coroutines inside its decorator. `can_execute` and the `record_*` methods do not
suspend, so each is one action; the protected call lies between `Admit` and `Return`, and that is where coroutines
interleave.

| Model | Code |
|---|---|
| `AdmitClosed`, `AdmitRecovery`, `AdmitProbe` | the three branches of `can_execute` that answer True |
| `Succeed`, `Fail` | `record_success`, `record_failure` |
| `Unrecorded` | `asyncio.TimeoutError`, `CircuitBreakerOpen` and cancellation, which the wrapper lets through unrecorded |
| `Reset`, `Tick` | `reset()`, the wall clock |
| `call[c]`, `leaked` | history: whether the breaker changed state since the call was admitted; probes that left unrecorded |

The counters saturate at their thresholds and the clock at the recovery timeout: the code compares them with
nothing else. Monitoring totals decide nothing and are left out.

### RefreshRotation and TokenExchange

`POST /auth/refresh`, await by await. `pc[r]` is the next Redis or database operation of request `r`.

| Model | Code |
|---|---|
| `ReplayHit`, `ReplayMiss` | first look into `refresh_rotation:<token>` |
| `Lock`, `LockBusy` | `SET NX EX` on `refresh_lock:<token>` |
| `PollHit`, `PollMiss` | the waiting loop and its 409 |
| `RecheckHit`, `RecheckMiss` | the second look, under the lock, and the look after a blacklist hit |
| `CheckBlacklist` | `blacklist:<token>`, then decoding and its 401 |
| `LoadUser`, `RejectUser` | account and `token_version`; minting |
| `Publish`, `List` | the replay entry, then the blacklist entry |
| `Release` | the `finally` block (compare-and-delete script) and the response |
| `...Fault` | the same operation raises, with its effect or without; 503 or 500 in production, "log and go on" elsewhere |
| `Tick`, `Crash`, `Login`, `Present` | Redis' clock, a worker that dies, a pair issued elsewhere, a client |

A JWT is a function of account, `token_version` and the second it was issued in (there is no `jti`), so a token *is*
its second of issue. Three history variables feed the properties and influence no step: `delivered` (pairs
clients got for a token), `unprotected` (a lock ran out below its holder, or development mode went on without
Redis) and `underlisted` (the blacklist entry is missing or ends before the token does).

`TokenExchange` is the handler's promise with no word of Redis, locks, requests or time: a token is *sold* once, and its
pair is *handed out* as often as it is presented in time; exempt tokens may do anything. `RefreshRotation` implements it
(`ImplementsExchange`, an `INSTANCE ... WITH`): a token is sold when its replay entry is written, handed out when a
response is delivered, and exempt when it is unprotected or underlisted.

### SessionRefresh

One browser session, the requests that carry copies of it, the server processes with their memories, the backend.

| Model | Code |
|---|---|
| `ServeAsIs` | the jwt callback returns the session: error, cooling down, or not due |
| `ServeFromMemory` | hit in `_recentRefreshResults` |
| `ServeByTrade`, `Settle` | `_refreshLocks`: join a trade or begin one; remember it, delete the lock, resume who waits |
| `Outcome` | the branches after `refreshBackendToken`: new pair, lost race, hard failure, transient failure |
| `Deliver`, `Lose` | the response stores the cookie (`Sessions`), cannot (`Renders`, `auth()` in a page), or gets lost |
| `Rotate`, `Answer`, `FetchFails` | the backend as `TokenExchange` describes it; 409, 429, 5xx, timeouts |
| `Restart`, `Revoke`, `Tick` | a process dies; the account's sessions are revoked; half a minute passes |

Times are ages in half minutes. With the default settings an access token lives 30 of them, is refreshed in its last 2,
the backend replays a rotation for 10, a process remembers one for 4 and every cooldown (5, 15, 30 s) rounds up
to 1; `Retry-After` may ask for a longer one, which is not modelled.

### AccountSessions

`users.token_version` and everything that reads or raises it. A handler is two steps: it loads the account once, and
later commits or answers by that object. `revoke_current_session` does select the row `FOR UPDATE`, but its session answers
with the object `get_current_user` loaded, so `RevokeSessions` adds to `handler[r].loaded`.

| Model | Code |
|---|---|
| `SignIn`, `Register`, `Continue` | the four OAuth endpoints and `/auth/refresh`: load the account (or insert it), mint a pair |
| `Present`, `Accepts` | `get_current_user`: a pair is accepted while its version is not below the account's |
| `RevokeSessions` | `revoke_current_session` (+1) and `revoke_all_sessions` (+`Leap`) |
| `condemned`, `tangled`, `overtaken` | history: pairs a revocation should end; revocations that overlapped |

### ProviderTokens

The `user_tokens` row of one connected account. An access token is the moment until which it works, a refresh token the
number of its issue; a renewal works on the copy its session holds.

| Model | Code |
|---|---|
| `Load`, `Check` | the query of `ensure_valid_token` and its verdict: fresh, without refresh token, or to be traded |
| `Trade` | the request to the provider: an answer, `invalid_grant`, or nothing |
| `Store`, `Deactivate`, `Fail` | the renewed columns and their commit; `_deactivate_token`; an error on the way |
| `SignIn`, `Commit` | `upsert_user_token` from `social_exchange` and the OAuth callbacks: lookup, then the columns that differ |
| `Disconnect` | `disconnect_integration` (`api/users.py`) |
| `Revoke`, `Tick` | external: the user withdraws the grant; the clock |
| `clean`, `gone` | history: the last sign-in met no renewal; disconnected since |

### CalendarSync

One connected Google or Microsoft calendar. A change is known by its place in the provider's log, a sync token is
the number of changes it has seen, a row is known by the change it was copied from.

| Model | Code |
|---|---|
| `Load`, `Fetch` | `sync_user_calendar` loads the account; `fetch_events` of the provider, with its answer to an expired token |
| `Cancel` | a cancelled event: the first live row is soft deleted, and `soft_delete()` commits half the sync with it |
| `Upserted`, `Commit` | `simple_upsert_event` (always inserts, see findings), then rows and token in one commit |
| `Change`, `Expire` | external: the calendar at the provider, the life of its sync tokens |
| `Fail` | provider, database or process fail; what was not committed is rolled back |

### Scheduling and BookingCalls

`Scheduling` is the server side of one user's calendar on SQLite, the only database on which `create_booking` gets past its
`SET TRANSACTION`. `BookingCalls` is the client: `enhancedApiClient.post`, a retry loop around the retry loop of
`apiClient.fetch`, over a network that loses requests and answers.

| Model | Code |
|---|---|
| `ClaimSlot` | `acquire_lock` on the exact slot, never released, gone after 30 s |
| `CheckBooking`, `CheckEvent` | the conflict queries of `create_booking` and `create_event` |
| `Insert`, `InsertTimesOut`, `Commit`, `Rollback` | `flush()` with the unique constraint and the write lock; the commit; an error after the flush |
| `ChangeRow`, `MoveEvent` | `cancel_booking`, `update_booking`, soft delete; `update_event` |
| `Post`, `Send`, `Receive` | a call of the enhanced client and its answer, by status; `Posted`, `Sent`, `InnerAgain`, `OuterAgain`, `Ended` are what they make of the record of a call |
| `NetworkFails`, `AfterNetworkError`, `AfterServerError` | the two loops: which errors each retries and how often |

### OfflineQueue

IndexedDB (`stored`, `retries`, `older`) shared by tabs, and in each tab one pass of `syncPendingActions`. The
timestamps decide nothing but the order of a pass: `older[a]` are the actions queued before `a`. The pass reads its
snapshot (`Load`), a set of entries, and takes the oldest of them (`IsNext`): `Skip`, or `Call`, `Apply` by the server,
`Succeed` or `CallFails`, `RecordSuccess` or `RecordError`. `Reload` takes the tab's memory away at any point and may leave the
server with a call it still carries out. `DetectConflicts` and `Resolve` are the conflict resolver; which pending
actions conflict is a matter of data and is left open.

### UsageQuota

The daily counters of one account and the three kinds of request that charge them. The first request of a day resets the
counters in its own transaction and holds the row until it ends; others judge by the copy they loaded.

| Model | Code |
|---|---|
| `Begin`, `Reset` | `check_usage_limit` with `get_user_quota`: the copy, the reset when the day is over, the 429 |
| `ChargeSync`, `ChargeChat`, `FinishStream` | `increment_usage` in `/calendar/sync`, `/ai/chat` and `/ai/stream` (rolled back) |
| `KeepReset`, `Abort` | a commit made by something else on the way; a request that ends early |
| `Midnight`, `ChangePlan` | the calendar; billing |

### RateLimits

The two limiters a request passes, by the second. `Gate` and `GateFallback` are the middleware's pipeline on a sorted set
(one member per second) and its map in memory; `ReadClock`, `AdmitByScript`, `RefuseByScript` and `LimitFault` are the Lua
script of the handlers' limit and its failures. A request reads the clock and is late by up to `MaxDelay` at the set.
A set is a bag, the number of its hits of each age; `Only` and `Plus` are its clean-up and its next hit, `Older` is the
clock, and `RetryAfter` the advice that a refusal works out from the oldest hit (`IsOldest`).

### Subscription

The billing columns of one account. A handler is two steps, `Load` (assign to the loaded row) and `Commit` (send the
columns that differed). `OpenSimulation`, `OpenCancel`, `OpenVerify`, `OpenDecision` and `OpenWebhook` are the handlers;
`GatewayEvent` is the gateway, which repeats, reorders and drops; `WebhookError` is the handler's "200 processed" after an
error. `ResolveTier` compares what the code compares, amounts divided by 100 with thresholds in paise.

### MC modules

Each `MC...` module extends a module with the symmetry sets, and for bookings the two slots, that its runs use.

## Runs

| Run | Question | Properties |
|---|---|---|
| `breaker` | Do overlapping calls of several periods confuse the breaker, and does traffic come back? | `ProbeBound`, `ClosedBelowThreshold`, `IdleBreakerAdmits`, `OpenIsLeftByProbeOrReset`, `Recovers` |
| `rotation` | Three requests, one token, Redis faulty: how many pairs? One | `SingleUse`, `Exclusive`, `LockRemovedByOwnerOrTime`, `ImplementsExchange` |
| `session` | Do races, failures and restarts sign a user out, or leave one at work without a usable session? | `RacesNeverSignOut`, `NeverAsksWhatItKnows`, `ActiveSessionNeverStranded`, `ActiveSessionStaysValid` |
| `access` | Does a revocation last, and spare later sign-ins? | `RevokedStaysRevoked`, `LaterSignInStands` |
| `tokens` | Do renewals and sign-ins hand out dead tokens, disconnect an account, or bring one back? | `ReturnedTokenWorks`, `StaysConnected`, `DisconnectStands` |
| `calendar` | Does a sync lose an event, and does it catch up? | `NothingMissed`, `EventuallyImported` |
| `bookings` | Is a slot booked twice, an event put over a booking, a success reported without a row? | `CallsTypeOK`, `SlotBookedOnce`, `OverlapsOnlyByRace`, `EventsAvoidBookings`, `BookedIsStored` |
| `offline_queue` | Two tabs on one store: are actions repeated, overtaken, dropped? | `QueueTypeOK`, `InOrderUnlessFailed`, `OncePerPage`, `SettledBySendOrUser` |
| `offline_stuck` | Is what was queued sent when the network returns? **No** | `SyncsWhenNetworkReturns` |
| `quota` | Is every charge counted once and on its day, and by how much is a limit overrun? | `CountIsExact`, `OverrunBounded` |
| `rate_limits` | Do both limits hold over every window, and is `Retry-After` true? | `LimitsTypeOK`, `LimitsHold`, `AdviceHolds` |
| `billing` | Can handlers tear the row of an account, overrule the gateway, decide twice? | `EntitlementConsistent`, `GatewayCancelStands`, `DecisionStands` |

To check one: `tlc -config MCRefreshRotation.cfg MCRefreshRotation.tla`. `offline_stuck` ends in a counterexample, explained
under [findings](#findings); each passing property has a mutant of the code in `PROJECT.json` that breaks it. Three runs check a type
invariant, because it says how far retries and limits can go; the other type invariants are proved (`TypeCorrect`).

What the passing runs establish beyond their names:

* `ProbeBound` is `half_open_max_calls + 1`: the call that turns the breaker to HALF_OPEN takes no slot.
  `IdleBreakerAdmits` and `Recovers` carry the exception `leaked`: a probe that timed out or was cancelled gives its
  slot back to nobody, and once they are all gone only `reset()` helps.
* `SingleUse` excludes exactly `unprotected` and `underlisted` tokens. In production the first means a lock
  that ran out below a live request (10 s); the second a crash or a fault between publishing and blacklisting, or a
  token refreshed in its own first second. Without these exceptions TLC finds a second pair.
* `ActiveSessionNeverStranded` holds while the user makes a session request every half minute and the backend
  replays for longer than two requests can last one after the other (`PaceAssumption`). A cookie can lag the backend by *two* rotations:
  slow responses of old and new copies of the session overwrite each other in turn.
* `NeverAsksWhatItKnows` shows that the second cache lookup of `refreshBackendToken`, after "already been used",
  never finds anything.
* `RevokedStaysRevoked` needs `tangled`: of two revocations that overlap, the later commit may write the *smaller* version, and
  tokens the other one ended work again.
* `ReturnedTokenWorks` rests on `LifetimeAssumption`: `social_exchange` never passes an expiry, so a new token is stored
  under the old one's, and only the five-minute margin covers the difference. Google's tokens all live an hour;
  Microsoft's live between 60 and 90 minutes, which the assumption excludes.
* `StaysConnected` speaks of accounts whose last sign-in met no renewal (`clean`). Otherwise an in-flight refusal of the old
  grant deactivates the account the user has just reconnected, and a late renewal overwrites the new grant's tokens.
* `NothingMissed` excepts a restored event whose new row fell to a sync that still saw the cancellation (`undone`), and
  `EventuallyImported` a Google calendar of more than one page whose sync token expired (`OnePageForEver`).
* `OverlapsOnlyByRace`: the slot lock protects the *same* slot only; two requests for overlapping slots that check before
  either commits are both stored.
* `CountIsExact` needs `misjudged`: two requests that open the day together, or one that works across midnight,
  reset by a copy that is out of date.
* `EntitlementConsistent` needs `lostWrite`: an assignment equal to the loaded value is not sent, and what another handler
  wrote to that column stays.
* `LimitsHold` says of the middleware only that it lets requests by in `GateLimit` different *seconds*: its set holds one
  member per second, whatever their number.
* `OncePerPage` is as strong as it is because a page makes one pass (see `offline_stuck`).

## Bounds

| Run | Instance | Why it is enough |
|---|---|---|
| `breaker` | 4 calls, thresholds 2 and 3, 2 slots, timeout 2 | both slots and the extra probe in flight with a stale call left over; probes must return before others are admitted |
| `rotation` | 3 requests, clock to 5, lock 1, replay 2, token 3 s | a holder that overran, its successor and a waiter; the token presented in its first second, within and after the replay window and after it expired; the order lock < replay < token is the code's (10 s, 300 s, 30 days) |
| `session` | 2 session requests, 1 render, 2 processes, 2 rotations, replay 3 | races within a process and across two, a restart of either; the cookie is overwritten from both sides while a render rotates |
| `access` | 3 requests, 4 pairs, version to 7, leap 3 | two revocations that overlap and a sign-in beside them; `revoke_all` (+1000 in the code) still exceeds two `revoke_current` |
| `tokens` | 2 callers, lifetimes 3 and 4, margin 2, prompt 1, clock to 3, 2 refresh tokens, 2 sign-ins | a renewal under way across a sign-in, a row that is deleted and created again, a new token under the old expiry |
| `calendar` | 2 events, pages of 1, 3 changes, 2 syncs, 1 failure | a calendar of more than a page; an event created, cancelled and restored while two syncs overlap |
| `bookings` | 2 calls, 1 + 1 retries, 2 overlapping slots, lock of 1 s, 1 fault, 1 row touched | each call up to four requests, a lock that runs out below its holder |
| `offline_*` | 2 tabs (1 in `offline_stuck`), 2 actions, 2 retries, 1 reload | three passes, so that an action fails twice and is skipped; two actions have an order |
| `quota` | 2 requests, limits 1 and 2, one midnight, 4 charges | the reset races with a charge, a request crosses midnight, a plan changes in between |
| `rate_limits` | 2 requests, limits 2 over 3 and 2 s, delay 1 | an entry older than the window by clock but not by arrival; advice after a late hit |
| `billing` | 2 handlers, 1 manual request, 2 events | every pair of handlers overlaps; activation and cancellation in both orders and twice |

Bounding constants: `MaxTime`, `MaxDay` (clocks), `WaitAttempts` (1 instead of 8 polls: a poll differs from the
next only in time), `LastToken`, `MaxTokens`, `MaxVersion`, `MaxSignIns`, `MaxChanges`, `MaxEvents`, `MaxCharges` (counters),
`MaxFlight` (a request is over within one unit; its fetch is aborted after 15 s), `MaxDelay`, `Prompt` (how late a step may
be), `MaxReloads`, `MaxFaults`, `MaxTouched`, `Resolving`. Where these bounds, and not the code, stop the system, the
configuration says `CHECK_DEADLOCK FALSE`. Runs that check liveness use no symmetry.

## Fairness

* **Breaker**: the clock, some caller, and the return of each admitted call. The wrapped tools have client
  timeouts.
* **Session**: the clock, servers that serve, a backend that answers or fails (every fetch is aborted after
  15 s), and session requests of the browser (`getSession()` precedes every API call). Weak fairness is on the
  service of each request and on each trade, never on a failure, a render or a revocation.
* **Calendar**: pages that need the calendar are opened again and again, and a sync that was started runs to its end.
  Nothing makes the provider change or expire anything.
* **Queue**: the script of each page and the calls it makes go on, and the network returns. Nothing makes a user
  reload a page or press "sync now".
* The other modules are checked for safety only: their handlers end in an answer by construction (at most 8 polls, two
  retry loops with a bound), and nothing in the code promises more.

## Proofs

TLAPS proves the following for all values of the constants that satisfy the module's named assumption
(`BreakerAssumption`, `RotationAssumption`, ...; TLC evaluates them in every run). Most assumptions give ranges and types
and no more. Those that say more:

* `LifetimeAssumption` of `ProviderTokens` (see the runs).
* `SessionAssumption`: a session is not due for refresh the moment it is issued.
* `PaceAssumption` of `SessionRefresh`, which only `WorkIsNeverStranded` uses: twice the time a request can last is less
  than the replay window and fits between the issue of an access token and its refresh. A call is aborted after 15 s
  (`AUTH_HTTP_TIMEOUT_MS`, one unit of half a minute), the replay window is 5 minutes
  (`REFRESH_ROTATION_CACHE_TTL_SECONDS`), and an access token lives 15 minutes and is refreshed in its last one.
* `QueueAssumption`: the tabs are finite in number. `OncePerPage` counts them.
* `CallsAssumption`: a slot ends after it starts.

| Module | Theorems |
|---|---|
| `CircuitBreakerProofs` | `TypeCorrect`, `ProbesAreBounded`, `ClosedIsBelowThreshold`, `OpenAlwaysHasDeadline`, `OpenNeedsProbeOrReset`, `IdleBreakerIsPassable` |
| `RefreshRotationProofs` | `TypeCorrect`, `RefreshIsSingleUse`, `RefreshIsExclusive`, `LockStaysWithHolder`, `RefreshImplementsExchange` (refinement of `TokenExchange`) |
| `SessionProofs` | of `SessionRefresh`: `TypeCorrect`, `OnlyRevocationSignsOut`, `SecondLookupIsDead`, `WorkIsNeverStranded`; of `AccountSessions`: `AccountTypeCorrect`, `RevocationHolds`, `LaterSignInsWork` |
| `ProviderTokensProofs` | `TypeCorrect`, `GivenTokensWork`, `DeactivatedForAReason`, `DisconnectedStaysSo` |
| `CalendarSyncProofs` | `TypeCorrect`, `TokenNeverAhead` |
| `SubscriptionProofs` | `TypeCorrect`, `RowIsOnePlans`, `CancellationIsLast`, `DecisionsAreFinal` |
| `LimitsProofs` | of `UsageQuota`: `TypeCorrect`, `ChargesAreCounted`, `OverrunIsBounded`; of `RateLimits`: `LimitsTypeCorrect`, `LimitsAreKept`, `AdviceIsTrue` |
| `ClientProofs` | of `BookingCalls` with `Scheduling`: `CallsTypeCorrect`, `NoDoubleBooking`, `OverlapsAreRaces`, `EventsKeepClear`, `BookedHasRow`; of `OfflineQueue`: `QueueTypeCorrect`, `QueueOrder`, `QueueRepeats`, `QueueSettles` |

A proof module that covers two components extends both, so one of the two has names of its own throughout
(`AccountSpec`, `QueueInit`, `CallsTypeOK`, `limitVars`, ...).

Each part finds a strengthening (`IInv`, or `AccountInv`, `LimitsInv`, `CallsInv`, `QueueInv`), which TLC checked first, and
proves one lemma per action. Why the
strengthening is needed, and what carries the argument:

* **Breaker.** `ProbeBound` is not inductive: it says nothing of calls left over from an earlier half-open period.
  `ProbesArePaidFor` does: the calls of *this* period are finite in number and at most `halfOpenCalls + 1`, the extra one
  being the call that opened the period. `AdmissionAddsOne` and `ReturnAddsNone` carry the cardinalities.
* **Rotation.** `IInv` follows a pair from the holder of the lock to the client: who mints holds the lock
  (`HolderHasLock`), nobody mints twice (`MintsOnce`), what is published stays covered by replay entry, blacklist or
  lock (`PublishedIsCovered`), and answers and deliveries are of published pairs. The refinement maps every
  action to a sale, a hand-out, a lapse of `TokenExchange`, or a stutter.
* **Session.** `SignedOutOnlyIfRevoked` and `NeverAsksWhatItKnows` become inductive with the types and the fact that every
  trade has a successor (`TradesHaveSuccessors`). `WorkIsNeverStranded` has a second invariant for the histories in which
  nothing fails (`CalmInv`). A response can bring back a token that was traded before only if its request was served
  before the trade, and it arrives within `MaxFlight`; so the cookie's token was traded at most that long ago
  (`CookieInTime`; one unit less once the user has stored a response in this one), and a request's copy, which
  ages as long again, at most twice that (`InTime`). By `PaceAssumption` (`TradeIsInTime`) every such copy is still
  replayed when it is traded, and the token it gets is not due itself, so that only the newest token and those near
  their expiry are ever traded (`TokensInOrder`, `TradesInTime`).
* **Account sessions.** The version a request has loaded is current unless its revocation was overtaken; so revocations
  that do not overlap exceed the version of every pair they condemn.
* **Connected accounts.** A stored expiry is at most a margin beyond its token's end (`ExpiryIsNear`, `Covered`); the row
  and all copies hold refresh tokens that stand and fall together (`OneFamily`), but for newcomers, which are alone.
* **Calendar.** What the invariant says of the stored token must be known of the token a sync has loaded, and of the
  token it is about to store, except for the items it still has to write (`Sound`, `RunsAreSound`).
* **Billing.** A commit that loses nothing has the effect of the whole assignment (`CommitIsWhole`); every assignment has
  one of five shapes, each of which leaves one plan's row. Who decides an uncontested request is alone
  (`OneDecides`).
* **Quotas.** A row whose day is over was charged nothing today (`CountersAgree`), a copy of today stems from a row of
  today (`CopiesAreOfToday`), the row is held while it is reset (`HolderOpensDay`). What was charged and what is still in
  progress are bounded *together* (`SlackLeft`): a charge moves one request from one to the other.
* **Rate limits.** A bag's hits are a finite set of pairs (`Units`), so that sums over windows become cardinalities:
  dropping hits, adding one and letting all grow older are an inclusion, an element and an injection (`SmallerBag`,
  `BagPlusOne`, `OlderBag`). What was served in a window is then below what the set holds (`ServedAreHits`), and its
  seconds are marked (`SecondsAreMarked`). Advice is due when some hit is as old as the advice says (`Room`):
  either that hit is dropped before the others are counted, or the set was not full (`AdviceIsDue`, `AdvisedIsAlone`).
* **Bookings.** The conflict query and the INSERT are two steps, so the invariant speaks of requests past their query and
  not of rows: `BookingsChecked` and `EventsChecked` hold of a request from its query on, against what had settled when
  it arrived, and no later commit can disturb that. Equal slots are kept apart by `RowsAreAnswered`: the holder of the
  write lock has passed the unique constraint, and nobody stores a booking while it holds the lock.
* **API clients.** Sends are bounded by failures: each send but the first follows a failure that a retry counter has
  counted, a round of the outer loop standing for `1 + InnerRetries` (`SendsAreCounted`). So every send is a request
  of its own, and an answer "ok" belongs to a row (`RowsAreAnswered`).
* **Offline queue.** Whatever was queued before an entry of a snapshot has been attempted or is an entry itself
  (`PassInOrder`): a pass takes the oldest first, and what is stored later is not older. For `OncePerPage` the sends of an
  action and the tabs that can still send it before their next load (`MaySend`) are bounded *together* (`SendsLeft`): a
  send takes its tab out of the set for the rest of the page, because the guard `syncing` is never given back.

Every invariant that a run checks is proved, and so is every action property. Only model-checked is what needs fairness
(`Recovers`, `ActiveSessionStaysValid`, `EventuallyImported`), which, like `ENABLED`, is beyond the prover. No module
declares a RECURSIVE operator.

## Findings

**`offline_stuck`** - `clearSyncedActions` asks for an IndexedDB key range of `true`, which is no valid key; the
exception leaves `syncInProgress` set, and the page never syncs again (`offlineQueue.ts:4` promises the opposite).

Other observations made while modelling; the modules describe them as the code has them:

* *Rotation and sessions.* A token refreshed in the second of its issue is answered with itself and then blacklisted.
  A session that lost a race whose replay window has passed retries for ever (`auth.ts:782-784`). With
  `ACCESS_TOKEN_EXPIRE_MINUTES=1` every request refreshes; `SessionAssumption` excludes that. `token_blacklist:` keys
  are read by nobody (`api/auth.py:24-36`).
* *Breaker.* It counts successes admitted in earlier periods; see `leaked` above.
* *Queue.* "Keep local" marks the action as synced, unsent (`syncConflictResolver.ts:189-191`); one deleted by "keep
  server" may still be sent by a pass that read it before; synced actions are never cleared.
* *Quotas.* Charges of `/ai/stream` and `/ai/legacy/chat` are rolled back; `/ai/chat` does not check the limit.
* *Rate limits.* Refused requests count; `RateLimitExceeded` raised inside `BaseHTTPMiddleware` becomes a 500, where
  `docs/api/overview.md:16-17` says 429.
* *Billing.* The tier in an event's notes is ignored, and `_resolve_tier` compares thresholds in paise with amounts already
  divided by 100, so a payment for pro or elite gives the free tier (`payment.py:130`, `billing.py:407`). The Stripe webhook
  raises `NameError`.
* *Bookings and events.* `not X.is_deleted` in a WHERE is Python's `not` on a column, the constant False: events never conflict
  with events (`scheduler.py:185`), and `simple_upsert_event` always inserts (`calendar_utils.py:27`), which makes
  copies. On PostgreSQL `create_booking` always fails. A retry after a 500 within 30 s meets its own slot lock (409).
  A request with an `Idempotency-Key` ends in a 500, rolled back. `reschedule_booking` answers 422 to every body.
* *Calendar.* Microsoft's delta link keeps its first window for ever; `sync_all_calendars` does nothing;
  `external_subscription_id` is never set, so providers' webhooks are refused.
* *Connected accounts.* A deactivation notifies nobody (docstring `token_service.py:29-30`); on SQLite naive and aware
  times are compared, which raises; two first sign-ins at once can store two rows.

## Not modelled

* **Public bookings**: `_localize_datetime` calls `localize` on a `ZoneInfo`, so slots cannot be worked out and a booking ends in
  an error; rescheduling and cancelling need the token that only a confirmation hands out. No request changes a row.
* **Dead letter queue**: `async with get_db()` on an async generator raises before any item is touched, outside of the
  tests, which patch it. There is no reachable state to describe.
* **Workflows and automations**: `run_booking_automation_task` hands an ORM row to code that calls `.get` on it, Celery does
  not import the module of the task, the reflection phase reads a key nobody returns, workflow tasks are stubs.
* **Webhook delivery**: one Celery task per delivery, at-least-once by design, no state of its own.
* **AI assistant**: no agent ever leaves its initial state (`orchestrator.py:77-78`), so what is dispatched is answered "not
  ready"; the chat is prompt construction and provider calls. Its daily limit is in `UsageQuota`.
* **Data-subject requests**: every submission fails on PostgreSQL, and nothing calls or asks them.
* **Teams, resources, cost guard**: single-request handlers; resource bookings refuse every JSON body; the guard has no caller.
* **Database sessions and replicas, monitoring, simulation, architecture, notifications, mail**: configuration, scripts
  outside the application, and output.
* **Within modelled components**: see the notes in `PROJECT.json`. The largest are the OAuth handshakes, routing of team
  bookings (`routing.py:49` reads `last_assigned_at` without a lock), CalDAV, checkout and proof upload, and
  `useSyncEngine.ts`.

The mapped lines are a small part of the repository because most of it is I/O, rendering, schemas, scripts, code nothing
calls, or handlers that fail before they change anything. None of that has an order of events to get wrong.

## Plan

Done: every component that keeps state which requests can change has a module, and every safety property of a run has a
proof. Left, in this order:

1. Abstract specifications as for rotation: a calendar in which a booking is one atomic step, implemented by `Scheduling`
   except for rows stored by a race, and a log of actions, implemented by `OfflineQueue`.
2. `SessionRefresh` composed with `TokenExchange` in place of `Rotate` and `Answer`, which needs a history of the pairs that
   were handed out.
3. Components listed under [not modelled](#not-modelled), once their code reaches a state.
