-------------------------- MODULE RefreshRotation --------------------------
(***************************************************************************)
(* POST /auth/refresh of backend/auth/routes.py: concurrent requests trade *)
(* refresh tokens of one user for new token pairs.  The only shared state  *)
(* is in Redis (backend/core/redis.py): a replay cache per presented token *)
(* (refresh_rotation:), a blacklist entry (blacklist:) and a lock with a   *)
(* time to live (refresh_lock:).  Every await of the handler is a step.    *)
(*                                                                         *)
(* A JWT is its payload, and for one user and one token_version the        *)
(* payload is decided by the second of issue (iat; there is no jti), so a  *)
(* token is modelled by that second and a pair by its refresh token.       *)
(* Times and times to live are whole seconds of the clock `now`.           *)
(***************************************************************************)
EXTENDS Integers, FiniteSets

CONSTANTS
  Requests,      \* request slots: at most this many are in flight
  NoOwner,       \* the owner of a lock never taken
  MaxTime,       \* the clock stops here
  Presented,     \* the tokens (seconds of issue) clients present in this instance
  LockTtl,       \* REFRESH_ROTATION_LOCK_TTL_SECONDS
  RotationTtl,   \* REFRESH_ROTATION_CACHE_TTL_SECONDS
  TokenTtl,      \* REFRESH_TOKEN_EXPIRE_DAYS, also the blacklist's time to live
  WaitAttempts,  \* REFRESH_ROTATION_LOCK_WAIT_ATTEMPTS
  Production,    \* _is_production_env()
  RedisFaults    \* whether Redis operations may raise in this instance

ASSUME RotationAssumption ==
  /\ NoOwner \notin Requests
  /\ MaxTime \in Nat
  /\ Presented \subseteq 0..MaxTime
  /\ LockTtl \in Nat \ {0}
  /\ RotationTtl \in Nat \ {0}
  /\ TokenTtl \in Nat \ {0}
  /\ WaitAttempts \in Nat \ {0}
  /\ Production \in BOOLEAN
  /\ RedisFaults \in BOOLEAN

Tokens == 0..MaxTime
NoAnswer == -1

VARIABLES
  now,
  issued,         \* the refresh tokens of Presented that some client holds
  lockOwner, lockUntil,          \* refresh_lock:<token>
  rotation, rotationUntil,       \* refresh_rotation:<token>
  listedUntil,                   \* blacklist:<token>
  pc, tok, answer, polls,        \* per request
  delivered,      \* history: the pairs clients received for each token
  unprotected,    \* history: tokens worked on without the protection of Redis
  underlisted     \* history: tokens whose blacklist entry is missing or too short

redisVars   == <<lockOwner, lockUntil, rotation, rotationUntil, listedUntil>>
requestVars == <<pc, tok, answer, polls>>
vars == <<now, issued, redisVars, requestVars, delivered, unprotected, underlisted>>

\* Where the handler holds lock_acquired = True.
CriticalSection ==
  {"recheck", "blacklist", "blacklist_replay", "load_user", "publish", "list", "release"}
Places == {"idle", "replay", "lock", "waiting"} \cup CriticalSection

RedisTypes ==
  /\ lockOwner \in [Tokens -> Requests \cup {NoOwner}]
  /\ lockUntil \in [Tokens -> Nat]
  /\ rotation \in [Tokens -> Tokens]
  /\ rotationUntil \in [Tokens -> Nat]
  /\ listedUntil \in [Tokens -> Nat]

RequestTypes ==
  /\ pc \in [Requests -> Places]
  /\ tok \in [Requests -> Tokens]
  /\ answer \in [Requests -> Tokens \cup {NoAnswer}]
  /\ polls \in [Requests -> 0..(WaitAttempts - 1)]

HistoryTypes ==
  /\ now \in Tokens
  /\ issued \subseteq Presented
  /\ delivered \in [Tokens -> SUBSET Tokens]
  /\ unprotected \subseteq Tokens
  /\ underlisted \subseteq Tokens

TypeOK == RedisTypes /\ RequestTypes /\ HistoryTypes

Init ==
  /\ now = 0
  /\ issued = {}
  /\ lockOwner = [t \in Tokens |-> NoOwner]
  /\ lockUntil = [t \in Tokens |-> 0]
  /\ rotation = [t \in Tokens |-> 0]
  /\ rotationUntil = [t \in Tokens |-> 0]
  /\ listedUntil = [t \in Tokens |-> 0]
  /\ pc = [r \in Requests |-> "idle"]
  /\ tok = [r \in Requests |-> 0]
  /\ answer = [r \in Requests |-> NoAnswer]
  /\ polls = [r \in Requests |-> 0]
  /\ delivered = [t \in Tokens |-> {}]
  /\ unprotected = {}
  /\ underlisted = {}

-----------------------------------------------------------------------------
(* Redis keys.  A key whose time has come no longer exists.                *)

LockFreeAlways(t) == TRUE
LockFree(t)    == lockUntil[t] <= now
OwnsLock(r, t) == lockOwner[t] = r /\ lockUntil[t] > now
Replayable(t)  == rotationUntil[t] > now
Listed(t)      == listedUntil[t] > now

\* decode_jwt_token: the library accepts a token up to and including its exp.
Expired(t) == now > t + TokenTtl

\* SET key owner NX EX ttl, and the compare-and-delete script of
\* cache_delete_if_value.
TakeLock(r, t) ==
  /\ lockOwner' = [lockOwner EXCEPT ![t] = r]
  /\ lockUntil' = [lockUntil EXCEPT ![t] = now + LockTtl]

DeleteLock(t) ==
  /\ lockOwner' = [lockOwner EXCEPT ![t] = NoOwner]
  /\ lockUntil' = [lockUntil EXCEPT ![t] = 0]

DropAnyLock(r, t) == DeleteLock(t)
DropLock(r, t) ==
  IF OwnsLock(r, t) THEN DeleteLock(t) ELSE UNCHANGED <<lockOwner, lockUntil>>

InCriticalSection(r) == pc[r] \in CriticalSection

\* The client receives pair p for the token it presented.
Deliver(t, p) ==
  /\ delivered' = [delivered EXCEPT ![t] = @ \cup {p}]
  /\ issued' = issued \cup ({p} \cap Presented)

Goto(r, place) == pc' = [pc EXCEPT ![r] = place]
Answer(r, p)   == answer' = [answer EXCEPT ![r] = p]

\* The handler is done and its locals are gone.
Finish(r) ==
  /\ Goto(r, "idle")
  /\ tok' = [tok EXCEPT ![r] = 0]
  /\ Answer(r, NoAnswer)
  /\ polls' = [polls EXCEPT ![r] = 0]

FinishOr(r, place) ==
  \/ Production /\ Finish(r)
  \/ ~Production /\ Goto(r, place) /\ UNCHANGED <<tok, answer, polls>>

\* Outside production a failed Redis operation is logged and the handler goes
\* on without it.
GoOnUnprotected(t) ==
  unprotected' = IF Production THEN unprotected ELSE unprotected \cup {t}

-----------------------------------------------------------------------------
(* The environment *)

\* Login, registration or OAuth callback: a pair issued in this second.
Login ==
  /\ issued' = issued \cup ({now} \cap Presented)
  /\ UNCHANGED <<now, redisVars, requestVars, delivered, unprotected, underlisted>>

\* A client presents a token it holds, for the first time or again.
Present(r) ==
  /\ pc[r] = "idle"
  /\ \E t \in issued : tok' = [tok EXCEPT ![r] = t]
  /\ Goto(r, "replay")
  /\ UNCHANGED <<now, issued, redisVars, answer, polls, delivered, unprotected, underlisted>>

\* One second passes.  A lock that expires while its holder is still at work
\* leaves the token unprotected.
Tick ==
  /\ now < MaxTime
  /\ now' = now + 1
  /\ unprotected' = unprotected \cup
       {tok[r] : r \in {q \in Requests : /\ InCriticalSection(q)
                                         /\ OwnsLock(q, tok[q])
                                         /\ lockUntil[tok[q]] <= now + 1}}
  /\ UNCHANGED <<issued, redisVars, requestVars, delivered, underlisted>>

\* The worker dies; what it wrote to Redis stays, its lock until the lock's
\* time to live has passed.
Crash(r) ==
  /\ pc[r] # "idle"
  /\ Finish(r)
  /\ underlisted' = IF pc[r] = "list" THEN underlisted \cup {tok[r]} ELSE underlisted
  /\ UNCHANGED <<now, issued, redisVars, delivered, unprotected>>

-----------------------------------------------------------------------------
(* The handler, await by await *)

ReplayHit(r) ==
  /\ pc[r] = "replay"
  /\ Replayable(tok[r])
  /\ Deliver(tok[r], rotation[tok[r]])
  /\ Finish(r)
  /\ UNCHANGED <<now, redisVars, unprotected, underlisted>>

ReplayMiss(r) ==
  /\ pc[r] = "replay"
  /\ ~Replayable(tok[r])
  /\ Goto(r, "lock")
  /\ UNCHANGED <<now, issued, redisVars, tok, answer, polls, delivered, unprotected, underlisted>>

\* 503 in production.
ReplayFault(r) ==
  /\ RedisFaults
  /\ pc[r] = "replay"
  /\ FinishOr(r, "lock")
  /\ UNCHANGED <<now, issued, redisVars, delivered, unprotected, underlisted>>

Lock(r) ==
  /\ pc[r] = "lock"
  /\ LockFree(tok[r])
  /\ TakeLock(r, tok[r])
  /\ Goto(r, "recheck")
  /\ UNCHANGED <<now, issued, rotation, rotationUntil, listedUntil, tok, answer, polls,
                 delivered, unprotected, underlisted>>

LockBusy(r) ==
  /\ pc[r] = "lock"
  /\ ~LockFree(tok[r])
  /\ Goto(r, "waiting")
  /\ UNCHANGED <<now, issued, redisVars, tok, answer, polls, delivered, unprotected, underlisted>>

\* The reply is lost: the lock may or may not have been taken.
LockFault(r) ==
  /\ RedisFaults
  /\ pc[r] = "lock"
  /\ \/ LockFree(tok[r]) /\ TakeLock(r, tok[r])
     \/ UNCHANGED <<lockOwner, lockUntil>>
  /\ FinishOr(r, "recheck")
  /\ GoOnUnprotected(tok[r])
  /\ UNCHANGED <<now, issued, rotation, rotationUntil, listedUntil, delivered, underlisted>>

PollHit(r) ==
  /\ pc[r] = "waiting"
  /\ Replayable(tok[r])
  /\ Deliver(tok[r], rotation[tok[r]])
  /\ Finish(r)
  /\ UNCHANGED <<now, redisVars, unprotected, underlisted>>

LastAttempt(r)        == polls[r] + 1 = WaitAttempts

\* 409 after the last attempt.
PollMiss(r) ==
  /\ pc[r] = "waiting"
  /\ ~Replayable(tok[r])
  /\ IF LastAttempt(r)
       THEN Finish(r)
       ELSE polls' = [polls EXCEPT ![r] = @ + 1] /\ UNCHANGED <<pc, tok, answer>>
  /\ UNCHANGED <<now, issued, redisVars, delivered, unprotected, underlisted>>

\* Nothing catches a Redis error here: 500.
PollFault(r) ==
  /\ RedisFaults
  /\ pc[r] = "waiting"
  /\ Finish(r)
  /\ UNCHANGED <<now, issued, redisVars, delivered, unprotected, underlisted>>

\* The replay cache is read again under the lock, and once more when the token
\* turns out to be blacklisted.
RecheckHit(r) ==
  /\ pc[r] \in {"recheck", "blacklist_replay"}
  /\ Replayable(tok[r])
  /\ Answer(r, rotation[tok[r]])
  /\ Goto(r, "release")
  /\ UNCHANGED <<now, issued, redisVars, tok, polls, delivered, unprotected, underlisted>>

\* The second miss is the 401 "already been used".
RecheckMiss(r) ==
  /\ pc[r] \in {"recheck", "blacklist_replay"}
  /\ ~Replayable(tok[r])
  /\ Goto(r, IF pc[r] = "recheck" THEN "blacklist" ELSE "release")
  /\ UNCHANGED <<now, issued, redisVars, tok, answer, polls, delivered, unprotected, underlisted>>

RecheckFault(r) ==
  /\ RedisFaults
  /\ pc[r] \in {"recheck", "blacklist_replay"}
  /\ Goto(r, "release")
  /\ UNCHANGED <<now, issued, redisVars, tok, answer, polls, delivered, unprotected, underlisted>>

SkipBlacklist(r) == Goto(r, "load_user")

\* A token that is not listed is decoded at once: 401 when it has expired.
NotListed(r) == Goto(r, IF Expired(tok[r]) THEN "release" ELSE "load_user")

CheckBlacklist(r) ==
  /\ pc[r] = "blacklist"
  /\ \/ Listed(tok[r]) /\ Goto(r, "blacklist_replay")
     \/ ~Listed(tok[r]) /\ NotListed(r)
  /\ UNCHANGED <<now, issued, redisVars, tok, answer, polls, delivered, unprotected, underlisted>>

BlacklistFault(r) ==
  /\ RedisFaults
  /\ pc[r] = "blacklist"
  /\ IF Production THEN Goto(r, "release") ELSE NotListed(r)
  /\ GoOnUnprotected(tok[r])
  /\ UNCHANGED <<now, issued, redisVars, tok, answer, polls, delivered, underlisted>>

\* The account exists and its token_version is not newer: a pair is minted.
LoadUser(r) ==
  /\ pc[r] = "load_user"
  /\ Answer(r, now)
  /\ Goto(r, "publish")
  /\ UNCHANGED <<now, issued, redisVars, tok, polls, delivered, unprotected, underlisted>>

\* 401: no such account, or its sessions were revoked.
RejectUser(r) ==
  /\ pc[r] = "load_user"
  /\ Goto(r, "release")
  /\ UNCHANGED <<now, issued, redisVars, tok, answer, polls, delivered, unprotected, underlisted>>

StoreRotation(r) ==
  /\ rotation' = [rotation EXCEPT ![tok[r]] = answer[r]]
  /\ rotationUntil' = [rotationUntil EXCEPT ![tok[r]] = now + RotationTtl]

Publish(r) ==
  /\ pc[r] = "publish"
  /\ StoreRotation(r)
  /\ Goto(r, "list")
  /\ UNCHANGED <<now, issued, lockOwner, lockUntil, listedUntil, tok, answer, polls,
                 delivered, unprotected, underlisted>>

\* 503 in production, although the pair may have reached the replay cache.
PublishFault(r) ==
  /\ RedisFaults
  /\ pc[r] = "publish"
  /\ \/ /\ StoreRotation(r)
        /\ underlisted' = underlisted \cup {tok[r]}
     \/ UNCHANGED <<rotation, rotationUntil, underlisted>>
  /\ IF Production THEN Goto(r, "release") /\ Answer(r, NoAnswer)
                   ELSE Goto(r, "list") /\ UNCHANGED answer
  /\ GoOnUnprotected(tok[r])
  /\ UNCHANGED <<now, issued, lockOwner, lockUntil, listedUntil, tok, polls, delivered>>

\* The entry lives TokenTtl from now on.  The token is accepted through second
\* tok + TokenTtl, which the entry does not cover when the token is used in the
\* very second it was issued.
Blacklist(r) ==
  /\ listedUntil' = [listedUntil EXCEPT ![tok[r]] = now + TokenTtl]
  /\ underlisted' = IF now = tok[r] THEN underlisted \cup {tok[r]} ELSE underlisted

List(r) ==
  /\ pc[r] = "list"
  /\ Blacklist(r)
  /\ Goto(r, "release")
  /\ UNCHANGED <<now, issued, lockOwner, lockUntil, rotation, rotationUntil, tok, answer,
                 polls, delivered, unprotected>>

ListFault(r) ==
  /\ RedisFaults
  /\ pc[r] = "list"
  /\ \/ Blacklist(r)
     \/ underlisted' = underlisted \cup {tok[r]} /\ UNCHANGED listedUntil
  /\ Goto(r, "release")
  /\ Answer(r, IF Production THEN NoAnswer ELSE answer[r])
  /\ GoOnUnprotected(tok[r])
  /\ UNCHANGED <<now, issued, lockOwner, lockUntil, rotation, rotationUntil, tok, polls, delivered>>

\* The finally block, then the response.  A failed release is only logged.
Respond(r) ==
  /\ IF answer[r] = NoAnswer THEN UNCHANGED <<delivered, issued>>
                             ELSE Deliver(tok[r], answer[r])
  /\ Finish(r)

Release(r) ==
  /\ pc[r] = "release"
  /\ DropLock(r, tok[r])
  /\ Respond(r)
  /\ UNCHANGED <<now, rotation, rotationUntil, listedUntil, unprotected, underlisted>>

ReleaseFault(r) ==
  /\ RedisFaults
  /\ pc[r] = "release"
  /\ Respond(r)
  /\ UNCHANGED <<now, redisVars, unprotected, underlisted>>

Refresh(r) ==
  \/ ReplayHit(r) \/ ReplayMiss(r) \/ ReplayFault(r)
  \/ Lock(r) \/ LockBusy(r) \/ LockFault(r)
  \/ PollHit(r) \/ PollMiss(r) \/ PollFault(r)
  \/ RecheckHit(r) \/ RecheckMiss(r) \/ RecheckFault(r)
  \/ CheckBlacklist(r) \/ BlacklistFault(r)
  \/ LoadUser(r) \/ RejectUser(r)
  \/ Publish(r) \/ PublishFault(r)
  \/ List(r) \/ ListFault(r)
  \/ Release(r) \/ ReleaseFault(r)

Next ==
  \/ Login
  \/ Tick
  \/ \E r \in Requests : Present(r) \/ Refresh(r) \/ Crash(r)

Spec == Init /\ [][Next]_vars

-----------------------------------------------------------------------------
(* Properties *)

\* A refresh token buys one pair: however often, however concurrently and
\* however late it is presented, every client that gets an answer gets the same
\* pair.  The exceptions are exactly the cases in which the lock or the
\* blacklist entry was not there to be relied on.
SingleUse ==
  \A t \in Tokens \ (unprotected \cup underlisted) :
    \A p, q \in delivered[t] : p = q

\* At most one request at a time works on a token under the lock, unless the
\* lock ran out below it.
Exclusive ==
  \A r, q \in Requests :
    /\ InCriticalSection(r) /\ InCriticalSection(q)
    /\ tok[r] = tok[q]
    /\ tok[r] \notin unprotected
    => r = q

\* A request that overran its lock does not release the lock of the request
\* that took over from it: a held lock goes away by time or by its holder.
LockRemovedByOwnerOrTime ==
  [][\A r \in Requests :
       /\ InCriticalSection(r)
       /\ OwnsLock(r, tok[r])
       /\ lockUntil'[tok[r]] <= now
       => pc'[r] = "idle"]_vars

\* The handler implements the exchange: a token is sold where its pair is
\* published, and every answer, by replay or after the critical section, hands out
\* what was sold.
Exchange ==
  INSTANCE TokenExchange WITH
    NotSold <- NoAnswer,
    sold    <- [t \in Tokens |-> IF rotationUntil[t] = 0 THEN NoAnswer ELSE rotation[t]],
    exempt  <- unprotected \cup underlisted

ImplementsExchange == Exchange!Spec
=============================================================================
