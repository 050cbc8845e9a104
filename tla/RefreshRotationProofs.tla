----------------------- MODULE RefreshRotationProofs -----------------------
(***************************************************************************)
(* A refresh token buys one pair, for any number of concurrent requests    *)
(* and any times to live, with Redis faults and crashes.  The argument:    *)
(* a request in the critical section owns an unexpired lock, so it is      *)
(* alone; it mints only after it saw the token neither expired nor         *)
(* blacklisted, and once a pair is published the blacklist entry outlives  *)
(* the token; so the value of the replay cache never changes once set, and *)
(* every answer is that value.                                             *)
(***************************************************************************)
EXTENDS RefreshRotation, TLAPS

Clean(t)     == t \notin unprotected /\ t \notin underlisted
Published(t) == rotationUntil[t] > 0
Covered(t)   == listedUntil[t] > t + TokenTtl

\* An answer exists from minting (or a replay) to the response only.
AnswerPlace ==
  \A r \in Requests :
    /\ pc[r] \in {"publish", "list"} => answer[r] # NoAnswer
    /\ pc[r] \notin {"publish", "list", "release"} => answer[r] = NoAnswer

\* Every token around was issued in the past.
NoFuture ==
  /\ \A t \in issued : t <= now
  /\ \A r \in Requests : tok[r] <= now /\ answer[r] <= now
  /\ \A t \in Tokens : rotation[t] <= now

HolderHasLock ==
  \A r \in Requests :
    InCriticalSection(r) /\ tok[r] \notin unprotected => OwnsLock(r, tok[r])

PublishedIsCovered ==
  \A t \in Tokens :
    Clean(t) /\ Published(t)
      => Covered(t) \/ \E r \in Requests : pc[r] = "list" /\ tok[r] = t

MintsOnce ==
  \A r \in Requests :
    Clean(tok[r]) /\ pc[r] \in {"load_user", "publish"} => ~Published(tok[r])

AnswersArePublished ==
  \A r \in Requests :
    /\ Clean(tok[r])
    /\ pc[r] \in {"list", "release"}
    /\ answer[r] # NoAnswer
    => Published(tok[r]) /\ answer[r] = rotation[tok[r]]

DeliveredIsPublished ==
  \A t \in Tokens :
    Clean(t) => \A p \in delivered[t] : Published(t) /\ p = rotation[t]

TypeInv == TypeOK /\ AnswerPlace /\ NoFuture

IInv ==
  /\ TypeInv
  /\ HolderHasLock
  /\ PublishedIsCovered
  /\ MintsOnce
  /\ AnswersArePublished
  /\ DeliveredIsPublished

-----------------------------------------------------------------------------
(* What the proofs use of the constants. *)

LEMMA ConstantTypes ==
  /\ Tokens \subseteq Nat
  /\ 0 \in Tokens
  /\ NoAnswer = -1
  /\ LockTtl \in Nat \ {0}
  /\ RotationTtl \in Nat \ {0}
  /\ TokenTtl \in Nat \ {0}
  /\ WaitAttempts \in Nat \ {0}
BY RotationAssumption DEF Tokens, NoAnswer

LEMMA RequestConstants == 0 \in Tokens /\ WaitAttempts \in Nat \ {0}
BY ConstantTypes

LEMMA TimeConstants ==
  Tokens \subseteq Nat /\ LockTtl \in Nat /\ RotationTtl \in Nat /\ TokenTtl \in Nat
BY ConstantTypes

LEMMA HistoryConstants ==
  Presented \subseteq Tokens /\ \A t \in Tokens : t < MaxTime => t + 1 \in Tokens
BY RotationAssumption DEF Tokens

LEMMA PlaceNames ==
  {"idle", "replay", "lock", "waiting", "recheck", "blacklist", "blacklist_replay",
   "load_user", "publish", "list", "release"} \subseteq Places
BY DEF Places, CriticalSection

-----------------------------------------------------------------------------
(* Each part of the invariant, action by action. *)

LEMMA FinishTypes ==
  ASSUME TypeOK, NEW r \in Requests, NEW place \in Places, FinishOr(r, place)
  PROVE  RequestTypes'
BY RequestConstants, PlaceNames
   DEF TypeOK, RequestTypes, FinishOr, Finish, Goto, Answer

\* Two requests in the critical section of one token would both own its lock.
LEMMA AloneInCriticalSection ==
  ASSUME HolderHasLock, NEW r \in Requests, NEW q \in Requests,
         InCriticalSection(r), InCriticalSection(q), tok[r] = tok[q],
         tok[r] \notin unprotected
  PROVE  r = q
BY DEF HolderHasLock, OwnsLock

\* Taking a free lock, or dropping one's own, leaves the locks of other requests alone.
LEMMA OthersKeepTheirLocks ==
  ASSUME RedisTypes, now \in Nat,
         NEW r \in Requests, NEW q \in Requests, q # r,
         NEW t \in Tokens, NEW u \in Tokens, OwnsLock(q, u),
         \/ LockFree(t) /\ TakeLock(r, t)
         \/ DropLock(r, t)
         \/ UNCHANGED <<lockOwner, lockUntil>>
  PROVE  lockOwner'[u] = lockOwner[u] /\ lockUntil'[u] = lockUntil[u]
<1> USE DEF RedisTypes, OwnsLock
<1>1. CASE LockFree(t) /\ TakeLock(r, t)
  BY <1>1 DEF LockFree, TakeLock
<1>2. CASE DropLock(r, t)
  BY <1>2 DEF DropLock, DeleteLock
<1>3. CASE UNCHANGED <<lockOwner, lockUntil>>
  BY <1>3
<1> QED
  BY <1>1, <1>2, <1>3

LEMMA RequestNumbers ==
  ASSUME RequestTypes, NEW r \in Requests
  PROVE  tok[r] \in Nat /\ answer[r] \in Int
<1>1. tok[r] \in Tokens /\ (answer[r] \in Tokens \/ answer[r] = NoAnswer)
  BY DEF RequestTypes
<1>2. \A t \in Tokens : t \in Nat
  BY ConstantTypes
<1>3. NoAnswer \in Int
  BY ConstantTypes
<1> QED
  BY <1>1, <1>2, <1>3

LEMMA NextRequestTypes ==
  ASSUME TypeOK, [Next]_vars
  PROVE  RequestTypes'
<1> USE RequestConstants, PlaceNames
<1> USE DEF Goto, Answer, Finish, FinishOr, redisVars, requestVars, TypeOK, RequestTypes
<1>1. CASE UNCHANGED vars
  BY <1>1 DEF vars
<1>2. CASE Login
  BY <1>2 DEF Login
<1>3. CASE Tick
  BY <1>3 DEF Tick
<1>4. ASSUME NEW r \in Requests, Present(r) PROVE RequestTypes'
  <2>1. \A t \in issued : t \in Tokens
    BY HistoryConstants DEF HistoryTypes
  <2> QED
    BY <1>4, <2>1 DEF Present
<1>5. ASSUME NEW r \in Requests, Crash(r) PROVE RequestTypes'
  BY <1>5 DEF Crash
<1>6. ASSUME NEW r \in Requests, ReplayHit(r) PROVE RequestTypes'
  BY <1>6 DEF ReplayHit, Deliver
<1>7. ASSUME NEW r \in Requests, ReplayMiss(r) PROVE RequestTypes'
  BY <1>7 DEF ReplayMiss
<1>8. ASSUME NEW r \in Requests, ReplayFault(r) PROVE RequestTypes'
  BY <1>8, FinishTypes DEF ReplayFault
<1>9. ASSUME NEW r \in Requests, Lock(r) PROVE RequestTypes'
  BY <1>9 DEF Lock, TakeLock
<1>10. ASSUME NEW r \in Requests, LockBusy(r) PROVE RequestTypes'
  BY <1>10 DEF LockBusy
<1>11. ASSUME NEW r \in Requests, LockFault(r) PROVE RequestTypes'
  BY <1>11 DEF LockFault, TakeLock, GoOnUnprotected
<1>12. ASSUME NEW r \in Requests, PollHit(r) PROVE RequestTypes'
  BY <1>12 DEF PollHit, Deliver
<1>13. ASSUME NEW r \in Requests, PollMiss(r) PROVE RequestTypes'
  <2>1. polls[r] + 1 # WaitAttempts => polls[r] + 1 \in 0..(WaitAttempts - 1)
    OBVIOUS
  <2> QED
    BY <1>13, <2>1 DEF PollMiss, LastAttempt
<1>14. ASSUME NEW r \in Requests, PollFault(r) PROVE RequestTypes'
  BY <1>14 DEF PollFault
<1>15. ASSUME NEW r \in Requests, RecheckHit(r) PROVE RequestTypes'
  BY <1>15 DEF RecheckHit, RedisTypes
<1>16. ASSUME NEW r \in Requests, RecheckMiss(r) \/ RecheckFault(r) PROVE RequestTypes'
  BY <1>16 DEF RecheckMiss, RecheckFault
<1>17. ASSUME NEW r \in Requests, CheckBlacklist(r) PROVE RequestTypes'
  BY <1>17 DEF CheckBlacklist, NotListed
<1>18. ASSUME NEW r \in Requests, BlacklistFault(r) PROVE RequestTypes'
  <2>1. pc'[r] \in {"release", "load_user"} /\ UNCHANGED <<tok, answer, polls>>
    BY <1>18 DEF BlacklistFault, NotListed
  <2>2. pc' = [pc EXCEPT ![r] = pc'[r]]
    BY <1>18 DEF BlacklistFault, NotListed
  <2> QED
    BY <2>1, <2>2
<1>19. ASSUME NEW r \in Requests, LoadUser(r) PROVE RequestTypes'
  BY <1>19 DEF LoadUser, HistoryTypes
<1>20. ASSUME NEW r \in Requests, RejectUser(r) PROVE RequestTypes'
  BY <1>20 DEF RejectUser
<1>21. ASSUME NEW r \in Requests, Publish(r) PROVE RequestTypes'
  BY <1>21 DEF Publish, StoreRotation
<1>22. ASSUME NEW r \in Requests, PublishFault(r) PROVE RequestTypes'
  BY <1>22 DEF PublishFault, StoreRotation, GoOnUnprotected
<1>23. ASSUME NEW r \in Requests, List(r) PROVE RequestTypes'
  BY <1>23 DEF List, Blacklist
<1>24. ASSUME NEW r \in Requests, ListFault(r) PROVE RequestTypes'
  BY <1>24 DEF ListFault, Blacklist, GoOnUnprotected
<1>25. ASSUME NEW r \in Requests, Release(r) PROVE RequestTypes'
  BY <1>25 DEF Release, DropLock, DeleteLock, Respond, Deliver
<1>26. ASSUME NEW r \in Requests, ReleaseFault(r) PROVE RequestTypes'
  BY <1>26 DEF ReleaseFault, Respond, Deliver
<1> QED
  BY <1>1, <1>2, <1>3, <1>4, <1>5, <1>6, <1>7, <1>8, <1>9, <1>10, <1>11, <1>12,
     <1>13, <1>14, <1>15, <1>16, <1>17, <1>18, <1>19, <1>20, <1>21, <1>22, <1>23, <1>24,
     <1>25, <1>26 DEF Next, Refresh

LEMMA NextRedisTypes ==
  ASSUME TypeOK, AnswerPlace, [Next]_vars
  PROVE  RedisTypes'
<1> USE TimeConstants
<1> USE DEF Goto, Answer, Finish, FinishOr, redisVars, requestVars, TypeOK, RedisTypes,
       RequestTypes, AnswerPlace
<1>1. CASE UNCHANGED vars
  BY <1>1 DEF vars
<1>2. CASE Login
  BY <1>2 DEF Login
<1>3. CASE Tick
  BY <1>3 DEF Tick
<1>4. ASSUME NEW r \in Requests, Present(r) PROVE RedisTypes'
  BY <1>4 DEF Present
<1>5. ASSUME NEW r \in Requests, Crash(r) PROVE RedisTypes'
  BY <1>5 DEF Crash
<1>6. ASSUME NEW r \in Requests, ReplayHit(r) PROVE RedisTypes'
  BY <1>6 DEF ReplayHit, Deliver
<1>7. ASSUME NEW r \in Requests, ReplayMiss(r) PROVE RedisTypes'
  BY <1>7 DEF ReplayMiss
<1>8. ASSUME NEW r \in Requests, ReplayFault(r) PROVE RedisTypes'
  BY <1>8 DEF ReplayFault
<1>9. ASSUME NEW r \in Requests, Lock(r) PROVE RedisTypes'
  <2>1. now + LockTtl \in Nat /\ now + TokenTtl \in Nat
    BY DEF HistoryTypes
  <2> QED
    BY <1>9, <2>1 DEF Lock, TakeLock
<1>10. ASSUME NEW r \in Requests, LockBusy(r) PROVE RedisTypes'
  BY <1>10 DEF LockBusy
<1>11. ASSUME NEW r \in Requests, LockFault(r) PROVE RedisTypes'
  <2>1. now + LockTtl \in Nat /\ now + TokenTtl \in Nat
    BY DEF HistoryTypes
  <2> QED
    BY <1>11, <2>1 DEF LockFault, TakeLock
<1>12. ASSUME NEW r \in Requests, PollHit(r) PROVE RedisTypes'
  BY <1>12 DEF PollHit, Deliver
<1>13. ASSUME NEW r \in Requests, PollMiss(r) PROVE RedisTypes'
  BY <1>13 DEF PollMiss
<1>14. ASSUME NEW r \in Requests, PollFault(r) PROVE RedisTypes'
  BY <1>14 DEF PollFault
<1>15. ASSUME NEW r \in Requests, RecheckHit(r) PROVE RedisTypes'
  BY <1>15 DEF RecheckHit
<1>16. ASSUME NEW r \in Requests, RecheckMiss(r) \/ RecheckFault(r) PROVE RedisTypes'
  BY <1>16 DEF RecheckMiss, RecheckFault
<1>17. ASSUME NEW r \in Requests, CheckBlacklist(r) PROVE RedisTypes'
  BY <1>17 DEF CheckBlacklist, NotListed
<1>18. ASSUME NEW r \in Requests, BlacklistFault(r) PROVE RedisTypes'
  BY <1>18 DEF BlacklistFault, NotListed, GoOnUnprotected
<1>19. ASSUME NEW r \in Requests, LoadUser(r) PROVE RedisTypes'
  BY <1>19 DEF LoadUser
<1>20. ASSUME NEW r \in Requests, RejectUser(r) PROVE RedisTypes'
  BY <1>20 DEF RejectUser
<1>21. ASSUME NEW r \in Requests, Publish(r) PROVE RedisTypes'
  <2>1. answer[r] \in Tokens /\ now + RotationTtl \in Nat
    BY <1>21 DEF Publish, HistoryTypes
  <2> QED
    BY <1>21, <2>1 DEF Publish, StoreRotation
<1>22. ASSUME NEW r \in Requests, PublishFault(r) PROVE RedisTypes'
  <2>1. answer[r] \in Tokens /\ now + RotationTtl \in Nat
    BY <1>22 DEF PublishFault, HistoryTypes
  <2> QED
    BY <1>22, <2>1 DEF PublishFault, StoreRotation
<1>23. ASSUME NEW r \in Requests, List(r) PROVE RedisTypes'
  <2>1. now + LockTtl \in Nat /\ now + TokenTtl \in Nat
    BY DEF HistoryTypes
  <2> QED
    BY <1>23, <2>1 DEF List, Blacklist
<1>24. ASSUME NEW r \in Requests, ListFault(r) PROVE RedisTypes'
  <2>1. now + LockTtl \in Nat /\ now + TokenTtl \in Nat
    BY DEF HistoryTypes
  <2> QED
    BY <1>24, <2>1 DEF ListFault, Blacklist
<1>25. ASSUME NEW r \in Requests, Release(r) PROVE RedisTypes'
  BY <1>25 DEF Release, DropLock, DeleteLock, Respond, Deliver
<1>26. ASSUME NEW r \in Requests, ReleaseFault(r) PROVE RedisTypes'
  BY <1>26 DEF ReleaseFault, Respond, Deliver
<1> QED
  BY <1>1, <1>2, <1>3, <1>4, <1>5, <1>6, <1>7, <1>8, <1>9, <1>10, <1>11, <1>12,
     <1>13, <1>14, <1>15, <1>16, <1>17, <1>18, <1>19, <1>20, <1>21, <1>22, <1>23, <1>24,
     <1>25, <1>26 DEF Next, Refresh

LEMMA NextHistoryTypes ==
  ASSUME TypeOK, [Next]_vars
  PROVE  HistoryTypes'
<1> USE HistoryConstants
<1> USE DEF Goto, Answer, Finish, FinishOr, redisVars, requestVars, TypeOK, RedisTypes,
       RequestTypes, HistoryTypes
<1>1. CASE UNCHANGED vars
  BY <1>1 DEF vars
<1>2. CASE Login
  BY <1>2 DEF Login
<1>3. CASE Tick
  BY <1>3 DEF Tick
<1>4. ASSUME NEW r \in Requests, Present(r) PROVE HistoryTypes'
  BY <1>4 DEF Present
<1>5. ASSUME NEW r \in Requests, Crash(r) PROVE HistoryTypes'
  BY <1>5 DEF Crash
<1>6. ASSUME NEW r \in Requests, ReplayHit(r) PROVE HistoryTypes'
  BY <1>6 DEF ReplayHit, Deliver
<1>7. ASSUME NEW r \in Requests, ReplayMiss(r) PROVE HistoryTypes'
  BY <1>7 DEF ReplayMiss
<1>8. ASSUME NEW r \in Requests, ReplayFault(r) PROVE HistoryTypes'
  BY <1>8 DEF ReplayFault
<1>9. ASSUME NEW r \in Requests, Lock(r) PROVE HistoryTypes'
  BY <1>9 DEF Lock, TakeLock
<1>10. ASSUME NEW r \in Requests, LockBusy(r) PROVE HistoryTypes'
  BY <1>10 DEF LockBusy
<1>11. ASSUME NEW r \in Requests, LockFault(r) PROVE HistoryTypes'
  BY <1>11 DEF LockFault, TakeLock, GoOnUnprotected
<1>12. ASSUME NEW r \in Requests, PollHit(r) PROVE HistoryTypes'
  BY <1>12 DEF PollHit, Deliver
<1>13. ASSUME NEW r \in Requests, PollMiss(r) PROVE HistoryTypes'
  BY <1>13 DEF PollMiss
<1>14. ASSUME NEW r \in Requests, PollFault(r) PROVE HistoryTypes'
  BY <1>14 DEF PollFault
<1>15. ASSUME NEW r \in Requests, RecheckHit(r) PROVE HistoryTypes'
  BY <1>15 DEF RecheckHit
<1>16. ASSUME NEW r \in Requests, RecheckMiss(r) \/ RecheckFault(r) PROVE HistoryTypes'
  BY <1>16 DEF RecheckMiss, RecheckFault
<1>17. ASSUME NEW r \in Requests, CheckBlacklist(r) PROVE HistoryTypes'
  BY <1>17 DEF CheckBlacklist, NotListed
<1>18. ASSUME NEW r \in Requests, BlacklistFault(r) PROVE HistoryTypes'
  BY <1>18 DEF BlacklistFault, NotListed, GoOnUnprotected
<1>19. ASSUME NEW r \in Requests, LoadUser(r) PROVE HistoryTypes'
  BY <1>19 DEF LoadUser
<1>20. ASSUME NEW r \in Requests, RejectUser(r) PROVE HistoryTypes'
  BY <1>20 DEF RejectUser
<1>21. ASSUME NEW r \in Requests, Publish(r) PROVE HistoryTypes'
  BY <1>21 DEF Publish, StoreRotation
<1>22. ASSUME NEW r \in Requests, PublishFault(r) PROVE HistoryTypes'
  BY <1>22 DEF PublishFault, StoreRotation, GoOnUnprotected
<1>23. ASSUME NEW r \in Requests, List(r) PROVE HistoryTypes'
  BY <1>23 DEF List, Blacklist
<1>24. ASSUME NEW r \in Requests, ListFault(r) PROVE HistoryTypes'
  BY <1>24 DEF ListFault, Blacklist, GoOnUnprotected
<1>25. ASSUME NEW r \in Requests, Release(r) PROVE HistoryTypes'
  BY <1>25 DEF Release, DropLock, DeleteLock, Respond, Deliver
<1>26. ASSUME NEW r \in Requests, ReleaseFault(r) PROVE HistoryTypes'
  BY <1>26 DEF ReleaseFault, Respond, Deliver
<1> QED
  BY <1>1, <1>2, <1>3, <1>4, <1>5, <1>6, <1>7, <1>8, <1>9, <1>10, <1>11, <1>12,
     <1>13, <1>14, <1>15, <1>16, <1>17, <1>18, <1>19, <1>20, <1>21, <1>22, <1>23, <1>24,
     <1>25, <1>26 DEF Next, Refresh

LEMMA NextAnswerPlace ==
  ASSUME TypeOK, AnswerPlace, [Next]_vars
  PROVE  AnswerPlace'
<1> USE ConstantTypes
<1> USE DEF Goto, Answer, Finish, FinishOr, redisVars, requestVars, TypeOK,
       RequestTypes, HistoryTypes, AnswerPlace
<1>1. CASE UNCHANGED vars
  BY <1>1 DEF vars
<1>2. CASE Login
  BY <1>2 DEF Login
<1>3. CASE Tick
  BY <1>3 DEF Tick
<1>4. ASSUME NEW r \in Requests, Present(r) PROVE AnswerPlace'
  BY <1>4 DEF Present
<1>5. ASSUME NEW r \in Requests, Crash(r) PROVE AnswerPlace'
  BY <1>5 DEF Crash
<1>6. ASSUME NEW r \in Requests, ReplayHit(r) PROVE AnswerPlace'
  BY <1>6 DEF ReplayHit, Deliver
<1>7. ASSUME NEW r \in Requests, ReplayMiss(r) PROVE AnswerPlace'
  BY <1>7 DEF ReplayMiss
<1>8. ASSUME NEW r \in Requests, ReplayFault(r) PROVE AnswerPlace'
  BY <1>8 DEF ReplayFault
<1>9. ASSUME NEW r \in Requests, Lock(r) PROVE AnswerPlace'
  BY <1>9 DEF Lock, TakeLock
<1>10. ASSUME NEW r \in Requests, LockBusy(r) PROVE AnswerPlace'
  BY <1>10 DEF LockBusy
<1>11. ASSUME NEW r \in Requests, LockFault(r) PROVE AnswerPlace'
  BY <1>11 DEF LockFault, TakeLock, GoOnUnprotected
<1>12. ASSUME NEW r \in Requests, PollHit(r) PROVE AnswerPlace'
  BY <1>12 DEF PollHit, Deliver
<1>13. ASSUME NEW r \in Requests, PollMiss(r) PROVE AnswerPlace'
  BY <1>13 DEF PollMiss
<1>14. ASSUME NEW r \in Requests, PollFault(r) PROVE AnswerPlace'
  BY <1>14 DEF PollFault
<1>15. ASSUME NEW r \in Requests, RecheckHit(r) PROVE AnswerPlace'
  BY <1>15 DEF RecheckHit
<1>16. ASSUME NEW r \in Requests, RecheckMiss(r) \/ RecheckFault(r) PROVE AnswerPlace'
  BY <1>16 DEF RecheckMiss, RecheckFault
<1>17. ASSUME NEW r \in Requests, CheckBlacklist(r) PROVE AnswerPlace'
  BY <1>17 DEF CheckBlacklist, NotListed
<1>18. ASSUME NEW r \in Requests, BlacklistFault(r) PROVE AnswerPlace'
  BY <1>18 DEF BlacklistFault, NotListed, GoOnUnprotected
<1>19. ASSUME NEW r \in Requests, LoadUser(r) PROVE AnswerPlace'
  BY <1>19 DEF LoadUser
<1>20. ASSUME NEW r \in Requests, RejectUser(r) PROVE AnswerPlace'
  BY <1>20 DEF RejectUser
<1>21. ASSUME NEW r \in Requests, Publish(r) PROVE AnswerPlace'
  BY <1>21 DEF Publish, StoreRotation
<1>22. ASSUME NEW r \in Requests, PublishFault(r) PROVE AnswerPlace'
  BY <1>22 DEF PublishFault, StoreRotation, GoOnUnprotected
<1>23. ASSUME NEW r \in Requests, List(r) PROVE AnswerPlace'
  BY <1>23 DEF List, Blacklist
<1>24. ASSUME NEW r \in Requests, ListFault(r) PROVE AnswerPlace'
  BY <1>24 DEF ListFault, Blacklist, GoOnUnprotected
<1>25. ASSUME NEW r \in Requests, Release(r) PROVE AnswerPlace'
  BY <1>25 DEF Release, DropLock, DeleteLock, Respond, Deliver
<1>26. ASSUME NEW r \in Requests, ReleaseFault(r) PROVE AnswerPlace'
  BY <1>26 DEF ReleaseFault, Respond, Deliver
<1> QED
  BY <1>1, <1>2, <1>3, <1>4, <1>5, <1>6, <1>7, <1>8, <1>9, <1>10, <1>11, <1>12,
     <1>13, <1>14, <1>15, <1>16, <1>17, <1>18, <1>19, <1>20, <1>21, <1>22, <1>23, <1>24,
     <1>25, <1>26 DEF Next, Refresh

LEMMA NextNoFuture ==
  ASSUME TypeOK, AnswerPlace, NoFuture, [Next]_vars
  PROVE  NoFuture'
<1> USE ConstantTypes
<1> USE DEF Goto, Answer, Finish, FinishOr, redisVars, requestVars, TypeOK,
       RequestTypes, RedisTypes, HistoryTypes, NoFuture
<1>1. CASE UNCHANGED vars
  BY <1>1 DEF vars
<1>2. CASE Login
  BY <1>2 DEF Login
<1>3. CASE Tick
  <2>1. now' = now + 1 /\ issued' = issued /\ UNCHANGED <<tok, answer, rotation>>
    BY <1>3 DEF Tick
  <2>2. now \in Nat /\ issued \subseteq Nat
    BY HistoryConstants
  <2>3. \A t \in issued' : t <= now'
    <3> TAKE t \in issued'
    <3>1. t \in Nat /\ t <= now
      BY <2>1, <2>2
    <3> QED
      BY <2>1, <2>2, <3>1
  <2>4. ASSUME NEW q \in Requests PROVE tok'[q] <= now' /\ answer'[q] <= now'
    <3>1. tok[q] \in Nat /\ answer[q] \in Int
      BY RequestNumbers
    <3>2. tok[q] <= now /\ answer[q] <= now
      OBVIOUS
    <3> QED
      BY <2>1, <2>2, <3>1, <3>2
  <2>5. ASSUME NEW t \in Tokens PROVE rotation'[t] <= now'
    <3>1. rotation[t] \in Nat /\ rotation[t] <= now
      OBVIOUS
    <3> QED
      BY <2>1, <2>2, <3>1
  <2> QED
    BY <2>3, <2>4, <2>5
<1>4. ASSUME NEW r \in Requests, Present(r) PROVE NoFuture'
  BY <1>4 DEF Present
<1>5. ASSUME NEW r \in Requests, Crash(r) PROVE NoFuture'
  BY <1>5 DEF Crash
<1>6. ASSUME NEW r \in Requests, ReplayHit(r) PROVE NoFuture'
  <2>1. now' = now /\ rotation' = rotation /\ tok[r] \in Tokens
    BY <1>6 DEF ReplayHit
  <2>2. issued' = issued \cup ({rotation[tok[r]]} \cap Presented)
    BY <1>6 DEF ReplayHit, Deliver
  <2>3. \A t \in issued' : t <= now'
    BY <2>1, <2>2
  <2>4. tok' = [tok EXCEPT ![r] = 0] /\ answer' = [answer EXCEPT ![r] = NoAnswer]
    BY <1>6 DEF ReplayHit
  <2>5. \A q \in Requests : tok'[q] <= now' /\ answer'[q] <= now'
    BY <2>1, <2>4
  <2> QED
    BY <2>1, <2>3, <2>5
<1>7. ASSUME NEW r \in Requests, ReplayMiss(r) PROVE NoFuture'
  BY <1>7 DEF ReplayMiss
<1>8. ASSUME NEW r \in Requests, ReplayFault(r) PROVE NoFuture'
  BY <1>8 DEF ReplayFault
<1>9. ASSUME NEW r \in Requests, Lock(r) PROVE NoFuture'
  BY <1>9 DEF Lock, TakeLock
<1>10. ASSUME NEW r \in Requests, LockBusy(r) PROVE NoFuture'
  BY <1>10 DEF LockBusy
<1>11. ASSUME NEW r \in Requests, LockFault(r) PROVE NoFuture'
  BY <1>11 DEF LockFault, TakeLock, GoOnUnprotected
<1>12. ASSUME NEW r \in Requests, PollHit(r) PROVE NoFuture'
  <2>1. now' = now /\ rotation' = rotation /\ tok[r] \in Tokens
    BY <1>12 DEF PollHit
  <2>2. issued' = issued \cup ({rotation[tok[r]]} \cap Presented)
    BY <1>12 DEF PollHit, Deliver
  <2>3. \A t \in issued' : t <= now'
    BY <2>1, <2>2
  <2>4. tok' = [tok EXCEPT ![r] = 0] /\ answer' = [answer EXCEPT ![r] = NoAnswer]
    BY <1>12 DEF PollHit
  <2>5. \A q \in Requests : tok'[q] <= now' /\ answer'[q] <= now'
    BY <2>1, <2>4
  <2> QED
    BY <2>1, <2>3, <2>5
<1>13. ASSUME NEW r \in Requests, PollMiss(r) PROVE NoFuture'
  BY <1>13 DEF PollMiss
<1>14. ASSUME NEW r \in Requests, PollFault(r) PROVE NoFuture'
  BY <1>14 DEF PollFault
<1>15. ASSUME NEW r \in Requests, RecheckHit(r) PROVE NoFuture'
  BY <1>15 DEF RecheckHit
<1>16. ASSUME NEW r \in Requests, RecheckMiss(r) \/ RecheckFault(r) PROVE NoFuture'
  BY <1>16 DEF RecheckMiss, RecheckFault
<1>17. ASSUME NEW r \in Requests, CheckBlacklist(r) PROVE NoFuture'
  BY <1>17 DEF CheckBlacklist, NotListed
<1>18. ASSUME NEW r \in Requests, BlacklistFault(r) PROVE NoFuture'
  BY <1>18 DEF BlacklistFault, NotListed, GoOnUnprotected
<1>19. ASSUME NEW r \in Requests, LoadUser(r) PROVE NoFuture'
  BY <1>19 DEF LoadUser
<1>20. ASSUME NEW r \in Requests, RejectUser(r) PROVE NoFuture'
  BY <1>20 DEF RejectUser
<1>21. ASSUME NEW r \in Requests, Publish(r) PROVE NoFuture'
  BY <1>21 DEF Publish, StoreRotation
<1>22. ASSUME NEW r \in Requests, PublishFault(r) PROVE NoFuture'
  BY <1>22 DEF PublishFault, StoreRotation, GoOnUnprotected
<1>23. ASSUME NEW r \in Requests, List(r) PROVE NoFuture'
  BY <1>23 DEF List, Blacklist
<1>24. ASSUME NEW r \in Requests, ListFault(r) PROVE NoFuture'
  BY <1>24 DEF ListFault, Blacklist, GoOnUnprotected
<1>25. ASSUME NEW r \in Requests, Release(r) PROVE NoFuture'
  BY <1>25 DEF Release, DropLock, DeleteLock, Respond, Deliver
<1>26. ASSUME NEW r \in Requests, ReleaseFault(r) PROVE NoFuture'
  BY <1>26 DEF ReleaseFault, Respond, Deliver
<1> QED
  BY <1>1, <1>2, <1>3, <1>4, <1>5, <1>6, <1>7, <1>8, <1>9, <1>10, <1>11, <1>12,
     <1>13, <1>14, <1>15, <1>16, <1>17, <1>18, <1>19, <1>20, <1>21, <1>22, <1>23, <1>24,
     <1>25, <1>26 DEF Next, Refresh

LEMMA NextHolderHasLock ==
  ASSUME RedisTypes, RequestTypes, now \in Nat, HolderHasLock, [Next]_vars
  PROVE  HolderHasLock'
<1> USE ConstantTypes
<1> USE DEF Goto, Answer, Finish, FinishOr, redisVars, requestVars, HolderHasLock,
       RequestTypes, InCriticalSection, CriticalSection
<1>1. CASE UNCHANGED vars
  BY <1>1 DEF vars, OwnsLock
<1>2. CASE Login
  BY <1>2 DEF Login, OwnsLock
<1>3. CASE Tick
  <2> SUFFICES ASSUME NEW q \in Requests, InCriticalSection(q), tok[q] \notin unprotected'
               PROVE  OwnsLock(q, tok[q])'
    BY <1>3 DEF Tick
  <2>1. OwnsLock(q, tok[q])
    BY <1>3 DEF Tick
  <2>2. ~(lockUntil[tok[q]] <= now + 1)
    BY <1>3, <2>1 DEF Tick
  <2>3. lockUntil[tok[q]] \in Nat /\ now' = now + 1
    BY <1>3 DEF Tick, RedisTypes
  <2> QED
    BY <1>3, <2>1, <2>2, <2>3 DEF Tick, OwnsLock
<1>4. ASSUME NEW r \in Requests, Present(r) PROVE HolderHasLock'
  BY <1>4 DEF Present, OwnsLock
<1>5. ASSUME NEW r \in Requests, Crash(r) PROVE HolderHasLock'
  BY <1>5 DEF Crash, OwnsLock
<1>6. ASSUME NEW r \in Requests, ReplayHit(r) PROVE HolderHasLock'
  BY <1>6 DEF ReplayHit, Deliver, OwnsLock
<1>7. ASSUME NEW r \in Requests, ReplayMiss(r) PROVE HolderHasLock'
  BY <1>7 DEF ReplayMiss, OwnsLock
<1>8. ASSUME NEW r \in Requests, ReplayFault(r) PROVE HolderHasLock'
  BY <1>8 DEF ReplayFault, OwnsLock
<1>9. ASSUME NEW r \in Requests, Lock(r) PROVE HolderHasLock'
  <2> SUFFICES ASSUME NEW q \in Requests, InCriticalSection(q)', tok[q] \notin unprotected
               PROVE  OwnsLock(q, tok[q])'
    BY <1>9 DEF Lock
  <2>1. CASE q = r
    BY <1>9, <2>1 DEF Lock, TakeLock, RedisTypes, OwnsLock
  <2>2. CASE q # r
    <3>1. OwnsLock(q, tok[q]) /\ now' = now /\ tok' = tok /\ tok[q] \in Tokens /\ tok[r] \in Tokens
      BY <1>9, <2>2 DEF Lock
    <3>2. LockFree(tok[r]) /\ TakeLock(r, tok[r])
      BY <1>9 DEF Lock
    <3>3. lockOwner'[tok[q]] = lockOwner[tok[q]] /\ lockUntil'[tok[q]] = lockUntil[tok[q]]
      BY <2>2, <3>1, <3>2, OthersKeepTheirLocks
    <3> QED
      BY <3>1, <3>3 DEF OwnsLock
  <2> QED
    BY <2>1, <2>2
<1>10. ASSUME NEW r \in Requests, LockBusy(r) PROVE HolderHasLock'
  BY <1>10 DEF LockBusy, OwnsLock
<1>11. ASSUME NEW r \in Requests, LockFault(r) PROVE HolderHasLock'
  <2> SUFFICES ASSUME NEW q \in Requests, InCriticalSection(q)', tok'[q] \notin unprotected'
               PROVE  OwnsLock(q, tok[q])'
    BY DEF HolderHasLock
  <2>1. q # r
    BY <1>11 DEF LockFault, GoOnUnprotected
  <2>2. tok'[q] = tok[q] /\ pc'[q] = pc[q] /\ now' = now
    BY <1>11, <2>1 DEF LockFault
  <2>3. OwnsLock(q, tok[q])
    BY <1>11, <2>2 DEF LockFault, GoOnUnprotected
  <2> QED
    <3>1. tok[q] \in Tokens /\ tok[r] \in Tokens
      OBVIOUS
    <3>2. OwnsLock(q, tok[q]) /\ now' = now
      BY <2>2, <2>3
    <3>3. \/ LockFree(tok[r]) /\ TakeLock(r, tok[r])
          \/ UNCHANGED <<lockOwner, lockUntil>>
      BY <1>11 DEF LockFault
    <3>4. lockOwner'[tok[q]] = lockOwner[tok[q]] /\ lockUntil'[tok[q]] = lockUntil[tok[q]]
      BY <2>1, <3>1, <3>2, <3>3, OthersKeepTheirLocks
    <3> QED
      BY <2>2, <3>2, <3>4 DEF OwnsLock
<1>12. ASSUME NEW r \in Requests, PollHit(r) PROVE HolderHasLock'
  BY <1>12 DEF PollHit, Deliver, OwnsLock
<1>13. ASSUME NEW r \in Requests, PollMiss(r) PROVE HolderHasLock'
  BY <1>13 DEF PollMiss, OwnsLock
<1>14. ASSUME NEW r \in Requests, PollFault(r) PROVE HolderHasLock'
  BY <1>14 DEF PollFault, OwnsLock
<1>15. ASSUME NEW r \in Requests, RecheckHit(r) PROVE HolderHasLock'
  BY <1>15 DEF RecheckHit, OwnsLock
<1>16. ASSUME NEW r \in Requests, RecheckMiss(r) \/ RecheckFault(r) PROVE HolderHasLock'
  BY <1>16 DEF RecheckMiss, RecheckFault, OwnsLock
<1>17. ASSUME NEW r \in Requests, CheckBlacklist(r) PROVE HolderHasLock'
  BY <1>17 DEF CheckBlacklist, NotListed, OwnsLock
<1>18. ASSUME NEW r \in Requests, BlacklistFault(r) PROVE HolderHasLock'
  BY <1>18 DEF BlacklistFault, NotListed, GoOnUnprotected, OwnsLock
<1>19. ASSUME NEW r \in Requests, LoadUser(r) PROVE HolderHasLock'
  BY <1>19 DEF LoadUser, OwnsLock
<1>20. ASSUME NEW r \in Requests, RejectUser(r) PROVE HolderHasLock'
  BY <1>20 DEF RejectUser, OwnsLock
<1>21. ASSUME NEW r \in Requests, Publish(r) PROVE HolderHasLock'
  BY <1>21 DEF Publish, StoreRotation, OwnsLock
<1>22. ASSUME NEW r \in Requests, PublishFault(r) PROVE HolderHasLock'
  BY <1>22 DEF PublishFault, StoreRotation, GoOnUnprotected, OwnsLock
<1>23. ASSUME NEW r \in Requests, List(r) PROVE HolderHasLock'
  BY <1>23 DEF List, Blacklist, OwnsLock
<1>24. ASSUME NEW r \in Requests, ListFault(r) PROVE HolderHasLock'
  BY <1>24 DEF ListFault, Blacklist, GoOnUnprotected, OwnsLock
<1>25. ASSUME NEW r \in Requests, Release(r) PROVE HolderHasLock'
  <2> SUFFICES ASSUME NEW q \in Requests, InCriticalSection(q)', tok'[q] \notin unprotected'
               PROVE  OwnsLock(q, tok[q])'
    BY DEF HolderHasLock
  <2>1. q # r
    BY <1>25 DEF Release, Respond
  <2>2. tok'[q] = tok[q] /\ pc'[q] = pc[q] /\ now' = now
    BY <1>25, <2>1 DEF Release, Respond
  <2>3. OwnsLock(q, tok[q])
    BY <1>25, <2>2 DEF Release
  <2> QED
    <3>1. tok[q] \in Tokens /\ tok[r] \in Tokens /\ DropLock(r, tok[r])
      BY <1>25 DEF Release
    <3>2. lockOwner'[tok[q]] = lockOwner[tok[q]] /\ lockUntil'[tok[q]] = lockUntil[tok[q]]
      BY <2>1, <2>3, <3>1, OthersKeepTheirLocks
    <3> QED
      BY <2>2, <2>3, <3>2 DEF OwnsLock
<1>26. ASSUME NEW r \in Requests, ReleaseFault(r) PROVE HolderHasLock'
  BY <1>26 DEF ReleaseFault, Respond, Deliver, OwnsLock
<1> QED
  BY <1>1, <1>2, <1>3, <1>4, <1>5, <1>6, <1>7, <1>8, <1>9, <1>10, <1>11, <1>12,
     <1>13, <1>14, <1>15, <1>16, <1>17, <1>18, <1>19, <1>20, <1>21, <1>22, <1>23, <1>24,
     <1>25, <1>26 DEF Next, Refresh

LEMMA NextPublishedIsCovered ==
  ASSUME IInv, TypeInv', HolderHasLock', [Next]_vars
  PROVE  PublishedIsCovered'
<1> USE ConstantTypes
<1> USE DEF Goto, Answer, Finish, FinishOr, redisVars, requestVars, IInv, Clean,
       Published, NoFuture, RedisTypes, RequestTypes, HistoryTypes, TypeOK, TypeInv,
       Covered, PublishedIsCovered
<1>1. CASE UNCHANGED vars
  BY <1>1 DEF vars
<1>2. CASE Login
  BY <1>2 DEF Login
<1>3. CASE Tick
  BY <1>3 DEF Tick
<1>4. ASSUME NEW r \in Requests, Present(r) PROVE PublishedIsCovered'
  BY <1>4 DEF Present
<1>5. ASSUME NEW r \in Requests, Crash(r) PROVE PublishedIsCovered'
  BY <1>5 DEF Crash
<1>6. ASSUME NEW r \in Requests, ReplayHit(r) PROVE PublishedIsCovered'
  BY <1>6 DEF ReplayHit, Deliver
<1>7. ASSUME NEW r \in Requests, ReplayMiss(r) PROVE PublishedIsCovered'
  BY <1>7 DEF ReplayMiss
<1>8. ASSUME NEW r \in Requests, ReplayFault(r) PROVE PublishedIsCovered'
  BY <1>8 DEF ReplayFault
<1>9. ASSUME NEW r \in Requests, Lock(r) PROVE PublishedIsCovered'
  BY <1>9 DEF Lock, TakeLock
<1>10. ASSUME NEW r \in Requests, LockBusy(r) PROVE PublishedIsCovered'
  BY <1>10 DEF LockBusy
<1>11. ASSUME NEW r \in Requests, LockFault(r) PROVE PublishedIsCovered'
  BY <1>11 DEF LockFault, TakeLock, GoOnUnprotected
<1>12. ASSUME NEW r \in Requests, PollHit(r) PROVE PublishedIsCovered'
  BY <1>12 DEF PollHit, Deliver
<1>13. ASSUME NEW r \in Requests, PollMiss(r) PROVE PublishedIsCovered'
  BY <1>13 DEF PollMiss
<1>14. ASSUME NEW r \in Requests, PollFault(r) PROVE PublishedIsCovered'
  BY <1>14 DEF PollFault
<1>15. ASSUME NEW r \in Requests, RecheckHit(r) PROVE PublishedIsCovered'
  BY <1>15 DEF RecheckHit
<1>16. ASSUME NEW r \in Requests, RecheckMiss(r) \/ RecheckFault(r) PROVE PublishedIsCovered'
  BY <1>16 DEF RecheckMiss, RecheckFault
<1>17. ASSUME NEW r \in Requests, CheckBlacklist(r) PROVE PublishedIsCovered'
  BY <1>17 DEF CheckBlacklist, NotListed
<1>18. ASSUME NEW r \in Requests, BlacklistFault(r) PROVE PublishedIsCovered'
  BY <1>18 DEF BlacklistFault, NotListed, GoOnUnprotected
<1>19. ASSUME NEW r \in Requests, LoadUser(r) PROVE PublishedIsCovered'
  BY <1>19 DEF LoadUser
<1>20. ASSUME NEW r \in Requests, RejectUser(r) PROVE PublishedIsCovered'
  BY <1>20 DEF RejectUser
<1>21. ASSUME NEW r \in Requests, Publish(r) PROVE PublishedIsCovered'
  BY <1>21 DEF Publish, StoreRotation
<1>22. ASSUME NEW r \in Requests, PublishFault(r) PROVE PublishedIsCovered'
  BY <1>22 DEF PublishFault, StoreRotation, GoOnUnprotected
<1>23. ASSUME NEW r \in Requests, List(r) PROVE PublishedIsCovered'
  BY <1>23 DEF List, Blacklist
<1>24. ASSUME NEW r \in Requests, ListFault(r) PROVE PublishedIsCovered'
  <2> SUFFICES ASSUME NEW t \in Tokens, Clean(t)', Published(t)'
               PROVE  Covered(t)' \/ \E q \in Requests : pc'[q] = "list" /\ tok'[q] = t
    BY <1>24
  <2>1. Published(t) /\ tok' = tok /\ tok[r] \in Tokens
    BY <1>24 DEF ListFault
  <2>2. Clean(t)
    BY <1>24 DEF ListFault, GoOnUnprotected, Blacklist
  <2>3. CASE t = tok[r]
    <3>1. t # now /\ Blacklist(r)
      BY <1>24, <2>3 DEF ListFault, Blacklist
    <3>2. listedUntil'[t] = now + TokenTtl
      BY <3>1, <2>3 DEF Blacklist
    <3>3. t \in Nat /\ now \in Nat /\ t <= now
      BY <2>3
    <3> QED
      BY <3>1, <3>2, <3>3
  <2>4. CASE t # tok[r]
    <3>1. listedUntil'[t] = listedUntil[t]
      BY <1>24, <2>4 DEF ListFault, Blacklist
    <3>2. \A q \in Requests : tok[q] = t => pc'[q] = pc[q]
      BY <1>24, <2>4 DEF ListFault
    <3> QED
      BY <2>1, <2>2, <3>1, <3>2
  <2> QED
    BY <2>3, <2>4
<1>25. ASSUME NEW r \in Requests, Release(r) PROVE PublishedIsCovered'
  BY <1>25 DEF Release, DropLock, DeleteLock, Respond, Deliver
<1>26. ASSUME NEW r \in Requests, ReleaseFault(r) PROVE PublishedIsCovered'
  BY <1>26 DEF ReleaseFault, Respond, Deliver
<1> QED
  BY <1>1, <1>2, <1>3, <1>4, <1>5, <1>6, <1>7, <1>8, <1>9, <1>10, <1>11, <1>12,
     <1>13, <1>14, <1>15, <1>16, <1>17, <1>18, <1>19, <1>20, <1>21, <1>22, <1>23, <1>24,
     <1>25, <1>26 DEF Next, Refresh

LEMMA NextMintsOnce ==
  ASSUME IInv, TypeInv', HolderHasLock', [Next]_vars
  PROVE  MintsOnce'
<1> USE ConstantTypes
<1> USE DEF Goto, Answer, Finish, FinishOr, redisVars, requestVars, IInv, Clean,
       Published, NoFuture, RedisTypes, RequestTypes, HistoryTypes, TypeOK, TypeInv,
       MintsOnce
<1>1. CASE UNCHANGED vars
  BY <1>1 DEF vars
<1>2. CASE Login
  BY <1>2 DEF Login
<1>3. CASE Tick
  BY <1>3 DEF Tick
<1>4. ASSUME NEW r \in Requests, Present(r) PROVE MintsOnce'
  BY <1>4 DEF Present
<1>5. ASSUME NEW r \in Requests, Crash(r) PROVE MintsOnce'
  BY <1>5 DEF Crash
<1>6. ASSUME NEW r \in Requests, ReplayHit(r) PROVE MintsOnce'
  BY <1>6 DEF ReplayHit, Deliver
<1>7. ASSUME NEW r \in Requests, ReplayMiss(r) PROVE MintsOnce'
  BY <1>7 DEF ReplayMiss
<1>8. ASSUME NEW r \in Requests, ReplayFault(r) PROVE MintsOnce'
  BY <1>8 DEF ReplayFault
<1>9. ASSUME NEW r \in Requests, Lock(r) PROVE MintsOnce'
  BY <1>9 DEF Lock, TakeLock
<1>10. ASSUME NEW r \in Requests, LockBusy(r) PROVE MintsOnce'
  BY <1>10 DEF LockBusy
<1>11. ASSUME NEW r \in Requests, LockFault(r) PROVE MintsOnce'
  BY <1>11 DEF LockFault, TakeLock, GoOnUnprotected
<1>12. ASSUME NEW r \in Requests, PollHit(r) PROVE MintsOnce'
  BY <1>12 DEF PollHit, Deliver
<1>13. ASSUME NEW r \in Requests, PollMiss(r) PROVE MintsOnce'
  BY <1>13 DEF PollMiss
<1>14. ASSUME NEW r \in Requests, PollFault(r) PROVE MintsOnce'
  BY <1>14 DEF PollFault
<1>15. ASSUME NEW r \in Requests, RecheckHit(r) PROVE MintsOnce'
  BY <1>15 DEF RecheckHit
<1>16. ASSUME NEW r \in Requests, RecheckMiss(r) \/ RecheckFault(r) PROVE MintsOnce'
  BY <1>16 DEF RecheckMiss, RecheckFault
<1>17. ASSUME NEW r \in Requests, CheckBlacklist(r) PROVE MintsOnce'
  <2> SUFFICES ASSUME NEW q \in Requests, Clean(tok[q]), pc'[q] \in {"load_user", "publish"}
               PROVE  ~Published(tok[q])
    BY <1>17 DEF CheckBlacklist
  <2>1. CASE q # r
    BY <1>17, <2>1 DEF CheckBlacklist, NotListed
  <2>2. CASE q = r
    <3>1. ~Listed(tok[r]) /\ ~Expired(tok[r])
      BY <1>17, <2>2 DEF CheckBlacklist, NotListed
    <3>2. tok[r] \in Nat /\ now \in Nat /\ listedUntil[tok[r]] \in Nat
      OBVIOUS
    <3>3. ~Covered(tok[r])
      BY <3>1, <3>2 DEF Listed, Expired, Covered
    <3>4. ~\E p \in Requests : pc[p] = "list" /\ tok[p] = tok[r]
      BY <1>17, <2>2, AloneInCriticalSection DEF CheckBlacklist, CriticalSection, InCriticalSection
    <3> QED
      BY <2>2, <3>3, <3>4 DEF PublishedIsCovered
  <2> QED
    BY <2>1, <2>2
<1>18. ASSUME NEW r \in Requests, BlacklistFault(r) PROVE MintsOnce'
  BY <1>18 DEF BlacklistFault, NotListed, GoOnUnprotected
<1>19. ASSUME NEW r \in Requests, LoadUser(r) PROVE MintsOnce'
  BY <1>19 DEF LoadUser
<1>20. ASSUME NEW r \in Requests, RejectUser(r) PROVE MintsOnce'
  BY <1>20 DEF RejectUser
<1>21. ASSUME NEW r \in Requests, Publish(r) PROVE MintsOnce'
  <2> SUFFICES ASSUME NEW q \in Requests, Clean(tok[q]), pc'[q] \in {"load_user", "publish"}
               PROVE  ~Published(tok[q])'
    BY <1>21 DEF Publish
  <2>1. q # r /\ pc'[q] = pc[q]
    BY <1>21 DEF Publish
  <2>2. tok[q] # tok[r]
    BY <1>21, <2>1, AloneInCriticalSection DEF Publish, CriticalSection, InCriticalSection
  <2> QED
    BY <1>21, <2>1, <2>2 DEF Publish, StoreRotation
<1>22. ASSUME NEW r \in Requests, PublishFault(r) PROVE MintsOnce'
  <2> SUFFICES ASSUME NEW q \in Requests, Clean(tok[q])', pc'[q] \in {"load_user", "publish"}
               PROVE  ~Published(tok[q])'
    BY <1>22 DEF PublishFault
  <2>1. tok' = tok /\ Clean(tok[q])
    BY <1>22 DEF PublishFault, GoOnUnprotected
  <2>2. q # r /\ pc'[q] = pc[q]
    BY <1>22 DEF PublishFault
  <2>3. ~Published(tok[q])
    BY <2>1, <2>2
  <2>4. \/ UNCHANGED <<rotation, rotationUntil>>
        \/ StoreRotation(r) /\ tok[q] # tok[r]
    BY <1>22 DEF PublishFault
  <2>5. rotationUntil'[tok[q]] = rotationUntil[tok[q]]
    BY <2>4 DEF StoreRotation
  <2> QED
    BY <2>1, <2>3, <2>5
<1>23. ASSUME NEW r \in Requests, List(r) PROVE MintsOnce'
  BY <1>23 DEF List, Blacklist
<1>24. ASSUME NEW r \in Requests, ListFault(r) PROVE MintsOnce'
  BY <1>24 DEF ListFault, Blacklist, GoOnUnprotected
<1>25. ASSUME NEW r \in Requests, Release(r) PROVE MintsOnce'
  BY <1>25 DEF Release, DropLock, DeleteLock, Respond, Deliver
<1>26. ASSUME NEW r \in Requests, ReleaseFault(r) PROVE MintsOnce'
  BY <1>26 DEF ReleaseFault, Respond, Deliver
<1> QED
  BY <1>1, <1>2, <1>3, <1>4, <1>5, <1>6, <1>7, <1>8, <1>9, <1>10, <1>11, <1>12,
     <1>13, <1>14, <1>15, <1>16, <1>17, <1>18, <1>19, <1>20, <1>21, <1>22, <1>23, <1>24,
     <1>25, <1>26 DEF Next, Refresh

LEMMA NextAnswersArePublished ==
  ASSUME IInv, TypeInv', HolderHasLock', [Next]_vars
  PROVE  AnswersArePublished'
<1> USE ConstantTypes
<1> USE DEF Goto, Answer, Finish, FinishOr, redisVars, requestVars, IInv, Clean,
       Published, NoFuture, RedisTypes, RequestTypes, HistoryTypes, TypeOK, TypeInv,
       AnswerPlace, Replayable, AnswersArePublished, DeliveredIsPublished
<1>1. CASE UNCHANGED vars
  BY <1>1 DEF vars
<1>2. CASE Login
  BY <1>2 DEF Login
<1>3. CASE Tick
  BY <1>3 DEF Tick
<1>4. ASSUME NEW r \in Requests, Present(r) PROVE AnswersArePublished'
  BY <1>4 DEF Present
<1>5. ASSUME NEW r \in Requests, Crash(r) PROVE AnswersArePublished'
  BY <1>5 DEF Crash
<1>6. ASSUME NEW r \in Requests, ReplayHit(r) PROVE AnswersArePublished'
  BY <1>6 DEF ReplayHit, Deliver
<1>7. ASSUME NEW r \in Requests, ReplayMiss(r) PROVE AnswersArePublished'
  BY <1>7 DEF ReplayMiss
<1>8. ASSUME NEW r \in Requests, ReplayFault(r) PROVE AnswersArePublished'
  BY <1>8 DEF ReplayFault
<1>9. ASSUME NEW r \in Requests, Lock(r) PROVE AnswersArePublished'
  BY <1>9 DEF Lock, TakeLock
<1>10. ASSUME NEW r \in Requests, LockBusy(r) PROVE AnswersArePublished'
  BY <1>10 DEF LockBusy
<1>11. ASSUME NEW r \in Requests, LockFault(r) PROVE AnswersArePublished'
  BY <1>11 DEF LockFault, TakeLock, GoOnUnprotected
<1>12. ASSUME NEW r \in Requests, PollHit(r) PROVE AnswersArePublished'
  BY <1>12 DEF PollHit, Deliver
<1>13. ASSUME NEW r \in Requests, PollMiss(r) PROVE AnswersArePublished'
  BY <1>13 DEF PollMiss
<1>14. ASSUME NEW r \in Requests, PollFault(r) PROVE AnswersArePublished'
  BY <1>14 DEF PollFault
<1>15. ASSUME NEW r \in Requests, RecheckHit(r) PROVE AnswersArePublished'
  <2>1. /\ UNCHANGED <<tok, rotation, rotationUntil, unprotected, underlisted>>
        /\ tok[r] \in Tokens /\ now \in Nat /\ rotationUntil[tok[r]] \in Nat
        /\ rotationUntil[tok[r]] > now
    BY <1>15 DEF RecheckHit
  <2>4. Published(tok[r])
    BY <2>1
  <2>2. answer'[r] = rotation[tok[r]]
    BY <1>15 DEF RecheckHit
  <2>3. \A q \in Requests \ {r} : pc'[q] = pc[q] /\ answer'[q] = answer[q]
    BY <1>15 DEF RecheckHit
  <2> QED
    BY <2>1, <2>2, <2>3, <2>4
<1>16. ASSUME NEW r \in Requests, RecheckMiss(r) \/ RecheckFault(r) PROVE AnswersArePublished'
  BY <1>16 DEF RecheckMiss, RecheckFault
<1>17. ASSUME NEW r \in Requests, CheckBlacklist(r) PROVE AnswersArePublished'
  BY <1>17 DEF CheckBlacklist, NotListed
<1>18. ASSUME NEW r \in Requests, BlacklistFault(r) PROVE AnswersArePublished'
  BY <1>18 DEF BlacklistFault, NotListed, GoOnUnprotected
<1>19. ASSUME NEW r \in Requests, LoadUser(r) PROVE AnswersArePublished'
  BY <1>19 DEF LoadUser
<1>20. ASSUME NEW r \in Requests, RejectUser(r) PROVE AnswersArePublished'
  BY <1>20 DEF RejectUser
<1>21. ASSUME NEW r \in Requests, Publish(r) PROVE AnswersArePublished'
  <2> SUFFICES ASSUME NEW q \in Requests, Clean(tok[q]),
                      pc'[q] \in {"list", "release"}, answer[q] # NoAnswer
               PROVE  Published(tok[q])' /\ answer[q] = rotation'[tok[q]]
    BY <1>21 DEF Publish
  <2>1. CASE q = r
    BY <1>21, <2>1 DEF Publish, StoreRotation
  <2>2. CASE q # r
    <3>1. pc'[q] = pc[q]
      BY <1>21, <2>2 DEF Publish
    <3>2. tok[q] # tok[r]
      BY <1>21, <2>2, <3>1, AloneInCriticalSection DEF Publish, CriticalSection, InCriticalSection
    <3> QED
      BY <1>21, <3>1, <3>2 DEF Publish, StoreRotation
  <2> QED
    BY <2>1, <2>2
<1>22. ASSUME NEW r \in Requests, PublishFault(r) PROVE AnswersArePublished'
  <2> SUFFICES ASSUME NEW q \in Requests, Clean(tok[q])',
                      pc'[q] \in {"list", "release"}, answer'[q] # NoAnswer
               PROVE  Published(tok[q])' /\ answer'[q] = rotation'[tok[q]]
    BY <1>22 DEF PublishFault
  <2>1. tok' = tok /\ Clean(tok[q])
    BY <1>22 DEF PublishFault, GoOnUnprotected
  <2>2. q # r /\ pc'[q] = pc[q] /\ answer'[q] = answer[q]
    BY <1>22 DEF PublishFault, GoOnUnprotected
  <2>3. \/ UNCHANGED <<rotation, rotationUntil>>
        \/ StoreRotation(r) /\ tok[q] # tok[r]
    BY <1>22 DEF PublishFault
  <2>4. rotation'[tok[q]] = rotation[tok[q]] /\ rotationUntil'[tok[q]] = rotationUntil[tok[q]]
    <3>1. CASE UNCHANGED <<rotation, rotationUntil>>
      BY <3>1
    <3>2. CASE StoreRotation(r) /\ tok[q] # tok[r]
      <4>1. rotation'[tok[q]] = rotation[tok[q]]
        BY <3>2 DEF StoreRotation
      <4>2. rotationUntil'[tok[q]] = rotationUntil[tok[q]]
        BY <3>2 DEF StoreRotation
      <4> QED
        BY <4>1, <4>2
    <3> QED
      BY <2>3, <3>1, <3>2
  <2>5. pc[q] \in {"list", "release"} /\ answer[q] # NoAnswer
    BY <2>2
  <2>6. Published(tok[q]) /\ answer[q] = rotation[tok[q]]
    BY <2>1, <2>5
  <2> QED
    BY <2>1, <2>2, <2>4, <2>6
<1>23. ASSUME NEW r \in Requests, List(r) PROVE AnswersArePublished'
  BY <1>23 DEF List, Blacklist
<1>24. ASSUME NEW r \in Requests, ListFault(r) PROVE AnswersArePublished'
  BY <1>24 DEF ListFault, Blacklist, GoOnUnprotected
<1>25. ASSUME NEW r \in Requests, Release(r) PROVE AnswersArePublished'
  BY <1>25 DEF Release, DropLock, DeleteLock, Respond, Deliver
<1>26. ASSUME NEW r \in Requests, ReleaseFault(r) PROVE AnswersArePublished'
  BY <1>26 DEF ReleaseFault, Respond, Deliver
<1> QED
  BY <1>1, <1>2, <1>3, <1>4, <1>5, <1>6, <1>7, <1>8, <1>9, <1>10, <1>11, <1>12,
     <1>13, <1>14, <1>15, <1>16, <1>17, <1>18, <1>19, <1>20, <1>21, <1>22, <1>23, <1>24,
     <1>25, <1>26 DEF Next, Refresh

LEMMA NextDeliveredIsPublished ==
  ASSUME IInv, TypeInv', HolderHasLock', [Next]_vars
  PROVE  DeliveredIsPublished'
<1> USE ConstantTypes
<1> USE DEF Goto, Answer, Finish, FinishOr, redisVars, requestVars, IInv, Clean,
       Published, NoFuture, RedisTypes, RequestTypes, HistoryTypes, TypeOK, TypeInv,
       AnswerPlace, Replayable, AnswersArePublished, DeliveredIsPublished
<1>1. CASE UNCHANGED vars
  BY <1>1 DEF vars
<1>2. CASE Login
  BY <1>2 DEF Login
<1>3. CASE Tick
  BY <1>3 DEF Tick
<1>4. ASSUME NEW r \in Requests, Present(r) PROVE DeliveredIsPublished'
  BY <1>4 DEF Present
<1>5. ASSUME NEW r \in Requests, Crash(r) PROVE DeliveredIsPublished'
  BY <1>5 DEF Crash
<1>6. ASSUME NEW r \in Requests, ReplayHit(r) PROVE DeliveredIsPublished'
  <2>1. UNCHANGED <<rotation, rotationUntil, unprotected, underlisted>>
    BY <1>6 DEF ReplayHit
  <2>2. /\ tok[r] \in Tokens /\ now \in Nat /\ rotationUntil[tok[r]] \in Nat
        /\ rotationUntil[tok[r]] > now
    BY <1>6 DEF ReplayHit
  <2>3. Published(tok[r])
    BY <2>2
  <2>4. delivered' = [delivered EXCEPT ![tok[r]] = @ \cup {rotation[tok[r]]}]
    BY <1>6 DEF ReplayHit, Deliver
  <2> QED
    BY <2>1, <2>2, <2>3, <2>4
<1>7. ASSUME NEW r \in Requests, ReplayMiss(r) PROVE DeliveredIsPublished'
  BY <1>7 DEF ReplayMiss
<1>8. ASSUME NEW r \in Requests, ReplayFault(r) PROVE DeliveredIsPublished'
  BY <1>8 DEF ReplayFault
<1>9. ASSUME NEW r \in Requests, Lock(r) PROVE DeliveredIsPublished'
  BY <1>9 DEF Lock, TakeLock
<1>10. ASSUME NEW r \in Requests, LockBusy(r) PROVE DeliveredIsPublished'
  BY <1>10 DEF LockBusy
<1>11. ASSUME NEW r \in Requests, LockFault(r) PROVE DeliveredIsPublished'
  BY <1>11 DEF LockFault, TakeLock, GoOnUnprotected
<1>12. ASSUME NEW r \in Requests, PollHit(r) PROVE DeliveredIsPublished'
  <2>1. UNCHANGED <<rotation, rotationUntil, unprotected, underlisted>>
    BY <1>12 DEF PollHit
  <2>2. /\ tok[r] \in Tokens /\ now \in Nat /\ rotationUntil[tok[r]] \in Nat
        /\ rotationUntil[tok[r]] > now
    BY <1>12 DEF PollHit
  <2>3. Published(tok[r])
    BY <2>2
  <2>4. delivered' = [delivered EXCEPT ![tok[r]] = @ \cup {rotation[tok[r]]}]
    BY <1>12 DEF PollHit, Deliver
  <2> QED
    BY <2>1, <2>2, <2>3, <2>4
<1>13. ASSUME NEW r \in Requests, PollMiss(r) PROVE DeliveredIsPublished'
  BY <1>13 DEF PollMiss
<1>14. ASSUME NEW r \in Requests, PollFault(r) PROVE DeliveredIsPublished'
  BY <1>14 DEF PollFault
<1>15. ASSUME NEW r \in Requests, RecheckHit(r) PROVE DeliveredIsPublished'
  BY <1>15 DEF RecheckHit
<1>16. ASSUME NEW r \in Requests, RecheckMiss(r) \/ RecheckFault(r) PROVE DeliveredIsPublished'
  BY <1>16 DEF RecheckMiss, RecheckFault
<1>17. ASSUME NEW r \in Requests, CheckBlacklist(r) PROVE DeliveredIsPublished'
  BY <1>17 DEF CheckBlacklist, NotListed
<1>18. ASSUME NEW r \in Requests, BlacklistFault(r) PROVE DeliveredIsPublished'
  BY <1>18 DEF BlacklistFault, NotListed, GoOnUnprotected
<1>19. ASSUME NEW r \in Requests, LoadUser(r) PROVE DeliveredIsPublished'
  BY <1>19 DEF LoadUser
<1>20. ASSUME NEW r \in Requests, RejectUser(r) PROVE DeliveredIsPublished'
  BY <1>20 DEF RejectUser
<1>21. ASSUME NEW r \in Requests, Publish(r) PROVE DeliveredIsPublished'
  <2> SUFFICES ASSUME NEW t \in Tokens, Clean(t), NEW p \in delivered[t]
               PROVE  Published(t)' /\ p = rotation'[t]
    BY <1>21 DEF Publish
  <2>1. Published(t) /\ p = rotation[t]
    OBVIOUS
  <2>2. t # tok[r]
    BY <1>21, <2>1 DEF Publish, MintsOnce
  <2> QED
    BY <1>21, <2>1, <2>2 DEF Publish, StoreRotation
<1>22. ASSUME NEW r \in Requests, PublishFault(r) PROVE DeliveredIsPublished'
  BY <1>22 DEF PublishFault, StoreRotation, GoOnUnprotected
<1>23. ASSUME NEW r \in Requests, List(r) PROVE DeliveredIsPublished'
  BY <1>23 DEF List, Blacklist
<1>24. ASSUME NEW r \in Requests, ListFault(r) PROVE DeliveredIsPublished'
  BY <1>24 DEF ListFault, Blacklist, GoOnUnprotected
<1>25. ASSUME NEW r \in Requests, Release(r) PROVE DeliveredIsPublished'
  BY <1>25 DEF Release, DropLock, DeleteLock, Respond, Deliver
<1>26. ASSUME NEW r \in Requests, ReleaseFault(r) PROVE DeliveredIsPublished'
  <2>1. UNCHANGED <<rotation, rotationUntil, unprotected, underlisted>> /\ tok[r] \in Tokens
    BY <1>26 DEF ReleaseFault
  <2>2. CASE answer[r] = NoAnswer
    BY <1>26, <2>1, <2>2 DEF ReleaseFault, Respond
  <2>3. CASE answer[r] # NoAnswer
    <3>1. delivered' = [delivered EXCEPT ![tok[r]] = @ \cup {answer[r]}]
      BY <1>26, <2>3 DEF ReleaseFault, Respond, Deliver
    <3>2. Clean(tok[r]) => Published(tok[r]) /\ answer[r] = rotation[tok[r]]
      BY <1>26, <2>3 DEF ReleaseFault
    <3> QED
      BY <2>1, <3>1, <3>2
  <2> QED
    BY <2>2, <2>3
<1> QED
  BY <1>1, <1>2, <1>3, <1>4, <1>5, <1>6, <1>7, <1>8, <1>9, <1>10, <1>11, <1>12,
     <1>13, <1>14, <1>15, <1>16, <1>17, <1>18, <1>19, <1>20, <1>21, <1>22, <1>23, <1>24,
     <1>25, <1>26 DEF Next, Refresh

-----------------------------------------------------------------------------
(* The parts together. *)

LEMMA InitIInv == Init => IInv
<1> SUFFICES ASSUME Init PROVE IInv
  OBVIOUS
<1> USE ConstantTypes DEF Init
<1>1. RedisTypes /\ RequestTypes
  <2>1. "idle" \in Places
    BY DEF Places
  <2> QED
    BY <2>1 DEF RedisTypes, RequestTypes
<1>2. HistoryTypes
  BY DEF HistoryTypes
<1>3. AnswerPlace /\ NoFuture
  BY DEF AnswerPlace, NoFuture
<1>4. HolderHasLock /\ MintsOnce /\ AnswersArePublished
  BY DEF HolderHasLock, MintsOnce, AnswersArePublished, InCriticalSection, CriticalSection
<1>5. PublishedIsCovered /\ DeliveredIsPublished
  BY DEF PublishedIsCovered, DeliveredIsPublished, Published
<1> QED
  BY <1>1, <1>2, <1>3, <1>4, <1>5 DEF IInv, TypeInv, TypeOK

LEMMA Inductive == IInv /\ [Next]_vars => IInv'
<1> SUFFICES ASSUME IInv, [Next]_vars PROVE IInv'
  OBVIOUS
<1>1. TypeOK /\ AnswerPlace /\ NoFuture /\ HolderHasLock
  BY DEF IInv, TypeInv
<1>2. RedisTypes /\ RequestTypes /\ now \in Nat
  BY <1>1, ConstantTypes DEF TypeOK, HistoryTypes
<1>3. TypeInv'
  BY <1>1, NextRequestTypes, NextRedisTypes, NextHistoryTypes, NextAnswerPlace, NextNoFuture
     DEF TypeInv, TypeOK
<1>4. HolderHasLock'
  BY <1>1, <1>2, NextHolderHasLock
<1> QED
  BY <1>3, <1>4, NextPublishedIsCovered, NextMintsOnce, NextAnswersArePublished,
     NextDeliveredIsPublished DEF IInv

LEMMA InvariantHolds == Spec => []IInv
BY InitIInv, Inductive, PTL DEF Spec

-----------------------------------------------------------------------------
(* The results. *)

\* The replay cache, the locks and the requests keep their types: what is in
\* the replay cache is always a token, and a poll count stays below its limit.
THEOREM TypeCorrect == Spec => []TypeOK
<1>1. IInv => TypeOK
  BY DEF IInv, TypeInv
<1> QED
  BY <1>1, InvariantHolds, PTL

\* backend/auth/routes.py, refresh: however many requests present a token and
\* whatever becomes of them, at most one pair is handed out for it, unless a
\* lock ran out under its holder, Redis failed outside production, or the
\* blacklist entry was missing or too short.
THEOREM RefreshIsSingleUse == Spec => []SingleUse
<1>1. IInv => SingleUse
  BY DEF IInv, SingleUse, DeliveredIsPublished, Clean
<1> QED
  BY <1>1, InvariantHolds, PTL

\* Two requests never work on one token at a time while its lock lasts.
THEOREM RefreshIsExclusive == Spec => []Exclusive
<1>1. IInv => Exclusive
  BY AloneInCriticalSection DEF IInv, Exclusive
<1> QED
  BY <1>1, InvariantHolds, PTL

LEMMA StepKeepsLocks ==
  ASSUME RedisTypes, RequestTypes, now \in Nat, [Next]_vars,
         NEW r \in Requests, InCriticalSection(r), OwnsLock(r, tok[r]),
         pc'[r] # "idle"
  PROVE  lockUntil'[tok[r]] > now
<1>1. tok[r] \in Tokens /\ lockUntil[tok[r]] \in Nat
  BY DEF RedisTypes, RequestTypes
<1>2. CASE UNCHANGED <<lockOwner, lockUntil>>
  BY <1>2 DEF OwnsLock
<1>3. ASSUME NEW q \in Requests, LockFree(tok[q]) /\ TakeLock(q, tok[q])
      PROVE  lockUntil'[tok[r]] > now
  <2>1. tok[q] # tok[r]
    BY <1>1, <1>3 DEF LockFree, OwnsLock
  <2> QED
    BY <1>1, <1>3, <2>1 DEF TakeLock, OwnsLock, RedisTypes
<1>4. ASSUME NEW q \in Requests, DropLock(q, tok[q]), q # r
      PROVE  lockUntil'[tok[r]] > now
  <2>1. tok[q] \in Tokens
    BY DEF RequestTypes
  <2> QED
    BY <1>1, <1>4, <2>1, OthersKeepTheirLocks DEF OwnsLock
<1>5. \/ UNCHANGED <<lockOwner, lockUntil>>
      \/ \E q \in Requests : LockFree(tok[q]) /\ TakeLock(q, tok[q])
      \/ \E q \in Requests : DropLock(q, tok[q]) /\ pc'[q] = "idle"
  <2> USE DEF redisVars
  <2>1. CASE UNCHANGED vars \/ Login \/ Tick
    BY <2>1 DEF vars, Login, Tick
  <2>2. ASSUME NEW q \in Requests, Present(q) \/ Crash(q)
        PROVE  UNCHANGED <<lockOwner, lockUntil>>
    BY <2>2 DEF Present, Crash
  <2>3. ASSUME NEW q \in Requests, Lock(q) PROVE LockFree(tok[q]) /\ TakeLock(q, tok[q])
    BY <2>3 DEF Lock
  <2>4. ASSUME NEW q \in Requests, LockFault(q)
        PROVE  \/ UNCHANGED <<lockOwner, lockUntil>>
               \/ LockFree(tok[q]) /\ TakeLock(q, tok[q])
    BY <2>4 DEF LockFault
  <2>5. ASSUME NEW q \in Requests, Release(q) PROVE DropLock(q, tok[q]) /\ pc'[q] = "idle"
    BY <2>5 DEF Release, Respond, Finish, Goto, RequestTypes
  <2>6. ASSUME NEW q \in Requests, Refresh(q), ~Lock(q), ~LockFault(q), ~Release(q)
        PROVE  UNCHANGED <<lockOwner, lockUntil>>
    BY <2>6
       DEF Refresh, ReplayHit, ReplayMiss, ReplayFault, LockBusy, PollHit, PollMiss, PollFault,
           RecheckHit, RecheckMiss, RecheckFault, CheckBlacklist, BlacklistFault, LoadUser,
           RejectUser, Publish, PublishFault, List, ListFault, ReleaseFault
  <2> QED
    BY <2>1, <2>2, <2>3, <2>4, <2>5, <2>6 DEF Next
<1> QED
  BY <1>2, <1>3, <1>4, <1>5

\* core/redis.py, cache_delete_if_value: a lock that its holder still owns
\* disappears only with the clock or with the holder's own last step.
THEOREM LockStaysWithHolder == Spec => LockRemovedByOwnerOrTime
<1>1. IInv /\ [Next]_vars
        => [\A r \in Requests :
              /\ InCriticalSection(r)
              /\ OwnsLock(r, tok[r])
              /\ lockUntil'[tok[r]] <= now
              => pc'[r] = "idle"]_vars
  <2> SUFFICES ASSUME IInv, [Next]_vars, NEW r \in Requests,
                      InCriticalSection(r), OwnsLock(r, tok[r]), lockUntil'[tok[r]] <= now,
                      pc'[r] # "idle"
               PROVE  FALSE
    OBVIOUS
  <2>1. RedisTypes /\ RequestTypes /\ HistoryTypes
    BY DEF IInv, TypeInv, TypeOK
  <2>2. now \in Nat /\ lockUntil'[tok[r]] \in Nat
    <3>1. TypeInv'
      BY Inductive DEF IInv
    <3>2. tok[r] \in Tokens
      BY <2>1 DEF RequestTypes
    <3> QED
      BY <2>1, <3>1, <3>2, ConstantTypes DEF TypeInv, TypeOK, RedisTypes, HistoryTypes
  <2>3. lockUntil'[tok[r]] > now
    BY <2>1, <2>2, StepKeepsLocks
  <2> QED
    BY <2>2, <2>3
<1> QED
  BY <1>1, InvariantHolds, PTL DEF Spec, LockRemovedByOwnerOrTime

-----------------------------------------------------------------------------
(* The handler implements the exchange. *)

Keeps == UNCHANGED <<rotation, rotationUntil>>
OnlyMoreExempt == unprotected \subseteq unprotected' /\ underlisted \subseteq underlisted'

\* Nothing is published and nothing delivered.
LEMMA QuietStepIsALapse ==
  ASSUME Keeps, OnlyMoreExempt, UNCHANGED delivered
  PROVE  Exchange!Lapse
BY DEF Keeps, OnlyMoreExempt, Exchange!Lapse

\* An answer that is the published pair is handed out; another one is given only
\* for a token that is exempt.
LEMMA DeliveryIsAHandOut ==
  ASSUME IInv, NEW t \in Tokens, NEW p, Keeps, UNCHANGED <<unprotected, underlisted>>,
         delivered' = [delivered EXCEPT ![t] = @ \cup {p}],
         Clean(t) => Published(t) /\ p = rotation[t]
  PROVE  Exchange!Lapse \/ Exchange!HandOut(t)
<1>1. CASE ~Clean(t)
  BY <1>1 DEF Exchange!Lapse, Clean, Keeps, IInv, TypeInv, TypeOK, HistoryTypes
<1>2. CASE Clean(t)
  <2>1. rotationUntil[t] # 0 /\ p = rotation[t]
    BY <1>2 DEF Published
  <2>2. rotation[t] # NoAnswer
    BY ConstantTypes DEF IInv, TypeInv, TypeOK, RedisTypes
  <2> QED
    BY <2>1, <2>2 DEF Exchange!HandOut, Keeps
<1> QED
  BY <1>1, <1>2

\* A pair is published for a token that has none, or that is exempt.
LEMMA PublishIsASale ==
  ASSUME IInv, NEW r \in Requests, Publish(r)
  PROVE  Exchange!Lapse \/ Exchange!Sell(tok[r], answer[r])
<1>1. /\ tok[r] \in Tokens /\ answer[r] \in Tokens
      /\ rotation \in [Tokens -> Tokens] /\ rotationUntil \in [Tokens -> Nat]
      /\ delivered \in [Tokens -> SUBSET Tokens]
  BY DEF Publish, IInv, TypeInv, TypeOK, RedisTypes, RequestTypes, HistoryTypes, AnswerPlace
<1>2. /\ StoreRotation(r)
      /\ UNCHANGED <<delivered, unprotected, underlisted>>
  BY DEF Publish
<1>3. CASE ~Clean(tok[r])
  BY <1>1, <1>2, <1>3 DEF Exchange!Lapse, Clean, StoreRotation
<1>4. CASE Clean(tok[r])
  <2>1. rotationUntil[tok[r]] = 0
    BY <1>1, <1>4 DEF IInv, MintsOnce, Published, Publish
  <2>2. now + RotationTtl # 0
    BY ConstantTypes DEF IInv, TypeInv, TypeOK, HistoryTypes
  <2>3. Exchange!Sell(tok[r], answer[r])
    BY <1>1, <1>2, <2>1, <2>2 DEF Exchange!Sell, StoreRotation
  <2> QED
    BY <2>3
<1> QED
  BY <1>3, <1>4

LEMMA StepImplementsExchange == IInv /\ [Next]_vars => [Exchange!Next]_Exchange!vars
<1> SUFFICES ASSUME IInv, Next PROVE Exchange!Next
  BY DEF vars, redisVars, requestVars, Exchange!vars
<1> USE DEF Keeps, OnlyMoreExempt, redisVars, requestVars
<1>1. CASE Login \/ Tick
  <2>1. Keeps /\ OnlyMoreExempt /\ UNCHANGED delivered
    BY <1>1 DEF Login, Tick
  <2> QED
    BY <2>1, QuietStepIsALapse DEF Exchange!Next
<1>2. ASSUME NEW r \in Requests,
             \/ Present(r) \/ Crash(r) \/ ReplayMiss(r) \/ ReplayFault(r)
             \/ Lock(r) \/ LockBusy(r) \/ LockFault(r) \/ PollMiss(r) \/ PollFault(r)
             \/ RecheckHit(r) \/ RecheckMiss(r) \/ RecheckFault(r)
             \/ CheckBlacklist(r) \/ BlacklistFault(r) \/ LoadUser(r) \/ RejectUser(r)
             \/ List(r) \/ ListFault(r)
      PROVE  Exchange!Next
  <2>1. Keeps /\ UNCHANGED delivered
    BY <1>2 DEF Present, Crash, ReplayMiss, ReplayFault, Lock, LockBusy, LockFault, PollMiss,
       PollFault, RecheckHit, RecheckMiss, RecheckFault, CheckBlacklist, BlacklistFault,
       LoadUser, RejectUser, List, ListFault
  <2>2. OnlyMoreExempt
    BY <1>2 DEF Present, Crash, ReplayMiss, ReplayFault, Lock, LockBusy, LockFault, PollMiss,
       PollFault, RecheckHit, RecheckMiss, RecheckFault, CheckBlacklist, BlacklistFault,
       LoadUser, RejectUser, List, ListFault, GoOnUnprotected, Blacklist
  <2> QED
    BY <2>1, <2>2, QuietStepIsALapse DEF Exchange!Next
<1>3. ASSUME NEW r \in Requests, ReplayHit(r) \/ PollHit(r) PROVE Exchange!Next
  <2>1. /\ Keeps /\ UNCHANGED <<unprotected, underlisted>>
        /\ delivered' = [delivered EXCEPT ![tok[r]] = @ \cup {rotation[tok[r]]}]
        /\ Replayable(tok[r])
    BY <1>3 DEF ReplayHit, PollHit, Deliver
  <2>2. tok[r] \in Tokens /\ now \in Nat /\ rotationUntil[tok[r]] \in Nat
    BY ConstantTypes DEF IInv, TypeInv, TypeOK, RequestTypes, RedisTypes, HistoryTypes
  <2>3. Published(tok[r])
    BY <2>1, <2>2 DEF Replayable, Published
  <2> QED
    BY <2>1, <2>2, <2>3, DeliveryIsAHandOut DEF Exchange!Next
<1>4. ASSUME NEW r \in Requests, Release(r) \/ ReleaseFault(r) PROVE Exchange!Next
  <2>1. Keeps /\ UNCHANGED <<unprotected, underlisted>> /\ Respond(r) /\ pc[r] = "release"
    BY <1>4 DEF Release, ReleaseFault
  <2>2. CASE answer[r] = NoAnswer
    BY <2>1, <2>2, QuietStepIsALapse DEF Respond, Exchange!Next
  <2>3. CASE answer[r] # NoAnswer
    <3>1. delivered' = [delivered EXCEPT ![tok[r]] = @ \cup {answer[r]}]
      BY <2>1, <2>3 DEF Respond, Deliver
    <3>2. Clean(tok[r]) => Published(tok[r]) /\ answer[r] = rotation[tok[r]]
      BY <2>1, <2>3 DEF IInv, AnswersArePublished
    <3>3. tok[r] \in Tokens
      BY DEF IInv, TypeInv, TypeOK, RequestTypes
    <3> QED
      BY <2>1, <3>1, <3>2, <3>3, DeliveryIsAHandOut DEF Exchange!Next
  <2> QED
    BY <2>2, <2>3
<1>5. ASSUME NEW r \in Requests, Publish(r) PROVE Exchange!Next
  <2>1. tok[r] \in Tokens /\ answer[r] \in Tokens
    BY <1>5 DEF Publish, AnswerPlace, IInv, TypeInv, TypeOK, RequestTypes
  <2>2. Exchange!Lapse \/ Exchange!Sell(tok[r], answer[r])
    BY <1>5, PublishIsASale
  <2> QED
    BY <2>1, <2>2 DEF Exchange!Next, Exchange!Sell
<1>6. ASSUME NEW r \in Requests, PublishFault(r) PROVE Exchange!Next
  <2>1. OnlyMoreExempt /\ UNCHANGED delivered
    BY <1>6 DEF PublishFault, GoOnUnprotected
  <2>2. CASE Keeps
    BY <2>1, <2>2, QuietStepIsALapse DEF Exchange!Next
  <2>3. CASE ~Keeps
    <3>1. StoreRotation(r) /\ tok[r] \in underlisted'
      BY <1>6, <2>3 DEF PublishFault
    <3>2. /\ rotation \in [Tokens -> Tokens] /\ rotationUntil \in [Tokens -> Nat]
          /\ tok[r] \in Tokens
      BY DEF IInv, TypeInv, TypeOK, RedisTypes, RequestTypes
    <3>3. Exchange!Lapse
      BY <2>1, <3>1, <3>2 DEF Exchange!Lapse, StoreRotation
    <3> QED
      BY <3>3 DEF Exchange!Next
  <2> QED
    BY <2>2, <2>3
<1> QED
  BY <1>1, <1>2, <1>3, <1>4, <1>5, <1>6 DEF Next, Refresh

\* backend/auth/routes.py, refresh, seen from outside: for every number of
\* requests and all times to live, with faults and crashes, each step sells a
\* token once, hands out what was sold, or concerns tokens that are exempt.
THEOREM RefreshImplementsExchange == Spec => ImplementsExchange
<1>1. Init => Exchange!Init
  BY DEF Init, Exchange!Init
<1> QED
  BY <1>1, InvariantHolds, StepImplementsExchange, PTL DEF Spec, ImplementsExchange, Exchange!Spec
=============================================================================
