--------------------------- MODULE SessionProofs ---------------------------
(***************************************************************************)
(* Who stays signed in: AccountSessions, the version in the account and in *)
(* its tokens, and SessionRefresh, the session cookie in the browser.  For *)
(* any number of requests, token pairs and server processes, any times and *)
(* any bound on the version.                                               *)
(***************************************************************************)
EXTENDS AccountSessions, SessionRefresh, TLAPS

(***************************************************************************)
(* AccountSessions.  Neither property says anything of the requests that   *)
(* are still at work; the invariant does: what a request loaded is the     *)
(* version there is, unless a revocation has committed since or the        *)
(* account did not exist.                                                  *)
(***************************************************************************)

Issued(t) == token[t] # NotIssued

\* Before the account exists, no pair does, and nobody loaded it.
NothingBeforeAccount ==
  version = NoAccount =>
    /\ \A t \in Pairs : ~Issued(t)
    /\ \A r \in Handlers : handler[r].kind # "idle" =>
         handler[r].loaded = NoAccount /\ r \notin overtaken

\* Only a sign-in may have found no account.
PresentedHaveAccount ==
  \A r \in Handlers : handler[r].kind \in {"refresh"} \cup Revocations => handler[r].loaded # NoAccount

LoadedIsCurrent ==
  \A r \in Busy \ overtaken : handler[r].loaded \in {version, NoAccount}

PairsAreCurrent == \A t \in Pairs : Issued(t) /\ t \notin condemned => token[t] = version

\* As long as revocations have not overlapped, versions only grow.
OthersAreOlder ==
  ~tangled =>
    /\ \A t \in Pairs : token[t] <= version
    /\ \A t \in condemned : token[t] < version
    /\ \A r \in overtaken : handler[r].loaded < version

AccountInv ==
  /\ AccountTypeOK
  /\ NothingBeforeAccount
  /\ PresentedHaveAccount
  /\ LoadedIsCurrent
  /\ PairsAreCurrent
  /\ OthersAreOlder

LEMMA AccountInitInv == AccountInit => AccountInv
<1> SUFFICES ASSUME AccountInit PROVE AccountInv
  OBVIOUS
<1> USE SessionsAssumption DEF AccountInit, NotIssued, NoAccount
<1>1. Free \in [kind: Kinds, loaded: NoAccount..MaxVersion] /\ Free.kind = "idle"
  BY DEF Free, Kinds
<1>2. Busy = {}
  BY <1>1 DEF Busy
<1>3. AccountTypeOK
  <2>1. handler \in [Handlers -> [kind: Kinds, loaded: NoAccount..MaxVersion]]
    BY <1>1
  <2>2. tangled \in BOOLEAN
    OBVIOUS
  <2> QED
    BY <2>1, <2>2 DEF AccountTypeOK
<1>4. NothingBeforeAccount /\ PresentedHaveAccount
  BY <1>1 DEF NothingBeforeAccount, PresentedHaveAccount, Issued, Revocations
<1>5. LoadedIsCurrent /\ PairsAreCurrent /\ OthersAreOlder
  BY <1>2 DEF LoadedIsCurrent, PairsAreCurrent, OthersAreOlder, Issued
<1> QED
  BY <1>3, <1>4, <1>5 DEF AccountInv

\* A request begins: it has seen what there is.
LEMMA LoadKeeps ==
  ASSUME AccountInv, NEW r \in Handlers, NEW kind \in Kinds \ {"idle"}, Load(r, kind),
         kind # "sign_in" => version # NoAccount
  PROVE  AccountInv'
<1> USE SessionsAssumption DEF AccountInv, Load, NoAccount, NotIssued
<1>1. /\ handler'[r].kind = kind /\ handler'[r].loaded = version
      /\ \A q \in Handlers \ {r} : handler'[q] = handler[q]
  BY DEF AccountTypeOK
<1>2. Busy' = Busy \cup {r} /\ r \notin overtaken
  BY <1>1 DEF Busy, AccountTypeOK
<1>3. AccountTypeOK'
  BY <1>2 DEF AccountTypeOK
<1>4. NothingBeforeAccount'
  BY <1>1, <1>2 DEF NothingBeforeAccount, Issued
<1>5. PresentedHaveAccount'
  BY <1>1 DEF PresentedHaveAccount, Revocations
<1>6. LoadedIsCurrent' /\ OthersAreOlder'
  BY <1>1, <1>2 DEF LoadedIsCurrent, OthersAreOlder, Busy, AccountTypeOK
<1>7. PairsAreCurrent'
  BY DEF PairsAreCurrent, Issued
<1> QED
  BY <1>3, <1>4, <1>5, <1>6, <1>7

\* The end of a request leaves what was said of the others.
LEMMA DoneLeavesOthers ==
  ASSUME AccountInv, NEW r \in Handlers, Done(r)
  PROVE  /\ handler' \in [Handlers -> [kind: Kinds, loaded: NoAccount..MaxVersion]]
         /\ handler'[r] = Free /\ \A q \in Handlers \ {r} : handler'[q] = handler[q]
         /\ Busy' = Busy \ {r}
         /\ overtaken' \subseteq Busy'
         /\ r \notin overtaken'
         /\ PresentedHaveAccount'
<1> USE SessionsAssumption DEF AccountInv, Done, Free, NoAccount
<1>1. handler'[r] = Free /\ \A q \in Handlers \ {r} : handler'[q] = handler[q]
  BY DEF AccountTypeOK
<1>2. Free \in [kind: Kinds, loaded: NoAccount..MaxVersion]
  BY DEF Kinds
<1>3. handler' \in [Handlers -> [kind: Kinds, loaded: NoAccount..MaxVersion]]
  BY <1>2 DEF AccountTypeOK
<1>4. Busy' = Busy \ {r}
  BY <1>1 DEF Busy
<1>5. PresentedHaveAccount'
  BY <1>1 DEF PresentedHaveAccount, Revocations
<1> QED
  BY <1>1, <1>3, <1>4, <1>5 DEF AccountTypeOK

\* A request ends without a commit.
LEMMA DoneKeeps ==
  ASSUME AccountInv, NEW r \in Handlers, Done(r), UNCHANGED <<version, token, condemned, tangled>>
  PROVE  AccountInv'
<1> USE DoneLeavesOthers DEF AccountInv
<1>1. AccountTypeOK'
  BY DEF AccountTypeOK
<1>2. NothingBeforeAccount' /\ LoadedIsCurrent' /\ OthersAreOlder'
  BY DEF NothingBeforeAccount, LoadedIsCurrent, OthersAreOlder, Issued, Free, Busy, Done
<1>3. PairsAreCurrent'
  BY DEF PairsAreCurrent, Issued
<1> QED
  BY <1>1, <1>2, <1>3

\* A pair is made: from the account as it is, or it is condemned at once.
LEMMA ContinueKeeps ==
  ASSUME AccountInv, NEW r \in Handlers, Continue(r)
  PROVE  AccountInv'
<1> USE SessionsAssumption DEF AccountInv, NoAccount, NotIssued
<1>1. PICK t \in Pairs :
        /\ token[t] = NotIssued
        /\ token' = [token EXCEPT ![t] = handler[r].loaded]
        /\ condemned' = IF r \in overtaken THEN condemned \cup {t} ELSE condemned
  BY DEF Continue, Issue, Carried
<1>2. /\ r \in Busy /\ handler[r].loaded # NoAccount
      /\ version' = version /\ tangled' = tangled
      /\ Done(r) /\ overtaken' = overtaken \ {r}
  BY DEF Continue, Busy, Done
<1>3. token'[t] = handler[r].loaded /\ \A u \in Pairs \ {t} : token'[u] = token[u]
  BY <1>1 DEF AccountTypeOK
<1>4. version # NoAccount
  BY <1>2 DEF NothingBeforeAccount, Busy
<1>5. handler[r].loaded \in NoAccount..MaxVersion
  BY DEF AccountTypeOK
<1>6. AccountTypeOK'
  <2>1. token' \in [Pairs -> NotIssued..MaxVersion]
    BY <1>1, <1>5 DEF AccountTypeOK
  <2>2. condemned' \subseteq {u \in Pairs : token'[u] # NotIssued}
    BY <1>1, <1>2, <1>3 DEF AccountTypeOK
  <2> QED
    BY <1>2, <2>1, <2>2, DoneLeavesOthers DEF AccountTypeOK
<1>7. NothingBeforeAccount' /\ PresentedHaveAccount'
  BY <1>2, <1>4, DoneLeavesOthers DEF NothingBeforeAccount
<1>8. LoadedIsCurrent'
  BY <1>2, DoneLeavesOthers DEF LoadedIsCurrent, Busy
<1>9. PairsAreCurrent'
  BY <1>1, <1>2, <1>3 DEF PairsAreCurrent, LoadedIsCurrent, Issued, AccountTypeOK
<1>10. OthersAreOlder'
  <2>1. ~tangled => handler[r].loaded <= version /\ (r \in overtaken => handler[r].loaded < version)
    BY <1>2, <1>5 DEF OthersAreOlder, LoadedIsCurrent, AccountTypeOK
  <2>2. ~tangled => \A u \in condemned' : token'[u] < version
    BY <1>1, <1>3, <2>1 DEF OthersAreOlder, AccountTypeOK
  <2>3. \A q \in overtaken' : q \in overtaken /\ handler'[q] = handler[q]
    BY <1>2, DoneLeavesOthers DEF AccountTypeOK, Busy
  <2> QED
    BY <1>2, <1>3, <2>1, <2>2, <2>3 DEF OthersAreOlder
<1> QED
  BY <1>6, <1>7, <1>8, <1>9, <1>10

\* The account comes to be: nobody had it, so nothing is older.
LEMMA RegisterKeeps ==
  ASSUME AccountInv, NEW r \in Handlers, Register(r)
  PROVE  AccountInv'
<1> USE SessionsAssumption DEF AccountInv, NoAccount, NotIssued
<1>1. CASE version # NoAccount
  BY <1>1, DoneKeeps DEF Register
<1>2. CASE version = NoAccount
  <2>1. version' = 0 /\ Issue(r, 0) /\ tangled' = tangled /\ Done(r)
    BY <1>2 DEF Register
  <2>2. overtaken = {} /\ condemned = {}
    BY <1>2 DEF NothingBeforeAccount, AccountTypeOK, Issued, Busy
  <2>3. PICK t \in Pairs : token' = [token EXCEPT ![t] = 0] /\ condemned' = {}
    BY <2>1, <2>2 DEF Issue
  <2>4. token'[t] = 0 /\ \A u \in Pairs \ {t} : token'[u] = NotIssued
    BY <1>2, <2>3 DEF AccountTypeOK, NothingBeforeAccount, Issued
  <2>5. overtaken' = {}
    BY <2>1, <2>2 DEF Done
  <2>6. AccountTypeOK'
    BY <2>1, <2>3, <2>5, DoneLeavesOthers DEF AccountTypeOK
  <2>7. NothingBeforeAccount' /\ PresentedHaveAccount'
    BY <2>1, DoneLeavesOthers DEF NothingBeforeAccount
  <2>8. LoadedIsCurrent'
    BY <1>2, <2>1, DoneLeavesOthers DEF LoadedIsCurrent, NothingBeforeAccount, Busy
  <2>9. PairsAreCurrent' /\ OthersAreOlder'
    BY <2>1, <2>3, <2>4, <2>5 DEF PairsAreCurrent, OthersAreOlder, Issued
  <2> QED
    BY <2>6, <2>7, <2>8, <2>9
<1> QED
  BY <1>1, <1>2

\* A revocation: everything that is out, or on its way, is older from now on.
LEMMA RevokeKeeps ==
  ASSUME AccountInv, NEW r \in Handlers, RevokeSessions(r)
  PROVE  AccountInv'
<1> USE SessionsAssumption DEF AccountInv, NoAccount, NotIssued
<1>1. /\ version' \in Nat /\ version' <= MaxVersion /\ version' > handler[r].loaded
      /\ handler[r].loaded \in 0..MaxVersion
  <2>1. handler[r].loaded \in 0..MaxVersion
    BY DEF RevokeSessions, PresentedHaveAccount, AccountTypeOK
  <2>2. Increment(handler[r].kind) \in Int /\ Increment(handler[r].kind) > 0
    BY DEF Increment
  <2>3. version' = handler[r].loaded + Increment(handler[r].kind) /\ version' <= MaxVersion
    BY DEF RevokeSessions, Raised
  <2> QED
    BY <2>1, <2>2, <2>3
<1>2. /\ token' = token
      /\ condemned' = {t \in Pairs : Issued(t)}
      /\ tangled' = (tangled \/ r \in overtaken)
      /\ r \in Busy
      /\ overtaken' = Busy \ {r}
  BY DEF RevokeSessions, Issued, Revocations, Busy
<1>3. /\ handler' \in [Handlers -> [kind: Kinds, loaded: NoAccount..MaxVersion]]
      /\ handler'[r] = Free /\ \A q \in Handlers \ {r} : handler'[q] = handler[q]
  <2>1. Free \in [kind: Kinds, loaded: NoAccount..MaxVersion]
    BY DEF Free, Kinds
  <2> QED
    BY <2>1 DEF RevokeSessions, AccountTypeOK
<1>4. Busy' = Busy \ {r}
  BY <1>3 DEF Busy, Free
<1>5. AccountTypeOK'
  <2>1. tangled' \in BOOLEAN /\ version' \in NoAccount..MaxVersion
    BY <1>1, <1>2
  <2> QED
    BY <1>2, <1>3, <1>4, <2>1 DEF AccountTypeOK, Issued
<1>6. NothingBeforeAccount' /\ PairsAreCurrent'
  BY <1>1, <1>2 DEF NothingBeforeAccount, PairsAreCurrent, Issued
<1>7. PresentedHaveAccount' /\ LoadedIsCurrent'
  BY <1>2, <1>3, <1>4 DEF PresentedHaveAccount, LoadedIsCurrent, Free, Revocations
<1>8. OthersAreOlder'
  <2> SUFFICES ASSUME ~tangled'
               PROVE  /\ \A t \in Pairs : token'[t] <= version'
                      /\ \A t \in condemned' : token'[t] < version'
                      /\ \A q \in overtaken' : handler'[q].loaded < version'
    BY DEF OthersAreOlder
  <2> ~tangled /\ r \notin overtaken
    BY <1>2
  <2>1. version < version' /\ version \in Int /\ version' \in Int
    BY <1>1, <1>2 DEF LoadedIsCurrent, AccountTypeOK
  <2>2. \A t \in Pairs : token[t] < version'
    BY <2>1 DEF OthersAreOlder, AccountTypeOK
  <2>3. ASSUME NEW q \in Busy \ {r} PROVE handler[q].loaded < version'
    <3>1. handler[q].loaded \in Int
      BY DEF AccountTypeOK, Busy
    <3>2. handler[q].loaded <= version \/ handler[q].loaded = NoAccount
      BY <2>1, <3>1 DEF LoadedIsCurrent, OthersAreOlder
    <3> QED
      BY <1>1, <2>1, <3>1, <3>2
  <2>4. \A q \in Busy \ {r} : handler'[q] = handler[q]
    BY <1>3 DEF Busy
  <2>5. \A t \in Pairs : token[t] \in Int
    BY DEF AccountTypeOK
  <2> QED
    BY <1>2, <2>1, <2>2, <2>3, <2>4, <2>5
<1> QED
  BY <1>5, <1>6, <1>7, <1>8

LEMMA AccountStepInv == AccountInv /\ [AccountNext]_accountVars => AccountInv'
<1> SUFFICES ASSUME AccountInv, [AccountNext]_accountVars PROVE AccountInv'
  OBVIOUS
<1>1. CASE UNCHANGED accountVars
  BY <1>1 DEF accountVars, AccountInv, AccountTypeOK, NothingBeforeAccount, PresentedHaveAccount, LoadedIsCurrent,
              PairsAreCurrent, OthersAreOlder, Issued, Busy
<1>2. ASSUME NEW r \in Handlers, SignIn(r) PROVE AccountInv'
  BY <1>2, LoadKeeps DEF SignIn, Kinds
<1>3. ASSUME NEW r \in Handlers, Present(r) PROVE AccountInv'
  <2>1. PICK t \in Pairs, kind \in {"refresh"} \cup Revocations : Accepts(t) /\ Load(r, kind)
    BY <1>3 DEF Present
  <2>2. version # NoAccount
    BY <2>1 DEF AccountInv, NothingBeforeAccount, Accepts, Issued
  <2> QED
    BY <2>1, <2>2, LoadKeeps DEF Kinds, Revocations
<1>4. ASSUME NEW r \in Handlers, Fail(r) PROVE AccountInv'
  BY <1>4, DoneKeeps DEF Fail
<1> QED
  BY <1>1, <1>2, <1>3, <1>4, ContinueKeeps, RegisterKeeps, RevokeKeeps DEF AccountNext

LEMMA AccountInvariance == AccountSpec => []AccountInv
BY AccountInitInv, AccountStepInv, PTL DEF AccountSpec

\* Versions, tokens and loaded versions stay within the bound, whatever overlaps.
THEOREM AccountTypeCorrect == AccountSpec => []AccountTypeOK
<1>1. AccountInv => AccountTypeOK
  BY DEF AccountInv
<1> QED
  BY <1>1, AccountInvariance, PTL

\* Revoked pairs, and pairs made from an account loaded before the revocation,
\* are never accepted again, unless revocations overlapped.
THEOREM RevocationHolds == AccountSpec => []RevokedStaysRevoked
<1>1. AccountInv => RevokedStaysRevoked
  BY DEF AccountInv, AccountTypeOK, OthersAreOlder, RevokedStaysRevoked, Accepts, NoAccount, NotIssued
<1> QED
  BY <1>1, AccountInvariance, PTL

\* A pair made after the last revocation is accepted, whatever overlapped before.
THEOREM LaterSignInsWork == AccountSpec => []LaterSignInStands
<1>1. AccountInv => LaterSignInStands
  BY DEF AccountInv, AccountTypeOK, PairsAreCurrent, LaterSignInStands, Accepts, Issued, NoAccount, NotIssued
<1> QED
  BY <1>1, AccountInvariance, PTL

-----------------------------------------------------------------------------
(***************************************************************************)
(* SessionRefresh.  A session is stamped with an error only when the       *)
(* backend rejects its token, which it does only to a revoked account: the *)
(* invariant follows that verdict from the backend's answer through the    *)
(* requests in flight to the cookie.                                       *)
(*                                                                         *)
(* A user at work stores a session response in every unit of time.  A      *)
(* response can bring back a token traded before only if its request was   *)
(* served before the trade, so the cookie is never behind by more than a   *)
(* request lasts, and a copy of it, when it is traded, by no more than     *)
(* twice that.                                                             *)
(***************************************************************************)

SignedOutOnlyIfRevoked ==
  /\ cookie.error => revoked
  /\ \A r \in Requests : req[r] # Idle /\ req[r].jwt.error => revoked
  /\ \A s \in Servers, t \in Tokens : fetch[s][t] = "rejected" => revoked

\* Only a token that expires is traded, so there is a next one.
TradesHaveSuccessors ==
  /\ \A r \in Requests : req[r].at = "waiting" => req[r].jwt.tok # LastToken
  /\ \A s \in Servers, t \in Tokens : fetch[s][t] # "none" => t # LastToken

\* What a user at work relies on, while nothing fails.
\*
\* Token t was traded no longer than some units ago, if it was.
TradedWithin(t, units) == t < newest => age[t + 1] <= units

\* A session waits before its next trade, or is over, only after a revocation.
StopsIfRevoked(j) == j.cool > 0 \/ j.error => revoked /\ j.tok = newest

\* A copy of the cookie is as recent as the cookie was when the request started,
\* and what was answered without a trade was not due then.
InTime(q) ==
  /\ q.jwt.tok <= newest /\ StopsIfRevoked(q.jwt)
  /\ q.at \in {"sent", "waiting"} => TradedWithin(q.jwt.tok, MaxFlight + q.flight)
  /\ q.at = "waiting" => NearExpiry(q.jwt.tok)
  /\ q.at = "answered" /\ NearExpiry(q.jwt.tok) =>
       \/ revoked /\ q.jwt.tok = newest
       \/ q.flight > 0 /\ TradedWithin(q.jwt.tok, q.flight - 1)

CookieInTime ==
  /\ cookie.tok <= newest /\ StopsIfRevoked(cookie)
  /\ TradedWithin(cookie.tok, IF polled THEN MaxFlight - 1 ELSE MaxFlight)

\* Only a token near its expiry is traded, while some request waits for it.
TokensInOrder ==
  \A t \in Tokens : (t > newest => age[t] = 0) /\ (t < newest => NearExpiry(t))

TradesInTime ==
  \A s \in Servers, t \in Tokens :
    /\ fetch[s][t] # "none" => \E r \in Requests : WaitsFor(r, s, t)
    /\ fetch[s][t] \notin {"used", "failed"}
    /\ fetch[s][t] = "ok" \/ Remembered(s, t) => t < newest
    /\ fetch[s][t] = "rejected" => revoked /\ t = newest

CalmInv ==
  calm =>
    /\ TokensInOrder /\ TradesInTime /\ CookieInTime
    /\ \A r \in Requests : req[r] # Idle => InTime(req[r])

IInv == TypeOK /\ TradesHaveSuccessors /\ SignedOutOnlyIfRevoked /\ NeverAsksWhatItKnows

-----------------------------------------------------------------------------
(* What becomes of a session *)

LEMMA SignedInType == \A t \in Tokens : SignedIn(t) \in Jwts /\ ~SignedIn(t).error
  BY SessionAssumption DEF SignedIn, Jwts

LEMMA CoolingType ==
  ASSUME NEW j \in Jwts
  PROVE  Cooling(j) \in Jwts /\ (Cooling(j).error => j.error)
<1>1. Cooling(j) \in Jwts
  BY SessionAssumption DEF Jwts, Cooling
<1>2. Cooling(j).error => j.error
  BY DEF Jwts, Cooling
<1> QED  BY <1>1, <1>2

LEMMA SignedOutType ==
  ASSUME NEW j \in Jwts
  PROVE  SignedOut(j) \in Jwts
<1> DEFINE k == [j EXCEPT !.cool = 0]
<1>1. k \in Jwts
  BY SessionAssumption DEF Jwts
<1>2. [k EXCEPT !.error = TRUE] \in Jwts
  BY <1>1 DEF Jwts
<1> QED  BY <1>2 DEF SignedOut

LEMMA CooledDownType ==
  ASSUME NEW j \in Jwts
  PROVE  /\ CooledDown(j) \in Jwts
         /\ CooledDown(j).tok = j.tok
         /\ CooledDown(j).error => j.error
<1>1. CooledDown(j) \in Jwts
  BY SessionAssumption DEF Jwts, CooledDown
<1>2. CooledDown(j).tok = j.tok
  BY DEF Jwts, CooledDown
<1>3. CooledDown(j).error => j.error
  BY DEF Jwts, CooledDown
<1> QED  BY <1>1, <1>2, <1>3

\* A trade ends in a session, of the next token if it was traded; and only a
\* rejection, or an earlier one, stamps an error on it.
LEMMA OutcomeType ==
  ASSUME NEW s \in Servers, NEW j \in Jwts, NEW reply \in Replies, j.tok # LastToken
  PROVE  /\ Outcome(s, j, reply) \in Jwts
         /\ Outcome(s, j, reply).error => j.error \/ reply = "rejected"
<1>1. j.tok + 1 \in Tokens
  BY SessionAssumption DEF Jwts, Tokens
<1>2. CASE reply = "ok"
  BY <1>1, <1>2, SignedInType DEF Outcome
<1>3. CASE reply = "used"
  BY <1>1, <1>3, SignedInType, CoolingType DEF Outcome, LostRace
<1>4. CASE reply = "rejected"
  BY <1>4, CoolingType, SignedOutType DEF Outcome
<1>5. CASE reply = "failed"
  BY <1>5, CoolingType DEF Outcome
<1> QED
  BY <1>2, <1>3, <1>4, <1>5 DEF Replies

\* The fields of a request in flight.
LEMMA RequestFields ==
  ASSUME NEW q \in {Idle} \cup InFlight
  PROVE  /\ q # Idle => /\ q \in InFlight
                        /\ q.server \in Servers
                        /\ q.jwt \in Jwts
                        /\ q.flight \in 0..MaxFlight
         /\ q.at \in {"sent", "waiting", "answered"} => q # Idle
  BY DEF Idle, InFlight

\* Only a token that expires is traded.
LEMMA DueExpires ==
  ASSUME NEW j \in Jwts, Due(j)
  PROVE  j.tok \in Tokens /\ j.tok # LastToken /\ ~j.error
  BY DEF Due, NearExpiry, Jwts
-----------------------------------------------------------------------------
(* The invariant holds at first, and every step keeps it *)

LEMMA InitIInv == Init => IInv
<1> SUFFICES ASSUME Init PROVE IInv
  OBVIOUS
<1>1. TypeOK
  <2>1. 0 \in Tokens /\ 0 \in 0..MaxAge /\ Absent \in 0..Absent
    BY SessionAssumption DEF Tokens, MaxAge, Absent
  <2> QED  BY <2>1, SignedInType DEF Init, TypeOK
<1>2. TradesHaveSuccessors
  BY DEF Init, TradesHaveSuccessors, Idle
<1>3. SignedOutOnlyIfRevoked
  BY SignedInType, SessionAssumption DEF Init, SignedOutOnlyIfRevoked, Tokens
<1>4. NeverAsksWhatItKnows
  BY DEF Init, NeverAsksWhatItKnows
<1> QED  BY <1>1, <1>2, <1>3, <1>4 DEF IInv

LEMMA NextAge ==
  ASSUME NEW a, NEW bound \in Nat, a \in 0..bound
  PROVE  Older(a, bound) \in 0..bound /\ Older(a, bound) >= a
  BY DEF Older

LEMMA TickIInv == IInv /\ Tick => IInv'
<1> SUFFICES ASSUME IInv, Tick PROVE IInv'
  OBVIOUS
<1> USE SessionAssumption DEF IInv
<1>1. \A r \in Requests :
        /\ req[r] = Idle => req'[r] = Idle
        /\ req[r] # Idle => /\ req'[r] \in InFlight
                            /\ req'[r].at = req[r].at
                            /\ req'[r].jwt.tok = req[r].jwt.tok
                            /\ req'[r].jwt.error => req[r].jwt.error
  <2> TAKE r \in Requests
  <2>1. CASE req[r] = Idle
    BY <2>1 DEF Tick
  <2>2. CASE req[r] # Idle
    <3>1. req[r] \in InFlight /\ req[r].jwt \in Jwts /\ req[r].flight \in 0..MaxFlight
      BY <2>2, RequestFields DEF TypeOK
    <3>2. req'[r] = [req[r] EXCEPT !.flight = @ + 1, !.jwt = CooledDown(@)]
      BY <2>2 DEF Tick, Longer
    <3>3. req[r].flight + 1 \in 0..MaxFlight
      BY <2>2, <3>1 DEF Tick
    <3>4. /\ CooledDown(req[r].jwt) \in Jwts
          /\ CooledDown(req[r].jwt).tok = req[r].jwt.tok
          /\ CooledDown(req[r].jwt).error => req[r].jwt.error
      BY <3>1, CooledDownType
    <3>5. req'[r].jwt = CooledDown(req[r].jwt) /\ req'[r].at = req[r].at
      BY <3>1, <3>2 DEF InFlight
    <3>6. req'[r] \in InFlight
      BY <3>1, <3>2, <3>3, <3>4 DEF InFlight
    <3> QED  BY <2>2, <3>4, <3>5, <3>6
  <2> QED  BY <2>1, <2>2
<1>2. \A s \in Servers, t \in Tokens :
        recent'[s][t] \in 0..Absent /\ recent'[s][t] >= recent[s][t]
  <2> TAKE s \in Servers, t \in Tokens
  <2>1. recent[s][t] \in 0..Absent /\ Absent \in Nat
    BY DEF TypeOK, Absent
  <2>2. recent'[s][t] = Older(recent[s][t], Absent)
    BY DEF Tick
  <2> QED  BY <2>1, <2>2, NextAge
<1>3. \A t \in Tokens : age'[t] \in 0..MaxAge
  <2> TAKE t \in Tokens
  <2>1. age[t] \in 0..MaxAge /\ MaxAge \in Nat
    BY DEF TypeOK, MaxAge
  <2>2. age'[t] = IF t > newest THEN 0 ELSE Older(age[t], MaxAge)
    BY DEF Tick
  <2> QED  BY <2>1, <2>2, NextAge
<1>4. TypeOK'
  <2>1. cookie' \in Jwts /\ polled' \in BOOLEAN /\ calm' \in BOOLEAN
    BY CooledDownType DEF TypeOK, Tick
  <2>2. req' \in [Requests -> {Idle} \cup InFlight]
    BY <1>1 DEF Tick
  <2>3. age' \in [Tokens -> 0..MaxAge]
    BY <1>3 DEF Tick
  <2>4. recent' \in [Servers -> [Tokens -> 0..Absent]]
    BY <1>2 DEF Tick
  <2> QED  BY <2>1, <2>2, <2>3, <2>4 DEF TypeOK, Tick
<1>5. TradesHaveSuccessors'
  BY <1>1, RequestFields DEF TradesHaveSuccessors, Tick, Idle
<1>6. SignedOutOnlyIfRevoked'
  <2>1. cookie'.error => cookie.error
    BY CooledDownType DEF TypeOK, Tick
  <2> QED  BY <1>1, <2>1 DEF SignedOutOnlyIfRevoked, Tick
<1>7. NeverAsksWhatItKnows'
  BY <1>2 DEF NeverAsksWhatItKnows, Tick, Remembered, TypeOK, Absent
<1> QED  BY <1>4, <1>5, <1>6, <1>7

\* Steps of one request that change its record alone, or take it away.
LEMMA RequestIInv ==
  ASSUME IInv, NEW r \in Requests, NEW q \in {Idle} \cup InFlight,
         req' = [req EXCEPT ![r] = q],
         q.at = "waiting" => q.jwt.tok # LastToken,
         q # Idle /\ q.jwt.error => revoked,
         cookie' \in Jwts, cookie'.error => revoked,
         polled' \in BOOLEAN /\ calm' \in BOOLEAN,
         UNCHANGED <<newest, age, revoked, fetch, recent>>
  PROVE  IInv'
<1> USE DEF IInv
<1>1. \A x \in Requests : req'[x] = IF x = r THEN q ELSE req[x]
  BY DEF TypeOK
<1>2. TypeOK'
  <2>1. req' \in [Requests -> {Idle} \cup InFlight]
    BY DEF TypeOK
  <2> QED  BY <2>1 DEF TypeOK
<1>3. TradesHaveSuccessors'
  BY <1>1 DEF TradesHaveSuccessors
<1>4. SignedOutOnlyIfRevoked'
  BY <1>1 DEF SignedOutOnlyIfRevoked
<1>5. NeverAsksWhatItKnows'
  BY DEF NeverAsksWhatItKnows, Remembered
<1> QED  BY <1>2, <1>3, <1>4, <1>5

LEMMA StartIInv == \A r \in Requests : IInv /\ Start(r) => IInv'
<1> SUFFICES ASSUME NEW r \in Requests, IInv, Start(r) PROVE IInv'
  OBVIOUS
<1>1. PICK s \in Servers :
        req' = [req EXCEPT ![r] = [at |-> "sent", server |-> s, jwt |-> cookie, flight |-> 0]]
  BY DEF Start
<1> DEFINE q == [at |-> "sent", server |-> s, jwt |-> cookie, flight |-> 0]
<1>2. cookie \in Jwts /\ (cookie.error => revoked) /\ polled \in BOOLEAN /\ calm \in BOOLEAN
  BY DEF IInv, TypeOK, SignedOutOnlyIfRevoked
<1>3. q \in InFlight
  BY <1>2, SessionAssumption DEF InFlight
<1>4. req' = [req EXCEPT ![r] = q] /\ q.at = "sent" /\ q.jwt = cookie
  BY <1>1
<1>5. UNCHANGED <<cookie, newest, age, revoked, fetch, recent, polled, calm>>
  BY DEF Start
<1> HIDE DEF q
<1> QED  BY <1>2, <1>3, <1>4, <1>5, RequestIInv

LEMMA ServeAsIsIInv == \A r \in Requests : IInv /\ ServeAsIs(r) => IInv'
<1> SUFFICES ASSUME NEW r \in Requests, IInv, ServeAsIs(r) PROVE IInv'
  OBVIOUS
<1> DEFINE q == [req[r] EXCEPT !.at = "answered"]
<1>1. req[r] # Idle /\ req[r] \in InFlight
  BY RequestFields DEF ServeAsIs, IInv, TypeOK
<1>2. q \in InFlight /\ q.at = "answered" /\ q.jwt = req[r].jwt
  BY <1>1 DEF InFlight
<1>3. req' = [req EXCEPT ![r] = q]
  BY DEF ServeAsIs
<1>4. UNCHANGED <<cookie, newest, age, revoked, fetch, recent, polled, calm>>
  BY DEF ServeAsIs
<1>5. /\ q.jwt.error => revoked
      /\ cookie \in Jwts
      /\ cookie.error => revoked
      /\ polled \in BOOLEAN /\ calm \in BOOLEAN
  BY <1>1, <1>2 DEF IInv, TypeOK, SignedOutOnlyIfRevoked
<1> HIDE DEF q
<1> QED  BY <1>2, <1>3, <1>4, <1>5, RequestIInv

LEMMA ServeFromMemoryIInv == \A r \in Requests : IInv /\ ServeFromMemory(r) => IInv'
<1> SUFFICES ASSUME NEW r \in Requests, IInv, ServeFromMemory(r) PROVE IInv'
  OBVIOUS
<1> DEFINE k == Outcome(req[r].server, req[r].jwt, "ok")
<1> DEFINE q == [req[r] EXCEPT !.at = "answered", !.jwt = k]
<1>1. /\ req[r] # Idle
      /\ req[r] \in InFlight
      /\ req[r].server \in Servers
      /\ req[r].jwt \in Jwts
  BY RequestFields DEF ServeFromMemory, IInv, TypeOK
<1>2. req[r].jwt.tok # LastToken /\ ~req[r].jwt.error
  BY <1>1, DueExpires DEF ServeFromMemory
<1>3. "ok" \in Replies /\ "ok" # "rejected"
  BY DEF Replies
<1>4. k \in Jwts /\ ~k.error
  BY <1>1, <1>2, <1>3, OutcomeType
<1> HIDE DEF k
<1>5. q \in InFlight /\ q.at = "answered" /\ q.jwt = k
  BY <1>1, <1>4 DEF InFlight
<1>6. req' = [req EXCEPT ![r] = q]
  BY DEF ServeFromMemory, k
<1>7. UNCHANGED <<cookie, newest, age, revoked, fetch, recent, polled, calm>>
  BY DEF ServeFromMemory
<1>8. /\ ~q.jwt.error
      /\ cookie \in Jwts
      /\ cookie.error => revoked
      /\ polled \in BOOLEAN /\ calm \in BOOLEAN
  BY <1>4, <1>5 DEF IInv, TypeOK, SignedOutOnlyIfRevoked
<1> HIDE DEF q
<1> QED  BY <1>5, <1>6, <1>7, <1>8, RequestIInv

\* The response reaches the browser, or gets lost.
LEMMA RequestEndsIInv ==
  \A r \in Requests : IInv /\ (Deliver(r) \/ Lose(r)) => IInv'
<1> SUFFICES ASSUME NEW r \in Requests, IInv, Deliver(r) \/ Lose(r) PROVE IInv'
  OBVIOUS
<1>1. req[r] # Idle /\ req[r].jwt \in Jwts
  BY RequestFields DEF Deliver, Lose, IInv, TypeOK
<1>2. /\ req[r].jwt.error => revoked
      /\ cookie \in Jwts
      /\ cookie.error => revoked
  BY <1>1 DEF IInv, TypeOK, SignedOutOnlyIfRevoked
<1>3. cookie' \in Jwts /\ (cookie'.error => revoked)
  BY <1>1, <1>2 DEF Deliver, Lose
<1>4. polled' \in BOOLEAN /\ calm' \in BOOLEAN
  BY DEF Deliver, Lose, IInv, TypeOK
<1>5. req' = [req EXCEPT ![r] = Idle] /\ UNCHANGED <<newest, age, revoked, fetch, recent>>
  BY DEF Deliver, Lose
<1>6. Idle.at # "waiting"
  BY DEF Idle
<1> QED  BY <1>3, <1>4, <1>5, <1>6, RequestIInv

LEMMA ServeByTradeIInv == \A r \in Requests : IInv /\ ServeByTrade(r) => IInv'
<1> SUFFICES ASSUME NEW r \in Requests, IInv, ServeByTrade(r) PROVE IInv'
  OBVIOUS
<1> USE DEF IInv
<1> DEFINE s == req[r].server
           t == req[r].jwt.tok
<1>1. /\ req[r] # Idle
      /\ req[r] \in InFlight
      /\ s \in Servers
      /\ req[r].jwt \in Jwts
  BY RequestFields DEF ServeByTrade, TypeOK
<1>2. t \in Tokens /\ t # LastToken
  BY <1>1, DueExpires DEF ServeByTrade
<1> DEFINE q == [req[r] EXCEPT !.at = "waiting"]
<1>3. q \in InFlight /\ q.at = "waiting" /\ q.jwt = req[r].jwt
  BY <1>1 DEF InFlight
<1>4. \A x \in Requests : req'[x] = IF x = r THEN q ELSE req[x]
  BY DEF ServeByTrade, TypeOK
<1>5. \A x \in Servers, y \in Tokens :
        fetch'[x][y] = IF x = s /\ y = t /\ fetch[x][y] = "none" THEN "sent" ELSE fetch[x][y]
  BY <1>1, <1>2 DEF ServeByTrade, TypeOK
<1>6. TypeOK'
  <2>1. req' \in [Requests -> {Idle} \cup InFlight]
    BY <1>3 DEF ServeByTrade, TypeOK
  <2>2. fetch' \in [Servers -> [Tokens -> Replies \cup {"none", "sent"}]]
    BY <1>1, <1>2 DEF ServeByTrade, TypeOK
  <2> QED  BY <2>1, <2>2 DEF ServeByTrade, TypeOK
<1>7. TradesHaveSuccessors'
  BY <1>2, <1>3, <1>4, <1>5 DEF TradesHaveSuccessors, ServeByTrade
<1>8. SignedOutOnlyIfRevoked'
  <2>1. \A x \in Requests : req'[x] # Idle /\ req'[x].jwt.error => revoked
    BY <1>1, <1>3, <1>4 DEF SignedOutOnlyIfRevoked
  <2> QED  BY <1>5, <2>1 DEF SignedOutOnlyIfRevoked, ServeByTrade
<1>9. NeverAsksWhatItKnows'
  BY <1>5 DEF NeverAsksWhatItKnows, ServeByTrade, Remembered
<1> QED  BY <1>6, <1>7, <1>8, <1>9

\* A reply to a trade that was asked for; only a revoked account is rejected.
LEMMA ReplyIInv ==
  ASSUME IInv, NEW s \in Servers, NEW t \in Tokens, NEW reply \in Replies,
         fetch[s][t] # "none", Reply(s, t, reply),
         reply = "rejected" => revoked,
         newest' \in Tokens,
         UNCHANGED <<cookie, age, revoked, recent, req, polled, calm>>
  PROVE  IInv'
<1> USE DEF IInv
<1>1. \A x \in Servers, y \in Tokens :
        fetch'[x][y] = IF x = s /\ y = t THEN reply ELSE fetch[x][y]
  BY DEF Reply, TypeOK
<1>2. TypeOK'
  <2>1. fetch' \in [Servers -> [Tokens -> Replies \cup {"none", "sent"}]]
    BY DEF Reply, TypeOK
  <2> QED  BY <2>1 DEF TypeOK
<1>3. TradesHaveSuccessors'
  BY <1>1 DEF TradesHaveSuccessors
<1>4. SignedOutOnlyIfRevoked'
  BY <1>1 DEF SignedOutOnlyIfRevoked
<1>5. NeverAsksWhatItKnows'
  BY <1>1 DEF NeverAsksWhatItKnows, Remembered
<1> QED  BY <1>2, <1>3, <1>4, <1>5

LEMMA BackendIInv ==
  \A s \in Servers, t \in Tokens :
    IInv /\ (Rotate(s, t) \/ Answer(s, t) \/ FetchFails(s, t)) => IInv'
<1> SUFFICES ASSUME NEW s \in Servers, NEW t \in Tokens, IInv,
                    Rotate(s, t) \/ Answer(s, t) \/ FetchFails(s, t)
             PROVE  IInv'
  OBVIOUS
<1> USE DEF Replies
<1>1. newest \in Tokens
  BY DEF IInv, TypeOK
<1>2. CASE Rotate(s, t)
  <2>1. t # LastToken
    BY <1>2 DEF IInv, TradesHaveSuccessors, Rotate
  <2>2. t + 1 \in Tokens
    BY <2>1, SessionAssumption DEF Tokens
  <2> QED  BY <1>2, <2>2, ReplyIInv DEF Rotate
<1>3. CASE Answer(s, t)
  <2>1. PICK reply \in {"ok", "used", "rejected"} :
          Reply(s, t, reply) /\ (reply = "rejected" => revoked)
    BY <1>3 DEF Answer
  <2> QED  BY <1>1, <1>3, <2>1, ReplyIInv DEF Answer
<1>4. CASE FetchFails(s, t)
  BY <1>1, <1>4, ReplyIInv DEF FetchFails
<1> QED  BY <1>2, <1>3, <1>4

LEMMA SettleIInv == \A s \in Servers, t \in Tokens : IInv /\ Settle(s, t) => IInv'
<1> SUFFICES ASSUME NEW s \in Servers, NEW t \in Tokens, IInv, Settle(s, t) PROVE IInv'
  OBVIOUS
<1> USE DEF IInv
<1> DEFINE reply == fetch[s][t]
<1>1. reply \in Replies /\ (reply = "rejected" => revoked)
  BY DEF Settle, SignedOutOnlyIfRevoked
<1>2. \A x \in Servers, y \in Tokens :
        fetch'[x][y] = IF x = s /\ y = t THEN "none" ELSE fetch[x][y]
  BY DEF Settle, ReleaseLock, Unlocked, TypeOK
<1>3. \A x \in Servers, y \in Tokens : x # s \/ y # t => recent'[x][y] = recent[x][y]
  BY DEF Settle, TypeOK
<1>4. \A r \in Requests :
        /\ ~WaitsFor(r, s, t) => req'[r] = req[r]
        /\ WaitsFor(r, s, t) => /\ req'[r] \in InFlight
                                /\ req'[r].at = "answered"
                                /\ req'[r].jwt.error => revoked
  <2> TAKE r \in Requests
  <2>1. CASE ~WaitsFor(r, s, t)
    BY <2>1 DEF Settle
  <2>2. CASE WaitsFor(r, s, t)
    <3> DEFINE k == Outcome(req[r].server, req[r].jwt, reply)
    <3>1. /\ req[r] # Idle
          /\ req[r] \in InFlight
          /\ req[r].server \in Servers
          /\ req[r].jwt \in Jwts
      BY <2>2, RequestFields DEF WaitsFor, TypeOK
    <3>2. req[r].jwt.tok # LastToken /\ (req[r].jwt.error => revoked)
      BY <2>2, <3>1 DEF WaitsFor, TradesHaveSuccessors, SignedOutOnlyIfRevoked
    <3>3. k \in Jwts /\ (k.error => revoked)
      BY <1>1, <3>1, <3>2, OutcomeType
    <3>4. req'[r] = [req[r] EXCEPT !.at = "answered", !.jwt = k]
      BY <2>2 DEF Settle, Answered
    <3> HIDE DEF k
    <3>5. req'[r] \in InFlight /\ req'[r].at = "answered" /\ req'[r].jwt = k
      BY <3>1, <3>3, <3>4 DEF InFlight
    <3> QED  BY <2>2, <3>3, <3>5
  <2> QED  BY <2>1, <2>2
<1>5. TypeOK'
  <2>1. req' \in [Requests -> {Idle} \cup InFlight]
    <3>1. \A r \in Requests : req'[r] \in {Idle} \cup InFlight
      BY <1>4 DEF TypeOK
    <3> QED  BY <3>1 DEF Settle
  <2>2. fetch' \in [Servers -> [Tokens -> Replies \cup {"none", "sent"}]]
    BY DEF Settle, ReleaseLock, Unlocked, TypeOK
  <2>3. recent' \in [Servers -> [Tokens -> 0..Absent]]
    BY SessionAssumption DEF Settle, TypeOK, Absent
  <2> QED  BY <2>1, <2>2, <2>3 DEF Settle, TypeOK
<1>6. TradesHaveSuccessors'
  BY <1>2, <1>4 DEF TradesHaveSuccessors
<1>7. SignedOutOnlyIfRevoked'
  BY <1>2, <1>4 DEF SignedOutOnlyIfRevoked, Settle
<1>8. NeverAsksWhatItKnows'
  BY <1>2, <1>3 DEF NeverAsksWhatItKnows, Remembered
<1> QED  BY <1>5, <1>6, <1>7, <1>8

LEMMA RestartIInv == \A s \in Servers : IInv /\ Restart(s) => IInv'
<1> SUFFICES ASSUME NEW s \in Servers, IInv, Restart(s) PROVE IInv'
  OBVIOUS
<1> USE DEF IInv
<1>1. \A r \in Requests : req'[r] = Idle \/ req'[r] = req[r]
  BY DEF Restart
<1>2. \A x \in Servers, y \in Tokens :
        /\ x = s => fetch'[x][y] = "none"
        /\ x # s => fetch'[x][y] = fetch[x][y] /\ recent'[x][y] = recent[x][y]
  BY DEF Restart, TypeOK
<1>3. TypeOK'
  <2>1. req' \in [Requests -> {Idle} \cup InFlight]
    BY <1>1 DEF Restart, TypeOK
  <2>2. fetch' \in [Servers -> [Tokens -> Replies \cup {"none", "sent"}]]
    BY DEF Restart, TypeOK
  <2>3. recent' \in [Servers -> [Tokens -> 0..Absent]]
    BY SessionAssumption DEF Restart, TypeOK, Absent
  <2> QED  BY <2>1, <2>2, <2>3 DEF Restart, TypeOK
<1>4. TradesHaveSuccessors'
  BY <1>1, <1>2 DEF TradesHaveSuccessors, Idle
<1>5. SignedOutOnlyIfRevoked'
  BY <1>1, <1>2 DEF SignedOutOnlyIfRevoked, Restart
<1>6. NeverAsksWhatItKnows'
  BY <1>2 DEF NeverAsksWhatItKnows, Remembered
<1> QED  BY <1>3, <1>4, <1>5, <1>6

LEMMA RevokeIInv == IInv /\ Revoke => IInv'
  BY DEF IInv, TypeOK, TradesHaveSuccessors, SignedOutOnlyIfRevoked, NeverAsksWhatItKnows,
         Remembered, Revoke

LEMMA StutterIInv == IInv /\ UNCHANGED vars => IInv'
  BY DEF IInv, TypeOK, TradesHaveSuccessors, SignedOutOnlyIfRevoked, NeverAsksWhatItKnows,
         Remembered, vars

LEMMA StepIInv == IInv /\ [Next]_vars => IInv'
<1> SUFFICES ASSUME IInv, [Next]_vars PROVE IInv'
  OBVIOUS
<1>1. ASSUME NEW r \in Requests, Serve(r) PROVE IInv'
  BY <1>1, ServeAsIsIInv, ServeFromMemoryIInv, ServeByTradeIInv DEF Serve
<1>2. ASSUME NEW r \in Requests, Start(r) \/ Deliver(r) \/ Lose(r) PROVE IInv'
  BY <1>2, StartIInv, RequestEndsIInv
<1>3. ASSUME NEW s \in Servers, NEW t \in Tokens, Trade(s, t) \/ FetchFails(s, t)
      PROVE  IInv'
  BY <1>3, BackendIInv, SettleIInv DEF Trade
<1> QED
  BY <1>1, <1>2, <1>3, TickIInv, RevokeIInv, RestartIInv, StutterIInv DEF Next

-----------------------------------------------------------------------------
(* A user at work *)

\* Times of a token: its age, and the age of the next one.
LEMMA AgesAreNumbers ==
  ASSUME TypeOK
  PROVE  /\ newest \in Nat /\ LastToken \in Nat
         /\ MaxFlight \in Nat \ {0} /\ ReplayTtl \in Nat /\ AccessTtl - Margin \in Nat
         /\ \A t \in Tokens : t \in Nat /\ age[t] \in Nat
         /\ \A t \in Tokens : t # LastToken => t + 1 \in Tokens /\ age[t + 1] \in Nat
         /\ newest <= LastToken
<1>1. \A t \in Tokens : t \in Nat /\ age[t] \in Nat
  BY SessionAssumption DEF TypeOK, Tokens
<1>2. \A t \in Tokens : t # LastToken => t + 1 \in Tokens
  BY SessionAssumption DEF Tokens
<1> QED
  BY <1>1, <1>2, SessionAssumption DEF TypeOK, Tokens

\* A copy that is in time is traded before the backend forgets the rotation, and
\* the next token is not due by then.
LEMMA TradeIsInTime ==
  ASSUME TypeOK, NEW q \in InFlight, q.at \in {"sent", "waiting"}, InTime(q),
         q.jwt.tok < newest
  PROVE  /\ q.jwt.tok + 1 \in Tokens
         /\ age[q.jwt.tok + 1] < ReplayTtl
         /\ ~NearExpiry(q.jwt.tok + 1)
<1> DEFINE t == q.jwt.tok
<1>1. t \in Tokens /\ q.flight \in 0..MaxFlight
  BY DEF InFlight, Jwts
<1>2. /\ t + 1 \in Tokens /\ age[t + 1] \in Nat /\ MaxFlight \in Nat
      /\ ReplayTtl \in Nat /\ AccessTtl - Margin \in Nat
  BY <1>1, AgesAreNumbers
<1>3. age[t + 1] <= MaxFlight + q.flight
  BY DEF InTime, TradedWithin
<1> HIDE DEF t
<1>4. age[t + 1] <= 2 * MaxFlight
  BY <1>1, <1>2, <1>3 DEF t
<1>5. age[t + 1] < ReplayTtl /\ age[t + 1] <= AccessTtl - Margin
  BY <1>2, <1>4, PaceAssumption, SessionAssumption
<1> QED
  BY <1>2, <1>5 DEF NearExpiry, t

\* Steps of one request, at work or not, that no trade and no other request sees.
LEMMA RequestCalm ==
  ASSUME IInv, CalmInv, calm, NEW r \in Requests, req[r].at # "waiting",
         NEW q \in {Idle} \cup InFlight, req' = [req EXCEPT ![r] = q],
         q # Idle => InTime(q), CookieInTime',
         UNCHANGED <<newest, age, revoked, fetch, recent>>
  PROVE  CalmInv'
<1>1. \A x \in Requests : req'[x] = IF x = r THEN q ELSE req[x]
  BY DEF IInv, TypeOK
<1>2. TokensInOrder'
  BY DEF CalmInv, TokensInOrder, NearExpiry
<1>3. TradesInTime'
  BY <1>1 DEF CalmInv, TradesInTime, WaitsFor, Remembered
<1>4. \A x \in Requests : req'[x] # Idle => InTime(req'[x])
  BY <1>1 DEF CalmInv
<1>5. \A x \in Requests : req'[x] # Idle => InTime(req[x])'
  BY <1>4 DEF InTime, StopsIfRevoked, TradedWithin, NearExpiry
<1> QED
  BY <1>2, <1>3, <1>5 DEF CalmInv

\* The cookie stays as it is, and so do the tokens.
LEMMA CookieStays ==
  ASSUME CalmInv, calm, UNCHANGED <<cookie, polled, newest, age, revoked>>
  PROVE  CookieInTime'
BY DEF CalmInv, CookieInTime, StopsIfRevoked, TradedWithin

LEMMA StartCalm ==
  ASSUME IInv, CalmInv, calm, NEW r \in Requests, Start(r)
  PROVE  CalmInv'
<1>1. PICK s \in Servers :
        req' = [req EXCEPT ![r] = [at |-> "sent", server |-> s, jwt |-> cookie, flight |-> 0]]
  BY DEF Start
<1> DEFINE q == [at |-> "sent", server |-> s, jwt |-> cookie, flight |-> 0]
<1>2. cookie \in Jwts /\ newest \in Nat /\ MaxFlight \in Nat \ {0} /\ 0 \in 0..MaxFlight
  BY AgesAreNumbers DEF IInv, TypeOK
<1>3. q \in InFlight /\ q.at = "sent" /\ q.jwt = cookie /\ q.flight = 0
  BY <1>2 DEF InFlight
<1>4. req' = [req EXCEPT ![r] = q] /\ req[r].at # "waiting"
  <2>1. req[r] = Idle /\ Idle.at # "waiting"
    BY DEF Start, Idle
  <2> QED
    BY <1>1, <2>1
<1>5. UNCHANGED <<cookie, polled, newest, age, revoked, fetch, recent>>
  BY DEF Start
<1> HIDE DEF q
<1>6. TradedWithin(q.jwt.tok, MaxFlight + q.flight)
  <2>1. TradedWithin(cookie.tok, IF polled THEN MaxFlight - 1 ELSE MaxFlight)
    BY DEF CalmInv, CookieInTime
  <2>2. cookie.tok \in Tokens
    BY <1>2 DEF Jwts
  <2>3. cookie.tok < newest => age[cookie.tok + 1] \in Nat
    BY <2>2, AgesAreNumbers DEF IInv
  <2> QED
    BY <1>2, <1>3, <2>1, <2>3 DEF TradedWithin
<1>7. InTime(q)
  BY <1>3, <1>6 DEF CalmInv, CookieInTime, InTime
<1>8. CookieInTime'
  BY <1>5, CookieStays
<1> QED
  BY <1>3, <1>4, <1>5, <1>7, <1>8, RequestCalm

LEMMA ServeAsIsCalm ==
  ASSUME IInv, CalmInv, calm, NEW r \in Requests, ServeAsIs(r)
  PROVE  CalmInv'
<1> DEFINE q == [req[r] EXCEPT !.at = "answered"]
<1>1. req[r] # Idle /\ req[r] \in InFlight /\ req[r].at = "sent" /\ req[r].jwt \in Jwts
  BY RequestFields DEF ServeAsIs, IInv, TypeOK
<1>2. q \in InFlight /\ q.at = "answered" /\ q.jwt = req[r].jwt /\ q.flight = req[r].flight
  BY <1>1 DEF InFlight
<1>3. req' = [req EXCEPT ![r] = q]
      /\ UNCHANGED <<cookie, polled, newest, age, revoked, fetch, recent>>
  BY DEF ServeAsIs
<1> HIDE DEF q
<1>4. InTime(req[r])
  BY <1>1 DEF CalmInv
<1>5. NearExpiry(q.jwt.tok) => revoked /\ q.jwt.tok = newest
  <2>1. req[r].jwt.cool \in Nat
    BY <1>1 DEF Jwts
  <2>2. ~NearExpiry(q.jwt.tok) \/ req[r].jwt.error \/ req[r].jwt.cool > 0
    BY <1>2, <2>1 DEF ServeAsIs, Due
  <2> QED
    BY <1>2, <1>4, <2>2 DEF InTime, StopsIfRevoked
<1>6. InTime(q)
  BY <1>2, <1>4, <1>5 DEF InTime
<1>7. CookieInTime'
  BY <1>3, CookieStays
<1> QED
  BY <1>1, <1>2, <1>3, <1>6, <1>7, RequestCalm

\* A session that got the next token is in time.
LEMMA NextTokenInTime ==
  ASSUME TypeOK, NEW q \in InFlight, q.at \in {"sent", "waiting"}, InTime(q),
         q.jwt.tok < newest,
         NEW p \in InFlight, p.at = "answered", p.jwt = SignedIn(q.jwt.tok + 1)
  PROVE  InTime(p)
<1>1. /\ q.jwt.tok + 1 \in Tokens /\ ~NearExpiry(q.jwt.tok + 1)
      /\ q.jwt.tok \in Nat /\ newest \in Nat
  BY TradeIsInTime, AgesAreNumbers DEF InFlight, Jwts
<1>2. p.jwt.tok = q.jwt.tok + 1 /\ p.jwt.cool = 0 /\ ~p.jwt.error
  BY DEF SignedIn
<1>3. p.jwt.tok <= newest
  BY <1>1, <1>2
<1> QED
  BY <1>1, <1>2, <1>3 DEF InTime, StopsIfRevoked

LEMMA ServeFromMemoryCalm ==
  ASSUME IInv, CalmInv, calm, NEW r \in Requests, ServeFromMemory(r)
  PROVE  CalmInv'
<1> DEFINE k == SignedIn(req[r].jwt.tok + 1)
           q == [req[r] EXCEPT !.at = "answered", !.jwt = k]
<1>1. /\ req[r] # Idle /\ req[r] \in InFlight /\ req[r].at = "sent"
      /\ req[r].server \in Servers /\ req[r].jwt \in Jwts /\ req[r].jwt.tok \in Tokens
  BY RequestFields DEF ServeFromMemory, IInv, TypeOK, Jwts
<1>2. req[r].jwt.tok < newest
  BY <1>1 DEF ServeFromMemory, CalmInv, TradesInTime
<1>3. InTime(req[r])
  BY <1>1 DEF CalmInv
<1>4. k \in Jwts
  BY <1>1, <1>2, <1>3, TradeIsInTime, SignedInType DEF IInv
<1>5. q \in InFlight /\ q.at = "answered" /\ q.jwt = k
  <2> HIDE DEF k
  <2> QED
    BY <1>1, <1>4 DEF InFlight
<1>6. req' = [req EXCEPT ![r] = q]
      /\ UNCHANGED <<cookie, polled, newest, age, revoked, fetch, recent>>
  BY DEF ServeFromMemory, Outcome
<1> HIDE DEF q
<1>7. InTime(q)
  BY <1>1, <1>2, <1>3, <1>5, NextTokenInTime DEF IInv
<1>8. CookieInTime'
  BY <1>6, CookieStays
<1> QED
  BY <1>1, <1>5, <1>6, <1>7, <1>8, RequestCalm

LEMMA DeliverCalm ==
  ASSUME IInv, CalmInv, calm, NEW r \in Requests, Deliver(r)
  PROVE  CalmInv'
<1>1. /\ req[r] # Idle /\ req[r] \in InFlight /\ req[r].at = "answered"
      /\ req[r].jwt \in Jwts /\ req[r].jwt.tok \in Tokens /\ req[r].flight \in 0..MaxFlight
  BY RequestFields DEF Deliver, IInv, TypeOK, Jwts
<1>2. req' = [req EXCEPT ![r] = Idle]
      /\ UNCHANGED <<newest, age, revoked, fetch, recent>>
  BY DEF Deliver
<1>3. InTime(req[r])
  BY <1>1 DEF CalmInv
<1>4. CASE r \in Sessions
  <2> DEFINE t == req[r].jwt.tok
  <2>1. cookie' = req[r].jwt /\ polled' = TRUE
    BY <1>4 DEF Deliver, IInv, TypeOK
  <2>2. ASSUME t < newest
        PROVE  age[t + 1] <= MaxFlight - 1
    <3>1. NearExpiry(t) /\ t # newest
      BY <1>1, <2>2, AgesAreNumbers DEF CalmInv, TokensInOrder, IInv
    <3>2. age[t + 1] <= req[r].flight - 1
      BY <1>1, <1>3, <2>2, <3>1 DEF InTime, TradedWithin
    <3>3. age[t + 1] \in Nat /\ MaxFlight \in Nat
      BY <1>1, <2>2, AgesAreNumbers DEF IInv
    <3> QED
      BY <1>1, <3>2, <3>3
  <2>3. t <= newest /\ StopsIfRevoked(req[r].jwt)
    BY <1>3 DEF InTime
  <2>4. CookieInTime'
    BY <1>2, <2>1, <2>2, <2>3 DEF CookieInTime, StopsIfRevoked, TradedWithin
  <2> QED
    BY <1>1, <1>2, <2>4, RequestCalm
<1>5. CASE r \notin Sessions
  <2>1. cookie' = cookie /\ polled' = polled
    BY <1>5 DEF Deliver, IInv, TypeOK
  <2>2. CookieInTime'
    BY <1>2, <2>1, CookieStays
  <2> QED
    BY <1>1, <1>2, <2>2, RequestCalm
<1> QED
  BY <1>4, <1>5

LEMMA ServeByTradeCalm ==
  ASSUME IInv, CalmInv, calm, NEW r \in Requests, ServeByTrade(r)
  PROVE  CalmInv'
<1> DEFINE s == req[r].server
           t == req[r].jwt.tok
           q == [req[r] EXCEPT !.at = "waiting"]
<1>1. /\ req[r] # Idle /\ req[r] \in InFlight /\ req[r].at = "sent"
      /\ s \in Servers /\ req[r].jwt \in Jwts /\ t \in Tokens
      /\ NearExpiry(t)
  BY RequestFields DEF ServeByTrade, Due, IInv, TypeOK, Jwts
<1>2. q.at = "waiting" /\ q.jwt = req[r].jwt /\ q.server = s /\ q.flight = req[r].flight
  BY <1>1 DEF InFlight
<1>3. \A x \in Requests : req'[x] = IF x = r THEN q ELSE req[x]
  BY DEF ServeByTrade, IInv, TypeOK
<1>4. \A x \in Servers, y \in Tokens :
        fetch'[x][y] = IF x = s /\ y = t /\ fetch[x][y] = "none" THEN "sent" ELSE fetch[x][y]
  BY <1>1 DEF ServeByTrade, IInv, TypeOK
<1>5. UNCHANGED <<cookie, newest, age, revoked, recent, polled, calm>>
  BY DEF ServeByTrade
<1> HIDE DEF q
<1>6. InTime(q)
  <2>1. InTime(req[r])
    BY <1>1 DEF CalmInv
  <2> QED
    BY <1>1, <1>2, <2>1 DEF InTime
<1>7. \A x \in Requests : req'[x] # Idle => InTime(req[x])'
  <2>1. \A x \in Requests : req'[x] # Idle => InTime(req'[x])
    BY <1>3, <1>6 DEF CalmInv
  <2> QED
    BY <1>5, <2>1 DEF InTime, StopsIfRevoked, TradedWithin, NearExpiry
<1>8. TokensInOrder' /\ CookieInTime'
  BY <1>5, CookieStays DEF CalmInv, TokensInOrder, NearExpiry
<1>9. TradesInTime'
  <2> SUFFICES ASSUME NEW x \in Servers, NEW y \in Tokens
               PROVE  /\ fetch'[x][y] # "none" => \E z \in Requests : WaitsFor(z, x, y)'
                      /\ fetch'[x][y] \notin {"used", "failed"}
                      /\ fetch'[x][y] = "ok" \/ Remembered(x, y)' => y < newest'
                      /\ fetch'[x][y] = "rejected" => revoked' /\ y = newest'
    BY DEF TradesInTime
  <2>1. CASE x = s /\ y = t
    <3>1. WaitsFor(r, x, y)'
      BY <1>2, <1>3, <2>1 DEF WaitsFor
    <3> QED
      BY <1>4, <1>5, <3>1 DEF CalmInv, TradesInTime, Remembered
  <2>2. CASE ~(x = s /\ y = t)
    <3>1. fetch'[x][y] = fetch[x][y]
      BY <1>4, <2>2
    <3>2. \A z \in Requests : WaitsFor(z, x, y) => WaitsFor(z, x, y)'
      BY <1>1, <1>3 DEF WaitsFor
    <3> QED
      BY <1>5, <3>1, <3>2 DEF CalmInv, TradesInTime, Remembered
  <2> QED
    BY <2>1, <2>2
<1> QED
  BY <1>7, <1>8, <1>9 DEF CalmInv

\* A trade in progress: somebody waits for it, in time.
LEMMA TradeIsAwaited ==
  ASSUME IInv, CalmInv, calm, NEW s \in Servers, NEW t \in Tokens, fetch[s][t] # "none"
  PROVE  /\ NearExpiry(t) /\ t <= newest
         /\ t < newest => age[t + 1] < ReplayTtl
<1>1. PICK r \in Requests : WaitsFor(r, s, t)
  BY DEF CalmInv, TradesInTime
<1>2. req[r] \in InFlight /\ req[r] # Idle /\ req[r].at = "waiting" /\ req[r].jwt.tok = t
  BY <1>1, RequestFields DEF WaitsFor, IInv, TypeOK
<1>3. InTime(req[r])
  BY <1>2 DEF CalmInv
<1> QED
  BY <1>2, <1>3, TradeIsInTime DEF InTime, IInv

LEMMA AnswerCalm ==
  ASSUME IInv, CalmInv, calm, NEW s \in Servers, NEW t \in Tokens, Answer(s, t)
  PROVE  CalmInv'
<1>1. fetch[s][t] # "none" /\ (t < newest => age[t + 1] < ReplayTtl)
  BY TradeIsAwaited DEF Answer
<1>2. t < newest => age[t + 1] \in Nat /\ ReplayTtl \in Nat
  BY AgesAreNumbers DEF IInv
<1>3. PICK reply \in {"ok", "rejected"} :
        /\ Reply(s, t, reply)
        /\ reply = "ok" => t < newest
        /\ reply = "rejected" => revoked /\ t = newest
  BY <1>1, <1>2 DEF Answer
<1>4. \A x \in Servers, y \in Tokens :
        fetch'[x][y] = IF x = s /\ y = t THEN reply ELSE fetch[x][y]
  BY <1>3 DEF Reply, IInv, TypeOK
<1>5. UNCHANGED <<cookie, newest, age, revoked, recent, req, polled, calm>>
  BY DEF Answer
<1>6. TradesInTime'
  BY <1>1, <1>3, <1>4, <1>5 DEF CalmInv, TradesInTime, WaitsFor, Remembered
<1>7. TokensInOrder' /\ CookieInTime'
  BY <1>5, CookieStays DEF CalmInv, TokensInOrder, NearExpiry
<1>8. \A r \in Requests : req'[r] # Idle => InTime(req[r])'
  BY <1>5 DEF CalmInv, InTime, StopsIfRevoked, TradedWithin, NearExpiry
<1> QED
  BY <1>6, <1>7, <1>8 DEF CalmInv

\* The one step that makes a token older than the newest.
LEMMA RotateCalm ==
  ASSUME IInv, CalmInv, calm, NEW s \in Servers, NEW t \in Tokens, Rotate(s, t)
  PROVE  CalmInv'
<1>1. /\ fetch[s][t] = "sent" /\ t = newest /\ ~revoked /\ newest' = t + 1 /\ Reply(s, t, "ok")
      /\ UNCHANGED <<cookie, age, revoked, recent, req, polled, calm>>
  BY DEF Rotate
<1>2. NearExpiry(t)
  BY <1>1, TradeIsAwaited
<1>3. /\ t \in Nat /\ newest' \in Tokens /\ newest' > newest /\ newest' \in Nat
      /\ MaxFlight \in Nat \ {0}
  BY <1>1, <1>2, AgesAreNumbers DEF IInv, NearExpiry
<1>4. age[newest'] = 0
  BY <1>3 DEF CalmInv, TokensInOrder
<1>5. \A x \in Servers, y \in Tokens :
        fetch'[x][y] = IF x = s /\ y = t THEN "ok" ELSE fetch[x][y]
  BY <1>1 DEF Reply, IInv, TypeOK
<1>6. ASSUME NEW y \in Tokens, NEW units \in Nat, y = newest \/ TradedWithin(y, units),
             y <= newest
      PROVE  TradedWithin(y, units)'
  <2>1. CASE y = newest
    BY <1>1, <1>3, <1>4, <2>1 DEF TradedWithin
  <2>2. CASE y # newest
    <3>1. y < newest
      BY <1>1, <1>3, <1>6, <2>2, AgesAreNumbers DEF IInv
    <3> QED
      BY <1>1, <1>6, <2>2, <3>1 DEF TradedWithin
  <2> QED
    BY <2>1, <2>2
<1>7. TokensInOrder'
  <2> SUFFICES ASSUME NEW y \in Tokens
               PROVE  (y > newest' => age[y] = 0) /\ (y < newest' => NearExpiry(y))
    BY <1>1 DEF TokensInOrder, NearExpiry
  <2>1. y \in Nat
    BY AgesAreNumbers DEF IInv
  <2>2. y > newest' => y > newest
    BY <1>1, <1>3, <2>1
  <2>3. y < newest' => y < newest \/ y = t
    BY <1>1, <1>3, <2>1
  <2> QED
    BY <1>2, <2>2, <2>3 DEF CalmInv, TokensInOrder
<1>8. TradesInTime'
  <2> SUFFICES ASSUME NEW x \in Servers, NEW y \in Tokens
               PROVE  /\ fetch'[x][y] # "none" => \E z \in Requests : WaitsFor(z, x, y)
                      /\ fetch'[x][y] \notin {"used", "failed"}
                      /\ fetch'[x][y] = "ok" \/ Remembered(x, y) => y < newest'
                      /\ fetch'[x][y] = "rejected" => revoked /\ y = newest'
    BY <1>1 DEF TradesInTime, WaitsFor, Remembered
  <2>1. y \in Nat /\ (y < newest => y < newest')
    <3>1. y \in Nat /\ newest \in Nat
      BY <1>1, AgesAreNumbers DEF IInv
    <3> QED
      BY <1>3, <3>1
  <2>2. fetch[x][y] # "rejected"
    BY <1>1 DEF CalmInv, TradesInTime
  <2> QED
    BY <1>1, <1>3, <1>5, <2>1, <2>2 DEF CalmInv, TradesInTime
<1>9. CookieInTime'
  <2>1. cookie.tok \in Tokens /\ cookie.tok \in Nat /\ cookie.tok <= newest
    BY AgesAreNumbers DEF IInv, TypeOK, Jwts, CalmInv, CookieInTime
  <2> DEFINE units == IF polled THEN MaxFlight - 1 ELSE MaxFlight
  <2>2. units \in Nat /\ TradedWithin(cookie.tok, units)
    BY <1>3 DEF CalmInv, CookieInTime
  <2> HIDE DEF units
  <2>3. TradedWithin(cookie.tok, units)'
    BY <1>1, <1>6, <2>1, <2>2 DEF TradedWithin, units
  <2>4. cookie.tok <= newest' /\ StopsIfRevoked(cookie)'
    BY <1>1, <1>3, <2>1 DEF CalmInv, CookieInTime, StopsIfRevoked
  <2> QED
    BY <1>1, <2>3, <2>4 DEF CookieInTime, units
<1>10. ASSUME NEW r \in Requests, req[r] # Idle
       PROVE  InTime(req[r])'
  <2>1. /\ req[r] \in InFlight /\ req[r].jwt.tok \in Tokens /\ req[r].jwt.tok \in Nat
        /\ req[r].flight \in Nat
    BY <1>10, RequestFields, AgesAreNumbers DEF IInv, TypeOK, Jwts
  <2>2. InTime(req[r])
    BY <1>10 DEF CalmInv
  <2>3. req[r].jwt.tok <= newest /\ req[r].jwt.tok <= newest'
    BY <1>1, <1>3, <2>1, <2>2 DEF InTime
  <2>4. StopsIfRevoked(req[r].jwt)'
    BY <1>1, <2>2 DEF InTime, StopsIfRevoked
  <2>5. req[r].at \in {"sent", "waiting"} =>
          age[req[r].jwt.tok + 1] <= MaxFlight + req[r].flight \/ req[r].jwt.tok >= newest'
    <3>1. MaxFlight + req[r].flight \in Nat
      BY <1>3, <2>1
    <3>2. ASSUME req[r].at \in {"sent", "waiting"}
          PROVE  TradedWithin(req[r].jwt.tok, MaxFlight + req[r].flight)
      BY <2>2, <3>2 DEF InTime
    <3> QED
      BY <1>1, <1>3, <1>6, <2>1, <2>3, <3>1, <3>2 DEF TradedWithin
  <2>6. req[r].at = "answered" /\ NearExpiry(req[r].jwt.tok) =>
          /\ req[r].flight > 0
          /\ age[req[r].jwt.tok + 1] <= req[r].flight - 1 \/ req[r].jwt.tok >= newest'
    <3> SUFFICES ASSUME req[r].at = "answered", NearExpiry(req[r].jwt.tok)
                 PROVE  /\ req[r].flight > 0
                        /\ age[req[r].jwt.tok + 1] <= req[r].flight - 1 \/ req[r].jwt.tok >= newest'
      OBVIOUS
    <3>1. req[r].flight > 0 /\ TradedWithin(req[r].jwt.tok, req[r].flight - 1)
      BY <1>1, <2>2 DEF InTime
    <3>2. req[r].flight - 1 \in Nat
      BY <2>1, <3>1
    <3> QED
      BY <1>1, <1>3, <1>6, <2>1, <2>3, <3>1, <3>2 DEF TradedWithin
  <2>7. req[r].jwt.tok < newest' => ~(req[r].jwt.tok >= newest')
    BY <1>3, <2>1
  <2> QED
    BY <1>1, <2>2, <2>3, <2>4, <2>5, <2>6, <2>7 DEF InTime, TradedWithin, NearExpiry
<1> QED
  BY <1>1, <1>7, <1>8, <1>9, <1>10 DEF CalmInv

\* All who waited for the trade are answered, in time.
LEMMA SettleCalm ==
  ASSUME IInv, CalmInv, calm, NEW s \in Servers, NEW t \in Tokens, Settle(s, t)
  PROVE  CalmInv'
<1> DEFINE reply == fetch[s][t]
<1>1. /\ reply \in {"ok", "rejected"} /\ reply # "none"
      /\ reply = "ok" => t < newest
      /\ reply = "rejected" => revoked /\ t = newest
  BY DEF Settle, Replies, CalmInv, TradesInTime
<1>2. \A x \in Servers, y \in Tokens :
        fetch'[x][y] = IF x = s /\ y = t THEN "none" ELSE fetch[x][y]
  BY DEF Settle, ReleaseLock, Unlocked, IInv, TypeOK
<1>3. \A x \in Servers, y \in Tokens :
        recent'[x][y] = IF x = s /\ y = t /\ reply = "ok" THEN 0 ELSE recent[x][y]
  BY DEF Settle, IInv, TypeOK
<1>4. UNCHANGED <<cookie, newest, age, revoked, polled, calm>>
  BY DEF Settle
<1>5. \A r \in Requests : ~WaitsFor(r, s, t) => req'[r] = req[r]
  BY DEF Settle
<1>6. ASSUME NEW r \in Requests, WaitsFor(r, s, t)
      PROVE  InTime(req'[r])
  <2> DEFINE k == Outcome(req[r].server, req[r].jwt, reply)
  <2>1. /\ req[r] # Idle /\ req[r] \in InFlight /\ req[r].at = "waiting"
        /\ req[r].server \in Servers /\ req[r].jwt \in Jwts /\ req[r].jwt.tok = t
    BY <1>6, RequestFields DEF WaitsFor, IInv, TypeOK
  <2>2. InTime(req[r])
    BY <2>1 DEF CalmInv
  <2>3. t # LastToken
    BY <2>1 DEF IInv, TradesHaveSuccessors
  <2>4. k \in Jwts
    BY <1>1, <2>1, <2>3, OutcomeType DEF Replies
  <2>5. req'[r] = [req[r] EXCEPT !.at = "answered", !.jwt = k]
    BY <1>6 DEF Settle, Answered
  <2>6. req'[r] \in InFlight /\ req'[r].at = "answered" /\ req'[r].jwt = k
    <3> HIDE DEF k
    <3> QED
      BY <2>1, <2>4, <2>5 DEF InFlight
  <2>7. CASE reply = "ok"
    <3>1. k = SignedIn(t + 1)
      BY <2>1, <2>7 DEF Outcome
    <3> QED
      BY <1>1, <2>1, <2>2, <2>6, <2>7, <3>1, NextTokenInTime DEF IInv
  <2>8. CASE reply = "rejected"
    <3>1. k \in {Cooling(req[r].jwt), SignedOut(req[r].jwt)}
      BY <2>8 DEF Outcome
    <3>2. ASSUME NEW j \in Jwts
          PROVE  Cooling(j).tok = j.tok /\ SignedOut(j).tok = j.tok
      BY <3>2 DEF Cooling, SignedOut, Jwts
    <3>3. k.tok = t
      BY <2>1, <3>1, <3>2
    <3>4. newest \in Nat
      BY AgesAreNumbers DEF IInv
    <3> HIDE DEF k
    <3> QED
      BY <1>1, <2>6, <2>8, <3>3, <3>4 DEF InTime, StopsIfRevoked
  <2> QED
    BY <1>1, <2>7, <2>8
<1>7. \A r \in Requests : req'[r] # Idle => InTime(req[r])'
  <2>1. \A r \in Requests : req'[r] # Idle => InTime(req'[r])
    BY <1>5, <1>6 DEF CalmInv
  <2> QED
    BY <1>4, <2>1 DEF InTime, StopsIfRevoked, TradedWithin, NearExpiry
<1>8. TokensInOrder' /\ CookieInTime'
  BY <1>4, CookieStays DEF CalmInv, TokensInOrder, NearExpiry
<1> HIDE DEF reply
<1>9. TradesInTime'
  <2> SUFFICES ASSUME NEW x \in Servers, NEW y \in Tokens
               PROVE  /\ fetch'[x][y] # "none" => \E z \in Requests : WaitsFor(z, x, y)'
                      /\ fetch'[x][y] \notin {"used", "failed"}
                      /\ fetch'[x][y] = "ok" \/ Remembered(x, y)' => y < newest'
                      /\ fetch'[x][y] = "rejected" => revoked' /\ y = newest'
    BY DEF TradesInTime
  <2>1. CASE x = s /\ y = t
    BY <1>1, <1>2, <1>3, <1>4, <2>1 DEF CalmInv, TradesInTime, Remembered
  <2>2. CASE ~(x = s /\ y = t)
    <3>1. fetch'[x][y] = fetch[x][y] /\ recent'[x][y] = recent[x][y]
      BY <1>2, <1>3, <2>2
    <3>2. \A z \in Requests : WaitsFor(z, x, y) => WaitsFor(z, x, y)'
      BY <1>5, <2>2 DEF WaitsFor
    <3> QED
      BY <1>4, <3>1, <3>2 DEF CalmInv, TradesInTime, Remembered
  <2> QED
    BY <2>1, <2>2
<1> QED
  BY <1>7, <1>8, <1>9 DEF CalmInv

\* What a unit of time does to the ages and to a request.
LEMMA UnitPasses ==
  ASSUME IInv, Tick
  PROVE  /\ \A t \in Tokens :
              /\ age'[t] \in Nat /\ age'[t] <= age[t] + 1
              /\ IF t > newest THEN age'[t] = 0 ELSE age'[t] >= age[t]
         /\ \A r \in Requests :
              /\ req[r] = Idle => req'[r] = Idle
              /\ req[r] # Idle =>
                   /\ req'[r].at = req[r].at /\ req'[r].server = req[r].server
                   /\ req'[r].jwt = CooledDown(req[r].jwt)
                   /\ req'[r].flight = req[r].flight + 1
         /\ \A s \in Servers, t \in Tokens : recent'[s][t] >= recent[s][t]
<1>1. ASSUME NEW t \in Tokens
      PROVE  /\ age'[t] \in Nat /\ age'[t] <= age[t] + 1
             /\ IF t > newest THEN age'[t] = 0 ELSE age'[t] >= age[t]
  <2>1. age[t] \in Nat
    BY AgesAreNumbers DEF IInv
  <2>2. age'[t] = IF t > newest THEN 0 ELSE Older(age[t], MaxAge)
    BY DEF Tick
  <2>3. Older(age[t], MaxAge) \in {age[t], age[t] + 1}
    BY DEF Older
  <2> QED
    BY <2>1, <2>2, <2>3
<1>2. ASSUME NEW r \in Requests, req[r] # Idle
      PROVE  /\ req'[r].at = req[r].at /\ req'[r].server = req[r].server
             /\ req'[r].jwt = CooledDown(req[r].jwt)
             /\ req'[r].flight = req[r].flight + 1
  <2> DEFINE k == CooledDown(req[r].jwt)
  <2>1. req[r] \in InFlight
    BY <1>2, RequestFields DEF IInv, TypeOK
  <2>2. req'[r] = [req[r] EXCEPT !.flight = @ + 1, !.jwt = k]
    BY <1>2 DEF Tick, Longer
  <2> HIDE DEF k
  <2>3. /\ req'[r].at = req[r].at /\ req'[r].server = req[r].server
        /\ req'[r].jwt = k /\ req'[r].flight = req[r].flight + 1
    BY <2>1, <2>2 DEF InFlight
  <2> QED
    BY <2>3 DEF k
<1>3. ASSUME NEW s \in Servers, NEW t \in Tokens
      PROVE  recent'[s][t] >= recent[s][t]
  <2>1. recent'[s][t] = Older(recent[s][t], Absent) /\ recent[s][t] \in Nat
    BY SessionAssumption DEF Tick, IInv, TypeOK, Absent
  <2> QED
    BY <2>1 DEF Older
<1>4. \A r \in Requests : req[r] = Idle => req'[r] = Idle
  BY DEF Tick
<1> QED
  BY <1>1, <1>2, <1>3, <1>4

LEMMA CoolingEnds ==
  ASSUME NEW j \in Jwts
  PROVE  /\ CooledDown(j).tok = j.tok
         /\ CooledDown(j).cool > 0 => j.cool > 0
         /\ CooledDown(j).error => j.error
<1>1. CooledDown(j).tok = j.tok /\ (CooledDown(j).error => j.error)
  BY CooledDownType
<1>2. CooledDown(j).cool = IF j.cool > 0 THEN j.cool - 1 ELSE 0
  BY DEF CooledDown, Jwts
<1> QED
  BY <1>1, <1>2

LEMMA TickCalm ==
  ASSUME IInv, CalmInv, calm, Tick
  PROVE  CalmInv'
<1>1. /\ polled /\ polled' = FALSE /\ cookie' = CooledDown(cookie)
      /\ UNCHANGED <<newest, revoked, fetch, calm>>
  BY DEF Tick
<1>2. /\ \A t \in Tokens :
           /\ t \in Nat /\ age[t] \in Nat /\ age'[t] \in Nat /\ age'[t] <= age[t] + 1
           /\ IF t > newest THEN age'[t] = 0 ELSE age'[t] >= age[t]
           /\ t < newest => t + 1 \in Tokens
      /\ newest \in Nat /\ MaxFlight \in Nat
  BY UnitPasses, AgesAreNumbers DEF IInv
<1>3. ASSUME NEW t \in Tokens, NEW units \in Int, TradedWithin(t, units)
      PROVE  TradedWithin(t, units + 1)'
  <2> SUFFICES ASSUME t < newest
               PROVE  age'[t + 1] <= units + 1
    BY <1>1 DEF TradedWithin
  <2>1. t + 1 \in Tokens /\ age[t + 1] <= units
    BY <1>2, <1>3 DEF TradedWithin
  <2>2. age'[t + 1] <= age[t + 1] + 1 /\ age'[t + 1] \in Nat /\ age[t + 1] \in Nat
    BY <1>2, <2>1
  <2> QED
    BY <2>1, <2>2
<1>4. TokensInOrder'
  <2> SUFFICES ASSUME NEW t \in Tokens
               PROVE  (t > newest => age'[t] = 0) /\ (t < newest => NearExpiry(t)')
    BY <1>1 DEF TokensInOrder
  <2>1. t > newest => age'[t] = 0
    BY <1>2
  <2>2. ASSUME t < newest
        PROVE  NearExpiry(t)'
    <3>1. NearExpiry(t) /\ age'[t] >= age[t]
      BY <1>2, <2>2 DEF CalmInv, TokensInOrder
    <3>2. AccessTtl - Margin \in Nat
      BY AgesAreNumbers DEF IInv
    <3> QED
      BY <1>2, <3>1, <3>2 DEF NearExpiry
  <2> QED
    BY <2>1, <2>2
<1>5. TradesInTime'
  <2> SUFFICES ASSUME NEW x \in Servers, NEW y \in Tokens
               PROVE  /\ fetch[x][y] # "none" => \E z \in Requests : WaitsFor(z, x, y)'
                      /\ Remembered(x, y)' => Remembered(x, y)
    BY <1>1 DEF TradesInTime, CalmInv
  <2>1. Remembered(x, y)' => Remembered(x, y)
    <3>1. recent'[x][y] >= recent[x][y] /\ recent[x][y] \in Nat /\ recent'[x][y] \in Nat
      BY UnitPasses, TickIInv, SessionAssumption DEF IInv, TypeOK, Absent
    <3> QED
      BY <3>1, SessionAssumption DEF Remembered
  <2>2. \A z \in Requests : WaitsFor(z, x, y) => WaitsFor(z, x, y)'
    <3> SUFFICES ASSUME NEW z \in Requests, WaitsFor(z, x, y)
                 PROVE  WaitsFor(z, x, y)'
      OBVIOUS
    <3>1. req[z] # Idle /\ req[z].jwt \in Jwts
      BY RequestFields DEF WaitsFor, IInv, TypeOK
    <3>2. /\ req'[z].at = req[z].at /\ req'[z].server = req[z].server
          /\ req'[z].jwt.tok = req[z].jwt.tok
      BY <3>1, UnitPasses, CoolingEnds
    <3> QED
      BY <3>2 DEF WaitsFor
  <2> QED
    BY <2>1, <2>2 DEF CalmInv, TradesInTime
<1>6. CookieInTime'
  <2>1. /\ cookie \in Jwts /\ cookie.tok \in Tokens /\ cookie'.tok = cookie.tok
        /\ (cookie'.cool > 0 \/ cookie'.error => cookie.cool > 0 \/ cookie.error)
    BY <1>1, CoolingEnds DEF IInv, TypeOK, Jwts
  <2>2. TradedWithin(cookie.tok, MaxFlight - 1)
    BY <1>1 DEF CalmInv, CookieInTime
  <2>3. cookie.tok < newest => age'[cookie.tok + 1] <= MaxFlight - 1 + 1
    BY <1>1, <1>2, <1>3, <2>1, <2>2 DEF TradedWithin
  <2> QED
    BY <1>1, <1>2, <2>1, <2>3 DEF CalmInv, CookieInTime, StopsIfRevoked, TradedWithin
<1>7. ASSUME NEW r \in Requests, req'[r] # Idle
      PROVE  InTime(req[r])'
  <2>1. /\ req[r] # Idle /\ req[r] \in InFlight /\ req[r].jwt \in Jwts
        /\ req[r].jwt.tok \in Tokens /\ req[r].flight \in Nat
    BY <1>2, <1>7, UnitPasses, RequestFields DEF IInv, TypeOK, Jwts
  <2>2. /\ req'[r].at = req[r].at /\ req'[r].flight = req[r].flight + 1
        /\ req'[r].jwt.tok = req[r].jwt.tok
        /\ req'[r].jwt.cool > 0 \/ req'[r].jwt.error => req[r].jwt.cool > 0 \/ req[r].jwt.error
    BY <2>1, UnitPasses, CoolingEnds
  <2>3. InTime(req[r])
    BY <2>1 DEF CalmInv
  <2>4. req'[r].jwt.tok <= newest' /\ StopsIfRevoked(req[r].jwt)'
    BY <1>1, <2>2, <2>3 DEF InTime, StopsIfRevoked
  <2>5. ASSUME req[r].at \in {"sent", "waiting"}, req[r].jwt.tok < newest
        PROVE  age'[req[r].jwt.tok + 1] <= MaxFlight + (req[r].flight + 1)
    <3>1. TradedWithin(req[r].jwt.tok, MaxFlight + req[r].flight)
      BY <2>3, <2>5 DEF InTime
    <3>2. age'[req[r].jwt.tok + 1] <= MaxFlight + req[r].flight + 1
      BY <1>1, <1>2, <1>3, <2>1, <2>5, <3>1 DEF TradedWithin
    <3> QED
      BY <1>2, <2>1, <2>5, <3>2
  <2>6. ASSUME req[r].at = "waiting"
        PROVE  NearExpiry(req[r].jwt.tok)'
    <3>1. NearExpiry(req[r].jwt.tok) /\ req[r].jwt.tok <= newest
      BY <2>3, <2>6 DEF InTime
    <3>2. age'[req[r].jwt.tok] >= age[req[r].jwt.tok]
      BY <1>2, <2>1, <3>1
    <3>3. AccessTtl - Margin \in Nat
      BY AgesAreNumbers DEF IInv
    <3> QED
      BY <1>2, <2>1, <2>2, <3>1, <3>2, <3>3 DEF NearExpiry
  <2>7. ASSUME req[r].at = "answered", req[r].jwt.tok < newest
        PROVE  age'[req[r].jwt.tok + 1] <= req'[r].flight - 1
    <3>1. NearExpiry(req[r].jwt.tok) /\ req[r].jwt.tok # newest
      BY <1>2, <2>1, <2>7 DEF CalmInv, TokensInOrder
    <3>2. TradedWithin(req[r].jwt.tok, req[r].flight - 1)
      BY <2>3, <2>7, <3>1 DEF InTime
    <3>3. age'[req[r].jwt.tok + 1] <= req[r].flight - 1 + 1
      BY <1>1, <1>2, <1>3, <2>1, <2>7, <3>2 DEF TradedWithin
    <3> QED
      BY <2>1, <2>2, <3>3
  <2>8. req'[r].flight > 0
    BY <2>1, <2>2
  <2>9. req'[r].at \in {"sent", "waiting"} =>
          TradedWithin(req[r].jwt.tok, MaxFlight + req[r].flight)'
    BY <1>1, <2>2, <2>5 DEF TradedWithin
  <2>10. req'[r].at = "answered" => TradedWithin(req[r].jwt.tok, req[r].flight - 1)'
    BY <1>1, <2>2, <2>7 DEF TradedWithin
  <2>11. req'[r].at = "waiting" => NearExpiry(req[r].jwt.tok)'
    BY <2>2, <2>6
  <2> QED
    BY <2>4, <2>8, <2>9, <2>10, <2>11 DEF InTime
<1> QED
  BY <1>1, <1>4, <1>5, <1>6, <1>7 DEF CalmInv

LEMMA RevokeCalm ==
  ASSUME IInv, CalmInv, calm, Revoke
  PROVE  CalmInv'
BY DEF Revoke, CalmInv, TokensInOrder, TradesInTime, CookieInTime, InTime, StopsIfRevoked,
       TradedWithin, NearExpiry, Remembered, WaitsFor

LEMMA InitCalm ==
  ASSUME Init
  PROVE  CalmInv
<1>1. /\ cookie = SignedIn(0) /\ newest = 0 /\ fetch = [s \in Servers |-> [t \in Tokens |-> "none"]]
      /\ recent = [s \in Servers |-> [t \in Tokens |-> Absent]]
      /\ age = [t \in Tokens |-> 0] /\ \A r \in Requests : req[r] = Idle
  BY DEF Init
<1>2. \A t \in Tokens : t \in Nat
  BY DEF Tokens
<1>3. TokensInOrder
  BY <1>1, <1>2 DEF TokensInOrder
<1>4. TradesInTime
  BY <1>1, SessionAssumption DEF TradesInTime, Remembered, Absent
<1>5. CookieInTime
  BY <1>1 DEF CookieInTime, SignedIn, StopsIfRevoked, TradedWithin
<1> QED
  BY <1>1, <1>3, <1>4, <1>5 DEF CalmInv

LEMMA StepCalm ==
  ASSUME IInv, CalmInv, [Next]_vars
  PROVE  CalmInv'
<1> SUFFICES ASSUME calm'
             PROVE  CalmInv'
  BY DEF CalmInv
<1>0. calm
  BY DEF Next, vars, Tick, Revoke, Start, Serve, ServeAsIs, ServeFromMemory, ServeByTrade, Deliver,
         Lose, Restart, Trade, Rotate, Answer, Settle, FetchFails
<1>1. ASSUME NEW r \in Requests, Start(r) \/ Serve(r) \/ Deliver(r) \/ Lose(r)
      PROVE  CalmInv'
  BY <1>0, <1>1, StartCalm, ServeAsIsCalm, ServeFromMemoryCalm, ServeByTradeCalm, DeliverCalm
  DEF Serve, Lose
<1>2. ASSUME NEW s \in Servers, Restart(s)
      PROVE  CalmInv'
  BY <1>0, <1>2 DEF Restart
<1>3. ASSUME NEW s \in Servers, NEW t \in Tokens, Trade(s, t) \/ FetchFails(s, t)
      PROVE  CalmInv'
  BY <1>0, <1>3, RotateCalm, AnswerCalm, SettleCalm DEF Trade, FetchFails
<1>4. CASE UNCHANGED vars
  BY <1>0, <1>4
  DEF vars, CalmInv, TokensInOrder, TradesInTime, CookieInTime, InTime, StopsIfRevoked,
      TradedWithin, NearExpiry, Remembered, WaitsFor
<1> QED
  BY <1>0, <1>1, <1>2, <1>3, <1>4, TickCalm, RevokeCalm DEF Next

-----------------------------------------------------------------------------
(* Theorems *)

LEMMA Invariance == Spec => []IInv
  BY InitIInv, StepIInv, PTL DEF Spec

\* Every variable stays in its type; in particular a session never refers to a
\* token the backend has no successor for.
THEOREM TypeCorrect == Spec => []TypeOK
  BY Invariance, PTL DEF IInv

\* However requests race, fail and get lost, and whenever processes restart, the
\* jwt callback stamps RefreshTokenError only on sessions of a revoked account.
THEOREM OnlyRevocationSignsOut == Spec => []RacesNeverSignOut
<1>1. IInv => RacesNeverSignOut
  BY DEF IInv, SignedOutOnlyIfRevoked, RacesNeverSignOut
<1> QED  BY Invariance, <1>1, PTL

\* A process with a trade of a token in progress does not remember its successor:
\* the second cache lookup of refreshBackendToken is dead code.
THEOREM SecondLookupIsDead == Spec => []NeverAsksWhatItKnows
<1>1. IInv => NeverAsksWhatItKnows
  BY DEF IInv
<1> QED  BY Invariance, <1>1, PTL

LEMMA CalmInvariance == Spec => [](IInv /\ CalmInv)
<1>1. Init => IInv /\ CalmInv
  BY InitIInv, InitCalm
<1>2. IInv /\ CalmInv /\ [Next]_vars => IInv' /\ CalmInv'
  BY StepIInv, StepCalm
<1> QED
  BY <1>1, <1>2, PTL DEF Spec

\* While nothing fails and the user makes a session request in every unit, the
\* cookie never holds a token that was traded longer ago than the backend
\* replays, in whatever order responses are stored and pages are rendered.
THEOREM WorkIsNeverStranded == Spec => []ActiveSessionNeverStranded
<1>1. ASSUME IInv, CalmInv
      PROVE  ActiveSessionNeverStranded
  <2> SUFFICES ASSUME calm, cookie.tok < newest
               PROVE  age[cookie.tok + 1] < ReplayTtl
    BY DEF ActiveSessionNeverStranded
  <2>1. cookie.tok \in Tokens /\ cookie.tok # LastToken
    BY <1>1, AgesAreNumbers DEF IInv, TypeOK, Jwts
  <2>2. /\ age[cookie.tok + 1] \in Nat /\ MaxFlight \in Nat \ {0} /\ ReplayTtl \in Nat
    BY <1>1, <2>1, AgesAreNumbers DEF IInv
  <2>3. age[cookie.tok + 1] <= MaxFlight
    BY <1>1, <2>2 DEF CalmInv, CookieInTime, TradedWithin
  <2> QED
    BY <2>2, <2>3, PaceAssumption
<1> QED
  BY <1>1, CalmInvariance, PTL
=============================================================================
