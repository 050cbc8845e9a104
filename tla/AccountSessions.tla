--------------------------- MODULE AccountSessions ---------------------------
(***************************************************************************)
(* users.token_version and the handlers that read and raise it: the four   *)
(* sign-in endpoints and /auth/refresh (backend/auth/routes.py), the two   *)
(* revocations (backend/api/auth.py) and get_current_user.                 *)
(*                                                                         *)
(* A token carries the version its handler had loaded; it is accepted as   *)
(* long as the account's version is not greater.  Every handler loads the  *)
(* account once and decides by that object.  revoke_current_session does   *)
(* select the row again FOR UPDATE, but the session answers with the       *)
(* object it already has, so what it adds 1 to is the first read; the row  *)
(* lock only orders the commits, which are single steps here.              *)
(*                                                                         *)
(* Left out: signing and expiry of tokens (RefreshRotation has those of    *)
(* refresh tokens) and the token_blacklist keys that logout and            *)
(* revoke_current_session write, because nothing reads them.               *)
(***************************************************************************)
EXTENDS Integers

CONSTANTS
  Handlers,    \* requests of one account in progress at once
  Pairs,       \* token pairs that can be issued
  Leap,        \* what revoke_all_sessions adds to the version
  MaxVersion   \* bound of this instance on the version

ASSUME SessionsAssumption ==
  /\ Leap \in Nat \ {0}
  /\ MaxVersion \in Nat

NotIssued == -1
NoAccount == -1
Revocations == {"revoke_current", "revoke_all"}
Kinds == {"idle", "sign_in", "refresh"} \cup Revocations

VARIABLES
  version,     \* token_version of the account, or NoAccount
  token,       \* the version each issued pair carries
  handler,     \* per request: its kind and the version it loaded
  overtaken,   \* history: requests a revocation has committed beside
  condemned,   \* history: pairs a later commit of a revocation should end
  tangled      \* history: a revocation committed over one it had not seen

accountVars == <<version, token, handler, overtaken, condemned, tangled>>

Free == [kind |-> "idle", loaded |-> 0]
Busy == {r \in Handlers : handler[r].kind # "idle"}

AccountTypeOK ==
  /\ version \in NoAccount..MaxVersion
  /\ token \in [Pairs -> NotIssued..MaxVersion]
  /\ handler \in [Handlers -> [kind: Kinds, loaded: NoAccount..MaxVersion]]
  /\ overtaken \subseteq Busy
  /\ condemned \subseteq {t \in Pairs : token[t] # NotIssued}
  /\ tangled \in BOOLEAN

AccountInit ==
  /\ version = NoAccount
  /\ token = [t \in Pairs |-> NotIssued]
  /\ handler = [r \in Handlers |-> Free]
  /\ overtaken = {}
  /\ condemned = {}
  /\ tangled = FALSE

-----------------------------------------------------------------------------

AcceptsNewer(t) == token[t] > version
Accepts(t) == token[t] # NotIssued /\ version <= token[t]

Load(r, kind) ==
  /\ handler[r].kind = "idle"
  /\ handler' = [handler EXCEPT ![r] = [kind |-> kind, loaded |-> version]]
  /\ UNCHANGED <<version, token, overtaken, condemned, tangled>>

Done(r) ==
  /\ handler' = [handler EXCEPT ![r] = Free]
  /\ overtaken' = overtaken \ {r}

\* The provider has confirmed who the user is; the account may be missing yet.
SignIn(r) == Load(r, "sign_in")

\* The presented token is accepted: refresh() and get_current_user.
Present(r) ==
  \E t \in Pairs, kind \in {"refresh"} \cup Revocations : Accepts(t) /\ Load(r, kind)

-----------------------------------------------------------------------------

Issue(r, carried) ==
  \E t \in Pairs :
    /\ token[t] = NotIssued
    /\ token' = [token EXCEPT ![t] = carried]
    /\ condemned' = IF r \in overtaken THEN condemned \cup {t} ELSE condemned

CarriedByRow(r) == version
Carried(r) == handler[r].loaded

\* A pair for an account that was there.
Continue(r) ==
  /\ handler[r].kind \in {"sign_in", "refresh"}
  /\ handler[r].loaded # NoAccount
  /\ Issue(r, Carried(r))
  /\ Done(r)
  /\ UNCHANGED <<version, tangled>>

\* create_user_from_oauth: the e-mail address is unique, the second insert fails.
Register(r) ==
  /\ handler[r].kind = "sign_in"
  /\ handler[r].loaded = NoAccount
  /\ IF version = NoAccount
       THEN version' = 0 /\ Issue(r, 0)
       ELSE UNCHANGED <<version, token, condemned>>
  /\ Done(r)
  /\ UNCHANGED tangled

Increment(kind) == IF kind = "revoke_all" THEN Leap ELSE 1

Raised(r) == handler[r].loaded + Increment(handler[r].kind)

\* When the commit is made, no pair that is out, or is being made from what was
\* loaded before, should be accepted again.
RevokeSessions(r) ==
  /\ handler[r].kind \in Revocations
  /\ Raised(r) <= MaxVersion
  /\ version' = Raised(r)
  /\ tangled' = (tangled \/ r \in overtaken)
  /\ condemned' = {t \in Pairs : token[t] # NotIssued}
  /\ handler' = [handler EXCEPT ![r] = Free]
  /\ overtaken' = Busy \ {r}
  /\ UNCHANGED token

\* Any request may end early: an exception, a timeout, a worker that dies.
Fail(r) ==
  /\ handler[r].kind # "idle"
  /\ Done(r)
  /\ UNCHANGED <<version, token, condemned, tangled>>

AccountNext ==
  \E r \in Handlers :
    \/ SignIn(r) \/ Present(r)
    \/ Continue(r) \/ Register(r) \/ RevokeSessions(r) \/ Fail(r)

AccountSpec == AccountInit /\ [][AccountNext]_accountVars

-----------------------------------------------------------------------------
(* Properties *)

\* A revocation ends every pair that was out when it committed, and every pair a
\* sign-in or refresh makes from an account it had loaded before, for good.
\* Revocations that overlap can undo that: the later commit writes a version
\* worked out from the earlier read, which may be smaller than the one there.
RevokedStaysRevoked ==
  tangled \/ \A t \in condemned : ~Accepts(t)

\* Whatever revocations do to each other, they sign out no device that signed in
\* after the last of them.
LaterSignInStands ==
  \A t \in Pairs : token[t] # NotIssued /\ t \notin condemned => Accepts(t)
=============================================================================
