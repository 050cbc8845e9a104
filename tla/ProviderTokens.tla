--------------------------- MODULE ProviderTokens ---------------------------
(***************************************************************************)
(* The row of `user_tokens` that holds one connected account: read and     *)
(* renewed by ensure_valid_token (backend/services/integrations/           *)
(* token_service.py) from any number of syncs and bookings at once,        *)
(* written by every sign-in with the provider (upsert_user_token) and      *)
(* deleted by disconnect_integration.  No lock orders them: each works on  *)
(* the copy its database session holds and writes the columns it changed.  *)
(*                                                                         *)
(* An access token is the moment until which it works, a refresh token the *)
(* number of its issue.  The database is PostgreSQL.  Left out: tokens     *)
(* stored in plain text, unreadable tokens, scopes and metadata, and two   *)
(* sign-ins of one account at the same instant.                            *)
(***************************************************************************)
EXTENDS Integers, FiniteSets

CONSTANTS
  Workers,     \* callers of ensure_valid_token
  Lifetimes,   \* how long the provider's access tokens may live
  Margin,      \* time left below which a token is renewed (five minutes)
  Prompt,      \* longest time from a provider's answer to its commit
  MaxTime,     \* bound on the clock
  MaxTokens,   \* bound on the refresh tokens issued
  MaxSignIns   \* bound on the sign-ins

\* The margin covers what the lifetimes differ by, since a sign-in may keep
\* the expiry of the token it replaces.
ASSUME LifetimeAssumption ==
  /\ Lifetimes \subseteq Nat \ {0}
  /\ Margin \in Nat /\ Prompt \in Nat
  /\ MaxTime \in Nat /\ MaxTokens \in Nat /\ MaxSignIns \in Nat
  /\ \A long, short \in Lifetimes : long - short + Prompt <= Margin /\ Prompt < short

VARIABLES
  now,      \* the clock
  live,     \* refresh tokens the provider accepts
  issued,   \* refresh tokens issued so far
  row,      \* the row of user_tokens
  worker,   \* the calls of ensure_valid_token
  signin,   \* the sign-in in progress
  signins,  \* sign-ins so far
  clean,    \* history: the last sign-in met no renewal
  gone      \* history: disconnected, and no sign-in has looked since

vars == <<now, live, issued, row, worker, signin, signins, clean, gone>>

NoTime    == -1
NoRefresh == 0
NoRow     == 0

Moments == {NoTime} \cup {t + l : t \in 0..MaxTime, l \in Lifetimes}
Refreshes == NoRefresh..MaxTokens
Absent  == [id |-> NoRow, active |-> FALSE, access |-> NoTime,
            refresh |-> NoRefresh, expires |-> NoTime]
Idle    == [phase |-> "idle", id |-> NoRow, active |-> FALSE, access |-> NoTime,
            refresh |-> NoRefresh, expires |-> NoTime, at |-> NoTime]
NoSignIn == [phase |-> "none", access |-> NoTime, refresh |-> NoRefresh,
             expires |-> NoTime, at |-> NoTime, id |-> NoRow,
             active |-> FALSE, undisturbed |-> FALSE]

Rows == [id: 0..MaxSignIns, active: BOOLEAN, access: Moments,
         refresh: Refreshes, expires: Moments]
Calls == [phase: {"idle", "loaded", "trading", "answered", "refused", "given"},
          id: 0..MaxSignIns, active: BOOLEAN, access: Moments, refresh: Refreshes,
          expires: Moments, at: NoTime..MaxTime]
SignIns == [phase: {"none", "read"}, access: Moments, refresh: Refreshes,
            expires: Moments, at: NoTime..MaxTime, id: 0..MaxSignIns,
            active: BOOLEAN, undisturbed: BOOLEAN]

TypeOK ==
  /\ now \in 0..MaxTime
  /\ issued \in 0..MaxTokens /\ live \subseteq 1..issued
  /\ row \in Rows
  /\ worker \in [Workers -> Calls]
  /\ signin \in SignIns
  /\ signins \in 0..MaxSignIns
  /\ clean \in BOOLEAN /\ gone \in BOOLEAN

Init ==
  /\ now = 0 /\ live = {} /\ issued = 0
  /\ row = Absent
  /\ worker = [w \in Workers |-> Idle]
  /\ signin = NoSignIn
  /\ signins = 0
  /\ clean = FALSE /\ gone = FALSE

-----------------------------------------------------------------------------
(* The provider and the clock.                                             *)

Tick ==
  /\ now < MaxTime
  /\ signin.phase # "none" => now < signin.at + Prompt
  /\ \A w \in Workers : worker[w].phase = "answered" => now < worker[w].at + Prompt
  /\ now' = now + 1
  /\ UNCHANGED <<live, issued, row, worker, signin, signins, clean, gone>>

\* The user withdraws the grant at the provider.
Revoke ==
  /\ live # {}
  /\ live' = {}
  /\ UNCHANGED <<now, issued, row, worker, signin, signins, clean, gone>>

\* An answer may come with a refresh token, and the ones before stay good.
Granted(refresh) ==
  \/ refresh = NoRefresh /\ UNCHANGED <<live, issued>>
  \/ /\ refresh = issued + 1 /\ refresh <= MaxTokens
     /\ issued' = refresh
     /\ live' = live \cup {refresh}

-----------------------------------------------------------------------------
(* ensure_valid_token.                                                     *)

\* What a session holds of the row once it has read it.
Copied == [phase |-> "loaded", id |-> row.id, active |-> row.active, access |-> row.access,
           refresh |-> row.refresh, expires |-> row.expires, at |-> NoTime]

\* The session of the caller loads the row, here or in an earlier query.
Load(w) ==
  /\ worker[w].phase = "idle" /\ row.id # NoRow
  /\ worker' = [worker EXCEPT ![w] = Copied]
  /\ UNCHANGED <<now, live, issued, row, signin, signins, clean, gone>>

\* The query of ensure_valid_token sees the table of now, but attributes that
\* the session has loaded before are not read again.
Found(w) == IF row.id = worker[w].id THEN worker[w] ELSE Copied

\* Mutated: whatever has not expired yet is returned.
FreshToTheEnd(copy) == copy.expires # NoTime /\ copy.expires >= now + Margin

Fresh(copy) == copy.expires # NoTime /\ copy.expires > now + Margin

\* A call keeps of its copy what it still needs.
Given(copy)   == [Idle EXCEPT !.phase = "given", !.access = copy.access]
Refused(copy) == [Idle EXCEPT !.phase = "refused", !.id = copy.id, !.active = copy.active]

Verdict(copy) ==
  CASE Fresh(copy) -> Given(copy)
    [] ~Fresh(copy) /\ copy.refresh = NoRefresh -> Refused(copy)
    [] ~Fresh(copy) /\ copy.refresh # NoRefresh ->
         [copy EXCEPT !.phase = "trading", !.access = NoTime, !.expires = NoTime, !.at = now]

Check(w) ==
  /\ worker[w].phase = "loaded"
  /\ worker' = [worker EXCEPT ![w] = IF row.active THEN Verdict(Found(w)) ELSE Idle]
  /\ UNCHANGED <<now, live, issued, row, signin, signins, clean, gone>>

\* What is to be stored: expiry counts from the clock read before the request.
Renewed(copy, life, refresh) ==
  [copy EXCEPT !.phase = "answered", !.active = FALSE, !.access = now + life, !.refresh = refresh,
               !.expires = copy.at + life, !.at = now]

\* The provider exchanges the refresh token, or refuses it for good.
Trade(w) ==
  /\ worker[w].phase = "trading"
  /\ \/ /\ worker[w].refresh \in live
        /\ \E life \in Lifetimes, refresh \in Refreshes :
             /\ Granted(refresh)
             /\ worker' = [worker EXCEPT ![w] = Renewed(worker[w], life, refresh)]
     \/ /\ worker[w].refresh \notin live
        /\ worker' = [worker EXCEPT ![w] = Refused(worker[w])]
        /\ UNCHANGED <<live, issued>>
  /\ UNCHANGED <<now, row, signin, signins, clean, gone>>

\* A write by primary key finds the row, or fails because it is gone.
Disturbed == [signin EXCEPT !.undisturbed = FALSE]

\* Mutated: an answer without a refresh token clears the stored one.
StoredWhole(answer) ==
  [row EXCEPT !.access = answer.access, !.expires = answer.expires,
              !.refresh = answer.refresh]

Stored(answer) ==
  [row EXCEPT !.access = answer.access, !.expires = answer.expires,
              !.refresh = IF answer.refresh = NoRefresh THEN @ ELSE answer.refresh]

Store(w) ==
  /\ worker[w].phase = "answered"
  /\ \/ /\ row.id = worker[w].id
        /\ row' = Stored(worker[w])
        /\ signin' = Disturbed
        /\ worker' = [worker EXCEPT ![w] = Given(worker[w])]
     \/ /\ row.id # worker[w].id
        /\ worker' = [worker EXCEPT ![w] = Idle]
        /\ UNCHANGED <<row, signin>>
  /\ UNCHANGED <<now, live, issued, signins, clean, gone>>

\* _deactivate_token: nothing is written where the copy is inactive already.
Deactivate(w) ==
  /\ worker[w].phase = "refused"
  /\ worker' = [worker EXCEPT ![w] = Idle]
  /\ IF row.id = worker[w].id /\ worker[w].active
       THEN row' = [row EXCEPT !.active = FALSE] /\ signin' = Disturbed
       ELSE UNCHANGED <<row, signin>>
  /\ UNCHANGED <<now, live, issued, signins, clean, gone>>

\* The request times out, the provider is down, or a commit fails.
Fail(w) ==
  /\ worker[w].phase \in {"trading", "answered", "refused"}
  /\ worker' = [worker EXCEPT ![w] = Idle]
  /\ UNCHANGED <<now, live, issued, row, signin, signins, clean, gone>>

\* The caller is done with the token it was given.
Use(w) ==
  /\ worker[w].phase = "given"
  /\ worker' = [worker EXCEPT ![w] = Idle]
  /\ UNCHANGED <<now, live, issued, row, signin, signins, clean, gone>>

-----------------------------------------------------------------------------
(* Sign-in with the provider, and disconnecting.                           *)

\* The OAuth callbacks know when the token expires; social_exchange does not.
Expiries(access) == {access, NoTime}

\* The provider answers and the account is looked up.
SignIn ==
  /\ signin.phase = "none" /\ signins < MaxSignIns
  /\ signins' = signins + 1
  /\ \E life \in Lifetimes, refresh \in Refreshes : \E expires \in Expiries(now + life) :
       /\ Granted(refresh)
       /\ signin' = [phase |-> "read", access |-> now + life, refresh |-> refresh,
                     expires |-> expires, at |-> now, id |-> row.id,
                     active |-> row.active, undisturbed |-> TRUE]
  /\ gone' = FALSE
  /\ UNCHANGED <<now, row, worker, clean>>

\* Only columns that differ from the copy are written.
Upserted ==
  IF signin.id = NoRow
    THEN [id |-> signins, active |-> TRUE, access |-> signin.access,
          refresh |-> signin.refresh, expires |-> signin.expires]
    ELSE [row EXCEPT !.active = IF signin.active THEN @ ELSE TRUE,
                     !.access = signin.access,
                     !.refresh = IF signin.refresh = NoRefresh THEN @ ELSE signin.refresh,
                     !.expires = IF signin.expires = NoTime THEN @ ELSE signin.expires]

\* Mutated: a sign-in writes the row it has read, present or not.
CommitAnyway ==
  /\ signin.phase = "read"
  /\ signin' = NoSignIn
  /\ row' = [Upserted EXCEPT !.id = IF signin.id = NoRow THEN signins ELSE signin.id]
  /\ clean' = (signin.undisturbed /\ \A w \in Workers : worker[w].phase = "idle")
  /\ UNCHANGED <<now, live, issued, worker, signins, gone>>

Commit ==
  /\ signin.phase = "read"
  /\ signin' = NoSignIn
  /\ IF signin.id = row.id
       THEN /\ row' = Upserted
            /\ clean' = (signin.undisturbed /\ \A w \in Workers : worker[w].phase = "idle")
       ELSE UNCHANGED <<row, clean>>
  /\ UNCHANGED <<now, live, issued, worker, signins, gone>>

Disconnect ==
  /\ row.id # NoRow
  /\ row' = Absent
  /\ gone' = TRUE
  /\ UNCHANGED <<now, live, issued, worker, signin, signins, clean>>

-----------------------------------------------------------------------------

Next ==
  \/ Tick \/ Revoke \/ SignIn \/ Commit \/ Disconnect
  \/ \E w \in Workers :
       \/ Load(w) \/ Check(w) \/ Trade(w) \/ Store(w)
       \/ Deactivate(w) \/ Fail(w) \/ Use(w)

Spec == Init /\ [][Next]_vars

-----------------------------------------------------------------------------
(* Properties.                                                             *)

\* A token that ensure_valid_token returns as valid has not expired, although
\* social_exchange stores a new token under the expiry of the one before, and
\* renewals and sign-ins overwrite each other.
ReturnedTokenWorks ==
  [][\A w \in Workers : worker[w].phase # "given" /\ worker'[w].phase = "given"
       => now < worker'[w].access]_vars

\* An account that the user signed in to while no renewal was under way is
\* deactivated only for want of a refresh token or because the user has
\* withdrawn the one it holds, however renewals overlap and fail.
StaysConnected ==
  clean /\ row.id # NoRow /\ ~row.active =>
    row.refresh = NoRefresh \/ row.refresh \notin live

\* An account that was disconnected stays so until a sign-in looks for it
\* again: no renewal and no sign-in under way brings it back.
DisconnectStands == gone => row.id = NoRow

=============================================================================
