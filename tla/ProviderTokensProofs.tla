------------------------ MODULE ProviderTokensProofs ------------------------
(***************************************************************************)
(* The safety properties of ProviderTokens for any number of callers, any  *)
(* lifetimes within the margin and any bounds.                             *)
(***************************************************************************)
EXTENDS ProviderTokens, TLAPS

Waiting == {"trading", "answered"}

\* A moment read from the clock lies in the past, and no refresh token is used
\* before it is issued.
Past ==
  /\ \A w \in Workers : worker[w].phase \in Waiting => worker[w].at \in 0..now
  /\ signin.phase = "read" => signin.at \in 0..now
  /\ row.refresh <= issued /\ signin.refresh <= issued
  /\ \A w \in Workers : worker[w].refresh <= issued

LEMMA Constants ==
  /\ Lifetimes \subseteq Nat \ {0} /\ Margin \in Nat /\ Prompt \in Nat
  /\ MaxTime \in Nat /\ MaxTokens \in Nat /\ MaxSignIns \in Nat
  /\ NoTime \in Moments /\ NoTime \in NoTime..MaxTime /\ NoRow \in 0..MaxSignIns
  /\ NoRefresh \in Refreshes /\ NoRefresh = 0 /\ NoTime = -1 /\ NoRow = 0
BY LifetimeAssumption DEF Moments, Refreshes, NoTime, NoRow, NoRefresh

LEMMA MomentsAhead ==
  ASSUME NEW t \in 0..MaxTime, NEW l \in Lifetimes
  PROVE  t + l \in Moments /\ t + l \in Nat
BY LifetimeAssumption DEF Moments

LEMMA MomentsAreIntegers == \A m \in Moments : m \in Int
BY LifetimeAssumption DEF Moments, NoTime

\* The records that calls and sign-ins go through have their type.
LEMMA RestingTypes == Idle \in Calls /\ NoSignIn \in SignIns /\ Absent \in Rows
BY Constants DEF Idle, NoSignIn, Absent, Calls, SignIns, Rows

LEMMA CopiedType ==
  ASSUME row \in Rows
  PROVE  /\ Copied \in Calls /\ Copied.phase = "loaded" /\ Copied.id = row.id
         /\ Copied.active = row.active /\ Copied.access = row.access
         /\ Copied.refresh = row.refresh /\ Copied.expires = row.expires
BY Constants DEF Copied, Calls, Rows

LEMMA GivenType ==
  ASSUME NEW c \in Calls
  PROVE  Given(c) \in Calls /\ Given(c).phase = "given" /\ Given(c).access = c.access
         /\ Given(c).refresh = NoRefresh
BY RestingTypes DEF Given, Idle, Calls

LEMMA RefusedType ==
  ASSUME NEW c \in Calls
  PROVE  /\ Refused(c) \in Calls /\ Refused(c).phase = "refused" /\ Refused(c).id = c.id
         /\ Refused(c).active = c.active /\ Refused(c).refresh = NoRefresh
BY RestingTypes DEF Refused, Idle, Calls

Traded(c) == [c EXCEPT !.phase = "trading", !.access = NoTime, !.expires = NoTime, !.at = now]

LEMMA TradedType ==
  ASSUME NEW c \in Calls, now \in 0..MaxTime
  PROVE  /\ Traded(c) \in Calls /\ Traded(c).phase = "trading" /\ Traded(c).at = now
         /\ Traded(c).id = c.id /\ Traded(c).refresh = c.refresh
<1>1. now \in NoTime..MaxTime
  BY LifetimeAssumption DEF NoTime
<1>2. NoTime \in Moments
  BY Constants
<1> QED
  BY <1>1, <1>2 DEF Traded, Calls

LEMMA VerdictCases ==
  ASSUME NEW c
  PROVE  \/ Fresh(c) /\ Verdict(c) = Given(c)
         \/ ~Fresh(c) /\ c.refresh = NoRefresh /\ Verdict(c) = Refused(c)
         \/ ~Fresh(c) /\ c.refresh # NoRefresh /\ Verdict(c) = Traded(c)
BY DEF Verdict, Traded

LEMMA RenewedType ==
  ASSUME NEW c \in Calls, NEW l \in Lifetimes, NEW r \in Refreshes,
         c.at \in 0..now, now \in 0..MaxTime
  PROVE  /\ Renewed(c, l, r) \in Calls
         /\ Renewed(c, l, r).phase = "answered" /\ Renewed(c, l, r).id = c.id
         /\ Renewed(c, l, r).access = now + l /\ Renewed(c, l, r).expires = c.at + l
         /\ Renewed(c, l, r).refresh = r /\ Renewed(c, l, r).at = now
<1>1. c.at \in 0..MaxTime /\ now \in NoTime..MaxTime
  BY LifetimeAssumption DEF NoTime
<1>2. now + l \in Moments /\ c.at + l \in Moments
  BY <1>1, MomentsAhead
<1> QED
  BY <1>1, <1>2 DEF Renewed, Calls

LEMMA FoundType ==
  ASSUME row \in Rows, NEW w \in Workers, worker \in [Workers -> Calls]
  PROVE  Found(w) \in Calls /\ (Found(w) = worker[w] \/ Found(w) = Copied)
BY CopiedType DEF Found

LEMMA StoredType ==
  ASSUME row \in Rows, NEW c \in Calls
  PROVE  /\ Stored(c) \in Rows /\ Stored(c).id = row.id /\ Stored(c).active = row.active
         /\ Stored(c).access = c.access /\ Stored(c).expires = c.expires
         /\ Stored(c).refresh = IF c.refresh = NoRefresh THEN row.refresh ELSE c.refresh
BY DEF Stored, Rows, Calls

LEMMA UpsertedType ==
  ASSUME row \in Rows, signin \in SignIns, signins \in 0..MaxSignIns
  PROVE  /\ Upserted \in Rows /\ Upserted.access = signin.access
         /\ Upserted.refresh \in {signin.refresh, row.refresh}
         /\ Upserted.expires \in {signin.expires, row.expires}
         /\ signin.id = NoRow => Upserted.active /\ Upserted.expires = signin.expires
         /\ signin.id # NoRow => /\ Upserted.id = row.id
                                 /\ Upserted.active = (row.active \/ ~signin.active)
         /\ signin.expires # NoTime => Upserted.expires = signin.expires
<1>1. CASE signin.id = NoRow
  BY <1>1 DEF Upserted, Rows, SignIns
<1>2. CASE signin.id # NoRow
  <2> DEFINE a == IF signin.active THEN row.active ELSE TRUE
  <2>1. a \in BOOLEAN /\ a = (row.active \/ ~signin.active)
    BY DEF Rows, SignIns
  <2> QED
    BY <1>2, <2>1 DEF Upserted, Rows, SignIns
<1> QED
  BY <1>1, <1>2

LEMMA DisturbedType ==
  ASSUME signin \in SignIns
  PROVE  /\ Disturbed \in SignIns /\ Disturbed.phase = signin.phase /\ Disturbed.id = signin.id
         /\ Disturbed.at = signin.at /\ Disturbed.access = signin.access
         /\ Disturbed.refresh = signin.refresh /\ Disturbed.expires = signin.expires
         /\ ~Disturbed.undisturbed /\ Disturbed.active = signin.active
BY DEF Disturbed, SignIns

-----------------------------------------------------------------------------
(* Types.                                                                  *)

TypeInv == TypeOK /\ Past

\* A step that changes one call only.
OneCall(w, c) ==
  /\ worker' = [worker EXCEPT ![w] = c]
  /\ UNCHANGED <<now, live, issued, row, signin, signins, clean, gone>>

LEMMA OneCallType ==
  ASSUME TypeInv, NEW w \in Workers, NEW c \in Calls, OneCall(w, c),
         c.refresh <= issued, c.phase \in Waiting => c.at \in 0..now
  PROVE  TypeInv'
<1>1. TypeOK'
  BY DEF OneCall, TypeInv, TypeOK
<1>2. Past'
  <2>1. \A v \in Workers : worker'[v] = IF v = w THEN c ELSE worker[v]
    BY DEF OneCall, TypeInv, TypeOK
  <2> QED
    BY <2>1 DEF OneCall, TypeInv, Past
<1> QED
  BY <1>1, <1>2 DEF TypeInv

LEMMA InitTypeInv == Init => TypeInv
<1> SUFFICES ASSUME Init PROVE TypeInv
  OBVIOUS
<1>1. TypeOK
  <2>1. worker \in [Workers -> Calls]
    BY RestingTypes DEF Init
  <2>2. now \in 0..MaxTime /\ issued \in 0..MaxTokens /\ signins \in 0..MaxSignIns
    BY LifetimeAssumption DEF Init
  <2> QED
    BY <2>1, <2>2, RestingTypes DEF Init, TypeOK
<1>2. Past
  BY DEF Init, Past, Idle, NoSignIn, Absent, Waiting, NoRefresh
<1> QED
  BY <1>1, <1>2 DEF TypeInv

\* What the token endpoint of the provider does to the tokens that are out.
LEMMA GrantedType ==
  ASSUME issued \in 0..MaxTokens, live \subseteq 1..issued,
         NEW r \in Refreshes, Granted(r)
  PROVE  /\ issued' \in 0..MaxTokens /\ live' \subseteq 1..issued' /\ issued <= issued'
         /\ r <= issued' /\ live \subseteq live'
         /\ \A x \in 0..issued : x \in live' <=> x \in live
         /\ r # NoRefresh => r \in live'
<1>1. issued \in Nat /\ MaxTokens \in Nat /\ NoRefresh = 0 /\ \A x \in live : x \in 1..issued
  BY LifetimeAssumption DEF NoRefresh
<1>2. CASE r = NoRefresh /\ UNCHANGED <<live, issued>>
  BY <1>1, <1>2
<1>3. CASE r = issued + 1 /\ r <= MaxTokens /\ issued' = r /\ live' = live \cup {r}
  BY <1>1, <1>3
<1> QED
  BY <1>2, <1>3 DEF Granted

LEMMA TypeStep == TypeInv /\ [Next]_vars => TypeInv'
<1> SUFFICES ASSUME TypeInv, [Next]_vars PROVE TypeInv'
  OBVIOUS
<1> USE DEF TypeInv
<1>1. CASE UNCHANGED vars
  BY <1>1 DEF vars, TypeOK, Past
<1>2. CASE Tick
  <2>1. now' \in 0..MaxTime /\ now <= now'
    BY <1>2, LifetimeAssumption DEF Tick, TypeOK
  <2>2. TypeOK'
    BY <1>2, <2>1 DEF Tick, TypeOK
  <2>3. \A t \in 0..now : t \in 0..now'
    BY <2>1 DEF TypeOK
  <2>4. Past'
    BY <1>2, <2>3 DEF Tick, Past
  <2> QED
    BY <2>2, <2>4
<1>3. CASE Revoke
  BY <1>3 DEF Revoke, TypeOK, Past
<1>4. CASE SignIn
  <2>1. PICK l \in Lifetimes, r \in Refreshes : \E e \in Expiries(now + l) :
          /\ Granted(r)
          /\ signin' = [phase |-> "read", access |-> now + l, refresh |-> r,
                        expires |-> e, at |-> now, id |-> row.id,
                        active |-> row.active, undisturbed |-> TRUE]
    BY <1>4 DEF SignIn
  <2>2. PICK e \in Expiries(now + l) :
          /\ Granted(r)
          /\ signin' = [phase |-> "read", access |-> now + l, refresh |-> r,
                        expires |-> e, at |-> now, id |-> row.id,
                        active |-> row.active, undisturbed |-> TRUE]
    BY <2>1
  <2>3. now + l \in Moments /\ e \in Moments /\ now \in NoTime..MaxTime
    <3>1. now + l \in Moments
      BY MomentsAhead DEF TypeOK
    <3> QED
      BY <3>1, Constants DEF TypeOK, Expiries
  <2>4. signin' \in SignIns
    BY <2>2, <2>3 DEF SignIns, TypeOK, Rows
  <2>5. /\ issued' \in 0..MaxTokens /\ live' \subseteq 1..issued' /\ issued <= issued'
        /\ r <= issued'
    BY <2>2, GrantedType DEF TypeOK
  <2>6. TypeOK'
    <3>1. signins' \in 0..MaxSignIns
      BY <1>4, LifetimeAssumption DEF SignIn, TypeOK
    <3> QED
      BY <1>4, <2>4, <2>5, <3>1 DEF SignIn, TypeOK
  <2>7. Past'
    <3>1. row.refresh \in Nat /\ issued \in Nat /\ issued' \in Nat
          /\ \A w \in Workers : worker[w].refresh \in Nat
      BY <2>5, LifetimeAssumption DEF TypeOK, Rows, Calls, Refreshes, NoRefresh
    <3>2. signin'.at \in 0..now /\ signin'.refresh = r
      BY <2>2 DEF TypeOK
    <3> QED
      BY <1>4, <2>5, <3>1, <3>2 DEF SignIn, Past
  <2> QED
    BY <2>6, <2>7
<1>5. CASE Commit
  <2>1. Upserted \in Rows /\ Upserted.refresh \in {signin.refresh, row.refresh}
    BY UpsertedType DEF TypeOK
  <2>2. row' \in Rows /\ row'.refresh \in {signin.refresh, row.refresh} /\ clean' \in BOOLEAN
    BY <1>5, <2>1 DEF Commit, TypeOK
  <2>3. TypeOK'
    BY <1>5, <2>2, RestingTypes DEF Commit, TypeOK
  <2>4. Past'
    <3>1. NoSignIn.phase # "read" /\ NoSignIn.refresh = 0 /\ issued \in Nat
      BY DEF NoSignIn, NoRefresh, TypeOK
    <3> QED
      BY <1>5, <2>2, <3>1 DEF Commit, Past
  <2> QED
    BY <2>3, <2>4
<1>6. CASE Disconnect
  <2>1. Absent.refresh = 0 /\ issued \in Nat
    BY DEF Absent, NoRefresh, TypeOK
  <2>2. TypeOK'
    BY <1>6, RestingTypes DEF Disconnect, TypeOK
  <2> QED
    BY <1>6, <2>1, <2>2 DEF Disconnect, Past
<1>7. ASSUME NEW w \in Workers, Load(w) PROVE TypeInv'
  <2>1. OneCall(w, Copied)
    BY <1>7 DEF Load, OneCall
  <2>2. Copied \in Calls /\ Copied.phase \notin Waiting /\ Copied.refresh <= issued
    BY CopiedType DEF TypeOK, Past, Waiting
  <2> QED
    BY <2>1, <2>2, OneCallType
<1>8. ASSUME NEW w \in Workers, Check(w) PROVE TypeInv'
  <2>1. CASE ~row.active
    <3>1. OneCall(w, Idle)
      BY <1>8, <2>1 DEF Check, OneCall
    <3>2. Idle.phase \notin Waiting /\ Idle.refresh <= issued
      BY DEF Idle, Waiting, TypeOK, NoRefresh
    <3> QED
      BY <3>1, <3>2, RestingTypes, OneCallType
  <2>2. CASE row.active
    <3> DEFINE c == Found(w)
    <3>1. OneCall(w, Verdict(c))
      BY <1>8, <2>2 DEF Check, OneCall
    <3>2. c \in Calls /\ c.refresh <= issued
      BY FoundType, CopiedType DEF TypeOK, Past
    <3>3. now \in 0..now /\ 0 <= issued /\ now \in 0..MaxTime
      BY DEF TypeOK
    <3> HIDE DEF c
    <3>4. /\ Verdict(c) \in Calls /\ Verdict(c).refresh <= issued
          /\ Verdict(c).phase \in Waiting => Verdict(c).at \in 0..now
      <4>1. CASE Verdict(c) = Given(c)
        BY <3>2, <3>3, <4>1, GivenType DEF NoRefresh, Waiting
      <4>2. CASE Verdict(c) = Refused(c)
        BY <3>2, <3>3, <4>2, RefusedType DEF NoRefresh, Waiting
      <4>3. CASE Verdict(c) = Traded(c)
        BY <3>2, <3>3, <4>3, TradedType
      <4> QED
        BY <4>1, <4>2, <4>3, VerdictCases
    <3> QED
      BY <3>1, <3>4, OneCallType
  <2> QED
    BY <2>1, <2>2
<1>9. ASSUME NEW w \in Workers, Trade(w) PROVE TypeInv'
  <2>1. CASE worker[w].refresh \in live
    <3>1. PICK l \in Lifetimes, r \in Refreshes :
            Granted(r) /\ worker' = [worker EXCEPT ![w] = Renewed(worker[w], l, r)]
      BY <1>9, <2>1 DEF Trade
    <3> DEFINE c == Renewed(worker[w], l, r)
    <3>2. worker[w] \in Calls /\ worker[w].at \in 0..now /\ now \in 0..MaxTime
      BY <1>9 DEF TypeOK, Past, Trade, Waiting
    <3>3. c \in Calls /\ c.refresh = r /\ c.at = now
      BY <3>2, RenewedType
    <3> HIDE DEF c
    <3>4. /\ issued' \in 0..MaxTokens /\ live' \subseteq 1..issued' /\ issued <= issued'
          /\ r <= issued'
      BY <3>1, GrantedType DEF TypeOK
    <3>5. TypeOK'
      BY <1>9, <3>1, <3>3, <3>4 DEF Trade, TypeOK, c
    <3>6. \A v \in Workers : worker'[v] = IF v = w THEN c ELSE worker[v]
      BY <3>1 DEF TypeOK, c
    <3>7. row.refresh \in Nat /\ signin.refresh \in Nat /\ issued \in Nat /\ issued' \in Nat
          /\ \A v \in Workers : worker[v].refresh \in Nat
      BY <3>4, LifetimeAssumption DEF TypeOK, Rows, Calls, SignIns, Refreshes, NoRefresh
    <3>8. Past'
      BY <1>9, <3>2, <3>3, <3>4, <3>6, <3>7 DEF Trade, Past
    <3> QED
      BY <3>5, <3>8
  <2>2. CASE worker[w].refresh \notin live
    <3>1. OneCall(w, Refused(worker[w]))
      BY <1>9, <2>2 DEF Trade, OneCall
    <3>2. /\ Refused(worker[w]) \in Calls /\ Refused(worker[w]).refresh <= issued
          /\ Refused(worker[w]).phase \notin Waiting
      BY RefusedType DEF TypeOK, Waiting, NoRefresh
    <3> QED
      BY <3>1, <3>2, OneCallType
  <2> QED
    BY <2>1, <2>2
<1>10. ASSUME NEW w \in Workers, Store(w) PROVE TypeInv'
  <2>1. worker[w] \in Calls
    BY DEF TypeOK
  <2>2. /\ worker' \in [Workers -> Calls]
        /\ \A v \in Workers : worker'[v] # worker[v] =>
             worker'[v].phase \notin Waiting /\ worker'[v].refresh = 0
    <3>1. /\ Given(worker[w]) \in Calls /\ Given(worker[w]).phase \notin Waiting
          /\ Given(worker[w]).refresh = 0
      BY <2>1, GivenType DEF Waiting, NoRefresh
    <3>2. Idle \in Calls /\ Idle.phase \notin Waiting /\ Idle.refresh = 0
      BY RestingTypes DEF Idle, Waiting, NoRefresh
    <3>3. PICK c \in {Given(worker[w]), Idle} : worker' = [worker EXCEPT ![w] = c]
      BY <1>10 DEF Store
    <3> QED
      BY <3>1, <3>2, <3>3 DEF TypeOK
  <2>3. /\ row' \in Rows /\ row'.refresh <= issued
    BY <1>10, <2>1, StoredType DEF Store, TypeOK, Past
  <2>4. /\ signin' \in SignIns /\ signin'.phase = signin.phase /\ signin'.at = signin.at
        /\ signin'.refresh = signin.refresh
    BY <1>10, DisturbedType DEF Store, TypeOK
  <2>5. TypeOK'
    BY <1>10, <2>2, <2>3, <2>4 DEF Store, TypeOK
  <2>6. Past'
    BY <1>10, <2>2, <2>3, <2>4 DEF Store, TypeOK, Past
  <2> QED
    BY <2>5, <2>6
<1>11. ASSUME NEW w \in Workers, Deactivate(w) PROVE TypeInv'
  <2>1. Idle \in Calls /\ Idle.phase \notin Waiting /\ Idle.refresh = 0
    BY RestingTypes DEF Idle, Waiting, NoRefresh
  <2>2. /\ worker' \in [Workers -> Calls]
        /\ \A v \in Workers : worker'[v] # worker[v] =>
             worker'[v].phase \notin Waiting /\ worker'[v].refresh = 0
    BY <1>11, <2>1 DEF Deactivate, TypeOK
  <2>3. row' \in Rows /\ row'.refresh = row.refresh
    BY <1>11 DEF Deactivate, TypeOK, Rows
  <2>4. /\ signin' \in SignIns /\ signin'.phase = signin.phase /\ signin'.at = signin.at
        /\ signin'.refresh = signin.refresh
    BY <1>11, DisturbedType DEF Deactivate, TypeOK
  <2>5. TypeOK'
    BY <1>11, <2>2, <2>3, <2>4 DEF Deactivate, TypeOK
  <2>6. Past'
    BY <1>11, <2>2, <2>3, <2>4 DEF Deactivate, TypeOK, Past
  <2> QED
    BY <2>5, <2>6
<1>12. ASSUME NEW w \in Workers, Fail(w) \/ Use(w) PROVE TypeInv'
  <2>1. OneCall(w, Idle)
    BY <1>12 DEF Fail, Use, OneCall
  <2>2. Idle.phase \notin Waiting /\ Idle.refresh <= issued
    BY DEF Idle, Waiting, TypeOK, NoRefresh
  <2> QED
    BY <2>1, <2>2, RestingTypes, OneCallType
<1> QED
  BY <1>1, <1>2, <1>3, <1>4, <1>5, <1>6, <1>7, <1>8, <1>9, <1>10, <1>11, <1>12 DEF Next

\* Every variable keeps its type: a moment is never computed from one that
\* includes a lifetime already, and no counter passes its bound.
THEOREM TypeCorrect == Spec => []TypeOK
<1>1. TypeInv => TypeOK
  BY DEF TypeInv
<1> QED
  BY <1>1, InitTypeInv, TypeStep, PTL DEF Spec

-----------------------------------------------------------------------------
(* A returned token works.                                                 *)

Covered(c) == c.expires # NoTime => c.expires <= c.access + Margin

\* A stored expiry is never further ahead than some lifetime, which is what
\* lets a sign-in put a new token under it.
ExpiryIsNear ==
  row.expires # NoTime => \E l \in Lifetimes : row.expires <= now + l

CopiesCovered ==
  Covered(row) /\ \A w \in Workers : worker[w].phase = "loaded" => Covered(worker[w])

AnswersAreRecent ==
  \A w \in Workers : worker[w].phase = "answered" =>
    /\ now <= worker[w].at + Prompt
    /\ \E l \in Lifetimes : worker[w].access = worker[w].at + l
    /\ worker[w].expires <= worker[w].access

SignInIsRecent ==
  signin.phase = "read" =>
    /\ now <= signin.at + Prompt
    /\ \E l \in Lifetimes : signin.access = signin.at + l
    /\ signin.expires \in {signin.access, NoTime}

Timely == ExpiryIsNear /\ CopiesCovered /\ AnswersAreRecent /\ SignInIsRecent

LEMMA InitTimely == Init => Timely
BY DEF Init, Timely, ExpiryIsNear, CopiesCovered, AnswersAreRecent, SignInIsRecent,
       Covered, Idle, NoSignIn, Absent

\* The numbers there are.
LEMMA Numbers ==
  ASSUME TypeOK
  PROVE  /\ now \in Nat /\ Margin \in Nat /\ Prompt \in Nat
         /\ \A l \in Lifetimes : l \in Nat
         /\ row.access \in Int /\ row.expires \in Int
         /\ signin.access \in Int /\ signin.expires \in Int /\ signin.at \in Int
         /\ \A w \in Workers : /\ worker[w].access \in Int /\ worker[w].expires \in Int
                               /\ worker[w].at \in Int
<1>1. /\ row \in Rows /\ signin \in SignIns /\ \A w \in Workers : worker[w] \in Calls
  BY DEF TypeOK
<1>2. NoTime..MaxTime \subseteq Int
  OBVIOUS
<1>3. now \in Nat /\ Margin \in Nat /\ Prompt \in Nat /\ \A l \in Lifetimes : l \in Nat
  BY LifetimeAssumption DEF TypeOK
<1> QED
  BY <1>1, <1>2, <1>3, MomentsAreIntegers DEF Rows, SignIns, Calls

LEMMA TimelyStep == TypeInv /\ Timely /\ [Next]_vars => Timely'
<1> SUFFICES ASSUME TypeInv, Timely, [Next]_vars PROVE Timely'
  OBVIOUS
<1> USE DEF TypeInv
<1>n. /\ now \in Nat /\ Margin \in Nat /\ Prompt \in Nat
      /\ \A l \in Lifetimes : l \in Nat
      /\ row.access \in Int /\ row.expires \in Int
      /\ signin.access \in Int /\ signin.expires \in Int /\ signin.at \in Int
      /\ \A w \in Workers : /\ worker[w].access \in Int /\ worker[w].expires \in Int
                            /\ worker[w].at \in Int
  BY Numbers
\* Most steps of a call leave row, clock and sign-in alone.
<1>o. ASSUME NEW w \in Workers, NEW c, UNCHANGED <<now, row, signin>>,
             worker' = [worker EXCEPT ![w] = c],
             c.phase = "loaded" => Covered(c),
             c.phase # "answered"
      PROVE  Timely'
  <2>1. \A v \in Workers : worker'[v] = IF v = w THEN c ELSE worker[v]
    BY <1>o DEF TypeOK
  <2>2. ExpiryIsNear' /\ SignInIsRecent'
    BY <1>o DEF Timely, ExpiryIsNear, SignInIsRecent
  <2>3. CopiesCovered'
    BY <1>o, <2>1 DEF Timely, CopiesCovered, Covered
  <2>4. AnswersAreRecent'
    BY <1>o, <2>1 DEF Timely, AnswersAreRecent
  <2> QED
    BY <2>2, <2>3, <2>4 DEF Timely
<1>i. Idle.phase = "idle"
  BY DEF Idle
<1>1. CASE UNCHANGED vars
  BY <1>1 DEF vars, Timely, ExpiryIsNear, CopiesCovered, AnswersAreRecent, SignInIsRecent, Covered
<1>2. CASE Tick
  <2>1. now' = now + 1
    BY <1>2 DEF Tick
  <2>2. ExpiryIsNear'
    BY <1>2, <1>n, <2>1 DEF Tick, Timely, ExpiryIsNear
  <2>3. CopiesCovered'
    BY <1>2 DEF Tick, Timely, CopiesCovered, Covered
  <2>4. AnswersAreRecent'
    BY <1>2, <1>n, <2>1 DEF Tick, Timely, AnswersAreRecent
  <2>5. SignInIsRecent'
    BY <1>2, <1>n, <2>1 DEF Tick, Timely, SignInIsRecent
  <2> QED
    BY <2>2, <2>3, <2>4, <2>5 DEF Timely
<1>3. CASE Revoke
  BY <1>3 DEF Revoke, Timely, ExpiryIsNear, CopiesCovered, AnswersAreRecent, SignInIsRecent, Covered
<1>4. CASE SignIn
  <2>1. PICK l \in Lifetimes, r \in Refreshes : \E e \in Expiries(now + l) :
          signin' = [phase |-> "read", access |-> now + l, refresh |-> r,
                     expires |-> e, at |-> now, id |-> row.id,
                     active |-> row.active, undisturbed |-> TRUE]
    BY <1>4 DEF SignIn
  <2>2. /\ signin'.at = now /\ signin'.access = now + l
        /\ signin'.expires \in {signin'.access, NoTime}
    BY <2>1 DEF Expiries
  <2>3. SignInIsRecent'
    <3>1. now' = now /\ now <= now + Prompt
      BY <1>4, <1>n DEF SignIn
    <3> QED
      BY <2>2, <3>1 DEF SignInIsRecent
  <2>4. ExpiryIsNear' /\ CopiesCovered' /\ AnswersAreRecent'
    BY <1>4 DEF SignIn, Timely, ExpiryIsNear, CopiesCovered, AnswersAreRecent, Covered
  <2> QED
    BY <2>3, <2>4 DEF Timely
<1>5. CASE Commit
  <2>1. SignInIsRecent'
    BY <1>5 DEF Commit, SignInIsRecent, NoSignIn
  <2>2. AnswersAreRecent'
    BY <1>5 DEF Commit, Timely, AnswersAreRecent
  <2>3. PICK l \in Lifetimes : signin.access = signin.at + l
    BY <1>5 DEF Commit, Timely, SignInIsRecent
  <2>4. now <= signin.at + Prompt /\ signin.at <= now
    BY <1>5 DEF Commit, Timely, SignInIsRecent, Past, TypeOK
  <2>5. CASE row' = row
    BY <1>5, <2>1, <2>2, <2>5 DEF Commit, Timely, ExpiryIsNear, CopiesCovered, Covered
  <2>6. CASE row' = Upserted
    <3>1. /\ row'.access = signin.access
          /\ \/ row'.expires = signin.access
             \/ row'.expires = NoTime
             \/ row'.expires = row.expires
      BY <1>5, <2>6, UpsertedType DEF Commit, Timely, SignInIsRecent, TypeOK
    <3>2. CASE row'.expires = signin.access
      <4>1. row'.expires <= now + l /\ row'.expires <= row'.access + Margin
        BY <1>n, <2>3, <2>4, <3>1, <3>2
      <4>2. ExpiryIsNear'
        BY <1>5, <4>1 DEF Commit, ExpiryIsNear
      <4>3. CopiesCovered'
        BY <1>5, <4>1 DEF Commit, Timely, CopiesCovered, Covered
      <4> QED
        BY <2>1, <2>2, <4>2, <4>3 DEF Timely
    <3>3. CASE row'.expires = NoTime
      BY <1>5, <2>1, <2>2, <3>3 DEF Commit, Timely, ExpiryIsNear, CopiesCovered, Covered
    <3>4. CASE row'.expires = row.expires /\ row.expires # NoTime
      <4>1. PICK k \in Lifetimes : row.expires <= now + k
        BY <3>4 DEF Timely, ExpiryIsNear
      <4>2. k - l + Prompt <= Margin
        BY LifetimeAssumption
      <4>3. row'.expires <= row'.access + Margin
        BY <1>n, <2>3, <2>4, <3>1, <3>4, <4>1, <4>2
      <4>4. ExpiryIsNear'
        BY <1>5, <3>4, <4>1 DEF Commit, ExpiryIsNear
      <4>5. CopiesCovered'
        BY <1>5, <4>3 DEF Commit, Timely, CopiesCovered, Covered
      <4> QED
        BY <2>1, <2>2, <4>4, <4>5 DEF Timely
    <3> QED
      BY <3>1, <3>2, <3>3, <3>4
  <2> QED
    BY <1>5, <2>5, <2>6 DEF Commit
<1>6. CASE Disconnect
  BY <1>6 DEF Disconnect, Absent, Timely, ExpiryIsNear, CopiesCovered, AnswersAreRecent,
              SignInIsRecent, Covered
<1>7. ASSUME NEW w \in Workers, Load(w) PROVE Timely'
  <2>1. Copied.phase = "loaded" /\ Covered(Copied)
    BY CopiedType DEF TypeOK, Timely, CopiesCovered, Covered
  <2>2. worker' = [worker EXCEPT ![w] = Copied] /\ UNCHANGED <<now, row, signin>>
    BY <1>7 DEF Load
  <2> QED
    BY <1>o, <2>1, <2>2
<1>8. ASSUME NEW w \in Workers, Check(w) PROVE Timely'
  <2>1. PICK c : /\ worker' = [worker EXCEPT ![w] = c] /\ UNCHANGED <<now, row, signin>>
                 /\ c = Idle \/ c = Verdict(Found(w))
    BY <1>8 DEF Check
  <2>2. c.phase \notin {"loaded", "answered"}
    <3>1. CASE c = Idle
      BY <1>i, <3>1
    <3>2. CASE c = Verdict(Found(w))
      <4>1. Found(w) \in Calls /\ now \in 0..MaxTime
        BY FoundType DEF TypeOK
      <4> QED
        BY <3>2, <4>1, VerdictCases, GivenType, RefusedType, TradedType
    <3> QED
      BY <2>1, <3>1, <3>2
  <2> QED
    BY <1>o, <2>1, <2>2
<1>9. ASSUME NEW w \in Workers, Trade(w) PROVE Timely'
  <2>0. worker[w] \in Calls /\ worker[w].at \in 0..now /\ now \in 0..MaxTime
    BY <1>9 DEF TypeOK, Past, Trade, Waiting
  <2>1. CASE worker[w].refresh \notin live
    <3>1. worker' = [worker EXCEPT ![w] = Refused(worker[w])] /\ UNCHANGED <<now, row, signin>>
      BY <1>9, <2>1 DEF Trade
    <3>2. Refused(worker[w]).phase = "refused"
      BY <2>0, RefusedType
    <3> QED
      BY <1>o, <3>1, <3>2
  <2>2. CASE worker[w].refresh \in live
    <3>1. PICK l \in Lifetimes, r \in Refreshes :
            worker' = [worker EXCEPT ![w] = Renewed(worker[w], l, r)]
      BY <1>9, <2>2 DEF Trade
    <3> DEFINE c == Renewed(worker[w], l, r)
    <3>2. /\ c.phase = "answered" /\ c.at = now /\ c.access = now + l
          /\ c.expires = worker[w].at + l
      BY <2>0, RenewedType
    <3> HIDE DEF c
    <3>3. \A v \in Workers : worker'[v] = IF v = w THEN c ELSE worker[v]
      BY <3>1 DEF TypeOK, c
    <3>4. now <= c.at + Prompt /\ c.expires <= c.access
      BY <1>n, <2>0, <3>2
    <3>5. AnswersAreRecent'
      BY <1>9, <3>2, <3>3, <3>4 DEF Trade, Timely, AnswersAreRecent
    <3>6. ExpiryIsNear' /\ SignInIsRecent'
      BY <1>9 DEF Trade, Timely, ExpiryIsNear, SignInIsRecent
    <3>7. CopiesCovered'
      BY <1>9, <3>2, <3>3 DEF Trade, Timely, CopiesCovered, Covered
    <3> QED
      BY <3>5, <3>6, <3>7 DEF Timely
  <2> QED
    BY <2>1, <2>2
<1>10. ASSUME NEW w \in Workers, Store(w) PROVE Timely'
  <2>1. worker[w] \in Calls
    BY DEF TypeOK
  <2>2. CASE row.id # worker[w].id
    <3>1. worker' = [worker EXCEPT ![w] = Idle] /\ UNCHANGED <<now, row, signin>>
      BY <1>10, <2>2 DEF Store
    <3> QED
      BY <1>o, <1>i, <3>1
  <2>3. CASE row.id = worker[w].id
    <3>1. /\ row' = Stored(worker[w]) /\ signin' = Disturbed /\ now' = now
          /\ worker' = [worker EXCEPT ![w] = Given(worker[w])]
      BY <1>10, <2>3 DEF Store
    <3>2. \A v \in Workers : \/ worker'[v] = worker[v]
                             \/ worker'[v].phase = "given"
      BY <2>1, <3>1, GivenType DEF TypeOK
    <3>3. PICK l \in Lifetimes : worker[w].access = worker[w].at + l
      BY <1>10 DEF Store, Timely, AnswersAreRecent
    <3>4. worker[w].expires <= worker[w].access /\ worker[w].at <= now
      BY <1>10 DEF Store, Timely, AnswersAreRecent, Past, Waiting, TypeOK
    <3>5. row'.access = worker[w].access /\ row'.expires = worker[w].expires
      BY <2>1, <3>1, StoredType DEF TypeOK
    <3>6. ExpiryIsNear'
      <4>1. row'.expires <= now + l
        BY <1>n, <3>3, <3>4, <3>5
      <4> QED
        BY <3>1, <4>1 DEF ExpiryIsNear
    <3>7. CopiesCovered'
      <4>1. row'.expires <= row'.access + Margin
        BY <1>n, <3>4, <3>5
      <4> QED
        BY <3>2, <4>1 DEF Timely, CopiesCovered, Covered
    <3>8. AnswersAreRecent'
      BY <3>1, <3>2 DEF Timely, AnswersAreRecent
    <3>9. SignInIsRecent'
      BY <3>1, DisturbedType DEF TypeOK, Timely, SignInIsRecent
    <3> QED
      BY <3>6, <3>7, <3>8, <3>9 DEF Timely
  <2> QED
    BY <2>2, <2>3
<1>11. ASSUME NEW w \in Workers, Deactivate(w) PROVE Timely'
  <2>1. \A v \in Workers : \/ worker'[v] = worker[v]
                           \/ worker'[v].phase = "idle"
    BY <1>11, <1>i DEF Deactivate, TypeOK
  <2>2. row'.access = row.access /\ row'.expires = row.expires /\ now' = now
    BY <1>11 DEF Deactivate, TypeOK, Rows
  <2>3. /\ signin'.phase = signin.phase /\ signin'.at = signin.at
        /\ signin'.access = signin.access /\ signin'.expires = signin.expires
    BY <1>11, DisturbedType DEF Deactivate, TypeOK
  <2>4. ExpiryIsNear' /\ SignInIsRecent'
    BY <2>2, <2>3 DEF Timely, ExpiryIsNear, SignInIsRecent
  <2>5. CopiesCovered'
    BY <2>1, <2>2 DEF Timely, CopiesCovered, Covered
  <2>6. AnswersAreRecent'
    BY <2>1, <2>2 DEF Timely, AnswersAreRecent
  <2> QED
    BY <2>4, <2>5, <2>6 DEF Timely
<1>12. ASSUME NEW w \in Workers, Fail(w) \/ Use(w) PROVE Timely'
  <2>1. worker' = [worker EXCEPT ![w] = Idle] /\ UNCHANGED <<now, row, signin>>
    BY <1>12 DEF Fail, Use
  <2> QED
    BY <1>o, <1>i, <2>1
<1> QED
  BY <1>1, <1>2, <1>3, <1>4, <1>5, <1>6, <1>7, <1>8, <1>9, <1>10, <1>11, <1>12 DEF Next

\* ReturnedTokenWorks: a token is given as it was copied, under an expiry at
\* most a margin too late, or as it was answered, within its lifetime.
THEOREM GivenTokensWork == Spec => ReturnedTokenWorks
<1>1. ASSUME TypeInv, Timely, [Next]_vars
      PROVE  [\A w \in Workers : worker[w].phase # "given" /\ worker'[w].phase = "given"
                 => now < worker'[w].access]_vars
  <2>1. SUFFICES ASSUME NEW w \in Workers, worker[w].phase # "given", worker'[w].phase = "given"
                 PROVE  now < worker'[w].access
    OBVIOUS
  <2>n. /\ now \in Nat /\ Margin \in Nat /\ Prompt \in Nat
        /\ \A l \in Lifetimes : l \in Nat
        /\ row.access \in Int /\ row.expires \in Int
        /\ worker[w].access \in Int /\ worker[w].expires \in Int /\ worker[w].at \in Int
    BY <1>1, Numbers DEF TypeInv
  <2>2. \E v \in Workers : Check(v) \/ Store(v)
    <3>1. Idle.phase # "given" /\ Copied.phase # "given"
      BY DEF Idle, Copied
    <3>2. \A v \in Workers, l \in Lifetimes, r \in Refreshes :
             worker[v].phase = "trading" =>
               Renewed(worker[v], l, r).phase # "given" /\ Refused(worker[v]).phase # "given"
      <4>1. SUFFICES ASSUME NEW v \in Workers, NEW l \in Lifetimes, NEW r \in Refreshes,
                            worker[v].phase = "trading"
                     PROVE  Renewed(worker[v], l, r).phase # "given"
                            /\ Refused(worker[v]).phase # "given"
        OBVIOUS
      <4>2. worker[v] \in Calls /\ worker[v].at \in 0..now /\ now \in 0..MaxTime
        BY <1>1, <4>1 DEF TypeInv, TypeOK, Past, Waiting
      <4> QED
        BY <4>2, RenewedType, RefusedType
    <3>3. worker \in [Workers -> Calls]
      BY <1>1 DEF TypeInv, TypeOK
    <3>4. worker' # worker
      BY <2>1
    <3>5. PICK v \in Workers :
             \/ Load(v) \/ Check(v) \/ Trade(v) \/ Store(v) \/ Deactivate(v) \/ Fail(v) \/ Use(v)
      BY <1>1, <3>4 DEF Next, vars, Tick, Revoke, SignIn, Commit, Disconnect
    <3>6. ~Load(v) /\ ~Deactivate(v) /\ ~Fail(v) /\ ~Use(v)
      BY <2>1, <3>1, <3>3 DEF Load, Deactivate, Fail, Use
    <3>7. ~Trade(v)
      <4>1. SUFFICES ASSUME Trade(v) PROVE FALSE
        OBVIOUS
      <4>2. CASE worker[v].refresh \in live
        <5>1. PICK l \in Lifetimes, r \in Refreshes :
                worker' = [worker EXCEPT ![v] = Renewed(worker[v], l, r)]
          BY <4>1, <4>2 DEF Trade
        <5>2. Renewed(worker[v], l, r).phase # "given"
          BY <3>2, <4>1 DEF Trade
        <5> QED
          BY <2>1, <3>3, <5>1, <5>2
      <4>3. CASE worker[v].refresh \notin live
        <5>1. worker' = [worker EXCEPT ![v] = Refused(worker[v])] /\ worker[v] \in Calls
          BY <3>3, <4>1, <4>3 DEF Trade
        <5>2. Refused(worker[v]).phase # "given"
          BY <5>1, RefusedType
        <5> QED
          BY <2>1, <3>3, <5>1, <5>2
      <4> QED
        BY <4>2, <4>3
    <3> QED
      BY <3>5, <3>6, <3>7
  <2>3. PICK v \in Workers : Check(v) \/ Store(v)
    BY <2>2
  <2>4. v = w
    BY <1>1, <2>1, <2>3 DEF Check, Store, TypeInv, TypeOK
  <2>5. CASE Check(w)
    <3>1. /\ Found(w) \in Calls /\ now \in 0..MaxTime
          /\ Found(w) = worker[w] \/ Found(w) = Copied
      BY <1>1, FoundType DEF TypeInv, TypeOK
    <3>2. worker'[w] \in {Idle, Verdict(Found(w))}
      BY <1>1, <2>5 DEF Check, TypeInv, TypeOK
    <3>3. Idle.phase # "given"
      BY DEF Idle
    <3>4. worker'[w] = Given(Found(w)) /\ Fresh(Found(w))
      BY <2>1, <3>1, <3>2, <3>3, VerdictCases, RefusedType, TradedType
    <3>5. Covered(Found(w)) /\ Found(w).expires \in Int /\ Found(w).access \in Int
      <4>1. CASE Found(w) = worker[w]
        BY <1>1, <2>5, <2>n, <4>1 DEF Timely, CopiesCovered, Check
      <4>2. CASE Found(w) = Copied
        BY <1>1, <2>n, <4>2, CopiedType DEF Timely, CopiesCovered, Covered, TypeInv, TypeOK
      <4> QED
        BY <3>1, <4>1, <4>2
    <3>6. worker'[w].access = Found(w).access
      BY <3>1, <3>4, GivenType
    <3> QED
      BY <2>n, <3>4, <3>5, <3>6 DEF Fresh, Covered
  <2>6. CASE Store(w)
    <3>1. worker[w] \in Calls /\ worker'[w] \in {Idle, Given(worker[w])}
      BY <1>1, <2>6 DEF Store, TypeInv, TypeOK
    <3>2. worker'[w].access = worker[w].access
      BY <2>1, <3>1, GivenType DEF Idle
    <3>3. PICK l \in Lifetimes : worker[w].access = worker[w].at + l
      BY <1>1, <2>6 DEF Store, Timely, AnswersAreRecent
    <3>4. now <= worker[w].at + Prompt /\ Prompt < l
      BY <1>1, <2>6, LifetimeAssumption DEF Store, Timely, AnswersAreRecent
    <3> QED
      BY <2>n, <3>2, <3>3, <3>4
  <2> QED
    BY <2>3, <2>4, <2>5, <2>6
<1> QED
  BY <1>1, InitTypeInv, TypeStep, InitTimely, TimelyStep, PTL DEF Spec, ReturnedTokenWorks

-----------------------------------------------------------------------------
(* A disconnected account stays disconnected.                              *)

\* A sign-in that found no row is the only one who can make one, and it has
\* looked since the disconnect.
NewcomersAreAlone ==
  signin.phase = "read" /\ signin.id = NoRow => row.id = NoRow /\ ~gone

Apart == NewcomersAreAlone /\ DisconnectStands

LEMMA InitApart == Init => Apart
BY DEF Init, Apart, NewcomersAreAlone, DisconnectStands, Absent, NoSignIn

LEMMA ApartStep == TypeInv /\ Apart /\ [Next]_vars => Apart'
<1> SUFFICES ASSUME TypeInv, Apart, [Next]_vars PROVE Apart'
  OBVIOUS
<1> USE DEF Apart, NewcomersAreAlone, DisconnectStands
<1>1. CASE UNCHANGED vars \/ Tick \/ Revoke
  BY <1>1 DEF vars, Tick, Revoke
<1>2. CASE SignIn
  <2>1. signin'.id = row.id /\ row' = row /\ ~gone'
    BY <1>2 DEF SignIn
  <2> QED
    BY <2>1
<1>3. CASE Commit
  <2>1. signin'.phase # "read" /\ gone' = gone
    BY <1>3 DEF Commit, NoSignIn
  <2>2. CASE signin.id = NoRow
    BY <1>3, <2>1, <2>2 DEF Commit
  <2>3. CASE signin.id # NoRow
    <3>1. row'.id = row.id
      BY <1>3, <2>3, UpsertedType DEF Commit, TypeInv, TypeOK
    <3> QED
      BY <2>1, <3>1
  <2> QED
    BY <2>2, <2>3
<1>4. CASE Disconnect
  BY <1>4 DEF Disconnect, Absent
<1>5. ASSUME NEW w \in Workers, Load(w) \/ Check(w) \/ Trade(w) \/ Fail(w) \/ Use(w) PROVE Apart'
  BY <1>5 DEF Load, Check, Trade, Fail, Use
<1>6. ASSUME NEW w \in Workers, Store(w) \/ Deactivate(w) PROVE Apart'
  <2>1. row'.id = row.id
    <3>1. CASE Store(w)
      BY <3>1, StoredType DEF Store, TypeInv, TypeOK
    <3>2. CASE Deactivate(w)
      BY <3>2 DEF Deactivate, TypeInv, TypeOK, Rows
    <3> QED
      BY <1>6, <3>1, <3>2
  <2>2. signin'.phase = signin.phase /\ signin'.id = signin.id
    BY <1>6, DisturbedType DEF Store, Deactivate, TypeInv, TypeOK
  <2>3. gone' = gone
    BY <1>6 DEF Store, Deactivate
  <2> QED
    BY <2>1, <2>2, <2>3
<1> QED
  BY <1>1, <1>2, <1>3, <1>4, <1>5, <1>6 DEF Next

\* DisconnectStands: no renewal and no sign-in under way brings back a row that
\* disconnect_integration has deleted.
THEOREM DisconnectedStaysSo == Spec => []DisconnectStands
<1>1. Apart => DisconnectStands
  BY DEF Apart
<1> QED
  BY <1>1, InitTypeInv, TypeStep, InitApart, ApartStep, PTL DEF Spec

-----------------------------------------------------------------------------
(* An account is deactivated for a reason.                                 *)

\* The refresh token of the row is none, or the provider refuses it.
Lost == row.refresh = NoRefresh \/ row.refresh \notin live

\* The row and the calls that work on it hold refresh tokens that stand and
\* fall together: they stem from grants the user withdraws at once.
OneFamily(w) ==
  worker[w].id = row.id =>
    /\ worker[w].phase = "loaded" =>
         /\ worker[w].refresh = NoRefresh <=> row.refresh = NoRefresh
         /\ worker[w].refresh \in live <=> row.refresh \in live
    /\ worker[w].phase = "trading" =>
         /\ worker[w].refresh # NoRefresh /\ row.refresh # NoRefresh
         /\ worker[w].refresh \in live <=> row.refresh \in live
    /\ worker[w].phase = "answered" =>
         /\ row.refresh # NoRefresh
         /\ worker[w].refresh # NoRefresh => (worker[w].refresh \in live <=> row.refresh \in live)
    /\ worker[w].phase = "refused" => Lost

Justified ==
  clean /\ row.id # NoRow =>
    /\ \A w \in Workers : OneFamily(w)
    /\ ~row.active => Lost

\* A sign-in that nobody disturbed would write over what it has read.
ReadingHolds ==
  signin.phase = "read" /\ signin.undisturbed /\ signin.id = row.id /\ signin.active
    => row.active

Reasons == Justified /\ ReadingHolds

LEMMA InitReasons == Init => Reasons
BY DEF Init, Reasons, Justified, ReadingHolds, NoSignIn

\* A call that moves on by itself leaves the others what they are.
LEMMA OneCallReasons ==
  ASSUME TypeInv, Reasons, NEW w \in Workers, NEW c \in Calls, OneCall(w, c),
         clean /\ row.id # NoRow /\ c.id = row.id =>
           /\ c.phase = "loaded" =>
                /\ c.refresh = NoRefresh <=> row.refresh = NoRefresh
                /\ c.refresh \in live <=> row.refresh \in live
           /\ c.phase = "trading" =>
                /\ c.refresh # NoRefresh /\ row.refresh # NoRefresh
                /\ c.refresh \in live <=> row.refresh \in live
           /\ c.phase = "refused" => Lost,
         c.phase # "answered"
  PROVE  Reasons'
<1>1. \A v \in Workers : worker'[v] = IF v = w THEN c ELSE worker[v]
  BY DEF OneCall, TypeInv, TypeOK
<1>2. ReadingHolds'
  BY DEF OneCall, Reasons, ReadingHolds
<1>3. ASSUME clean, row.id # NoRow PROVE \A v \in Workers : OneFamily(v)'
  <2>1. \A v \in Workers : OneFamily(v)
    BY <1>3 DEF Reasons, Justified
  <2> QED
    BY <1>1, <1>3, <2>1 DEF OneCall, OneFamily, Lost
<1>4. Justified'
  BY <1>3 DEF OneCall, Reasons, Justified, Lost
<1> QED
  BY <1>2, <1>4 DEF Reasons

\* Whatever the provider accepts in addition, no token of the family is new.
LEMMA NewTokensAreOthers ==
  ASSUME TypeInv, Reasons, UNCHANGED <<row, worker, clean>>,
         \A x \in 0..issued : x \in live' <=> x \in live
  PROVE  Justified'
<1>1. row.refresh \in 0..issued /\ \A w \in Workers : worker[w].refresh \in 0..issued
  BY LifetimeAssumption DEF TypeInv, TypeOK, Past, Rows, Calls, Refreshes, NoRefresh
<1>2. row.refresh \in live' <=> row.refresh \in live
  BY <1>1
<1>3. \A w \in Workers : worker[w].refresh \in live' <=> worker[w].refresh \in live
  BY <1>1
<1>4. ASSUME clean, row.id # NoRow PROVE \A v \in Workers : OneFamily(v)'
  <2>1. \A v \in Workers : OneFamily(v)
    BY <1>4 DEF Reasons, Justified
  <2> QED
    BY <1>2, <1>3, <2>1 DEF OneFamily, Lost
<1> QED
  BY <1>2, <1>4 DEF Reasons, Justified, Lost

LEMMA ReasonsStep == TypeInv /\ Apart /\ Reasons /\ [Next]_vars => Reasons'
<1> SUFFICES ASSUME TypeInv, Apart, Reasons, [Next]_vars PROVE Reasons'
  OBVIOUS
<1>i. Idle \in Calls /\ Idle.phase = "idle"
  BY RestingTypes DEF Idle
<1>t. row \in Rows /\ worker \in [Workers -> Calls] /\ signin \in SignIns
      /\ issued \in 0..MaxTokens /\ live \subseteq 1..issued
  BY DEF TypeInv, TypeOK
<1>f. ASSUME clean, row.id # NoRow
      PROVE  (\A v \in Workers : OneFamily(v)) /\ (~row.active => Lost)
  BY <1>f DEF Reasons, Justified
<1>1. CASE UNCHANGED vars \/ Tick
  BY <1>1 DEF vars, Tick, Reasons, Justified, ReadingHolds, OneFamily, Lost
<1>2. CASE Revoke
  <2>1. live' = {} /\ UNCHANGED <<row, worker, signin, clean>>
    BY <1>2 DEF Revoke
  <2>2. ReadingHolds'
    BY <2>1 DEF Reasons, ReadingHolds
  <2>3. Justified'
    BY <1>f, <2>1 DEF Justified, OneFamily, Lost
  <2> QED
    BY <2>2, <2>3 DEF Reasons
<1>3. CASE SignIn
  <2>1. PICK r \in Refreshes : Granted(r)
    BY <1>3 DEF SignIn
  <2>2. \A x \in 0..issued : x \in live' <=> x \in live
    BY <1>t, <2>1, GrantedType
  <2>3. Justified'
    BY <1>3, <2>2, NewTokensAreOthers DEF SignIn
  <2>4. signin'.active = row.active /\ row' = row
    BY <1>3 DEF SignIn
  <2> QED
    BY <2>3, <2>4 DEF Reasons, ReadingHolds
<1>4. CASE Commit
  <2>1. ReadingHolds'
    BY <1>4 DEF Commit, ReadingHolds, NoSignIn
  <2>2. CASE signin.id # row.id
    BY <1>4, <2>1, <2>2 DEF Commit, Reasons, Justified, OneFamily, Lost
  <2>3. CASE signin.id = row.id
    <3>1. /\ row' = Upserted /\ worker' = worker
          /\ clean' => signin.undisturbed /\ \A w \in Workers : worker[w].phase = "idle"
      BY <1>4, <2>3 DEF Commit
    <3>2. clean' => row'.active
      <4>1. CASE signin.id = NoRow
        BY <1>t, <3>1, <4>1, UpsertedType DEF TypeInv, TypeOK
      <4>2. CASE signin.id # NoRow
        BY <1>4, <1>t, <2>3, <3>1, <4>2, UpsertedType
           DEF Commit, Reasons, ReadingHolds, TypeInv, TypeOK
      <4> QED
        BY <4>1, <4>2
    <3>3. Justified'
      BY <3>1, <3>2 DEF Justified, OneFamily
    <3> QED
      BY <2>1, <3>3 DEF Reasons
  <2> QED
    BY <2>2, <2>3
<1>5. CASE Disconnect
  <2>1. row'.id = NoRow /\ signin' = signin /\ row.id # NoRow
    BY <1>5 DEF Disconnect, Absent
  <2>2. signin.phase = "read" => signin.id # NoRow
    BY <2>1 DEF Apart, NewcomersAreAlone
  <2> QED
    BY <2>1, <2>2 DEF Reasons, Justified, ReadingHolds
<1>6. ASSUME NEW w \in Workers, Load(w) PROVE Reasons'
  <2>1. OneCall(w, Copied)
    BY <1>6 DEF Load, OneCall
  <2> QED
    BY <1>t, <2>1, CopiedType, OneCallReasons
<1>7. ASSUME NEW w \in Workers, Check(w) PROVE Reasons'
  <2>1. CASE ~row.active
    <3>1. OneCall(w, Idle)
      BY <1>7, <2>1 DEF Check, OneCall
    <3> QED
      BY <1>i, <3>1, OneCallReasons
  <2>2. CASE row.active
    <3> DEFINE c == Found(w)
    <3>1. OneCall(w, Verdict(c))
      BY <1>7, <2>2 DEF Check, OneCall
    <3>2. c \in Calls /\ (c = worker[w] \/ c = Copied) /\ c.phase = "loaded" /\ c.id = row.id
      <4>1. c \in Calls /\ (c = worker[w] \/ c = Copied)
        BY <1>t, FoundType
      <4>2. Copied.phase = "loaded" /\ Copied.id = row.id /\ worker[w].phase = "loaded"
        BY <1>7, <1>t, CopiedType DEF Check
      <4> QED
        BY <4>1, <4>2 DEF Found
    <3>3. ASSUME clean, row.id # NoRow
          PROVE  /\ c.refresh = NoRefresh <=> row.refresh = NoRefresh
                 /\ c.refresh \in live <=> row.refresh \in live
      <4>1. CASE c = Copied
        BY <1>t, <4>1, CopiedType
      <4>2. CASE c = worker[w]
        BY <1>f, <3>2, <3>3, <4>2 DEF OneFamily
      <4> QED
        BY <3>2, <4>1, <4>2
    <3> HIDE DEF c
    <3>4. now \in 0..MaxTime
      BY DEF TypeInv, TypeOK
    <3>5. CASE Verdict(c) = Given(c)
      BY <3>1, <3>2, <3>5, GivenType, OneCallReasons
    <3>6. CASE Verdict(c) = Refused(c) /\ c.refresh = NoRefresh
      BY <3>1, <3>2, <3>3, <3>6, RefusedType, OneCallReasons DEF Lost
    <3>7. CASE Verdict(c) = Traded(c) /\ c.refresh # NoRefresh
      BY <3>1, <3>2, <3>3, <3>4, <3>7, TradedType, OneCallReasons
    <3> QED
      BY <3>5, <3>6, <3>7, VerdictCases
  <2> QED
    BY <2>1, <2>2
<1>8. ASSUME NEW w \in Workers, Trade(w) PROVE Reasons'
  <2>0. worker[w] \in Calls /\ worker[w].phase = "trading"
        /\ worker[w].at \in 0..now /\ now \in 0..MaxTime
    BY <1>8, <1>t DEF TypeInv, TypeOK, Past, Trade, Waiting
  <2>1. CASE worker[w].refresh \notin live
    <3>1. OneCall(w, Refused(worker[w]))
      BY <1>8, <2>1 DEF Trade, OneCall
    <3>2. clean /\ row.id # NoRow /\ worker[w].id = row.id => Lost
      BY <1>f, <2>0, <2>1 DEF OneFamily, Lost
    <3> QED
      BY <2>0, <3>1, <3>2, RefusedType, OneCallReasons
  <2>2. CASE worker[w].refresh \in live
    <3>1. PICK l \in Lifetimes, r \in Refreshes :
            Granted(r) /\ worker' = [worker EXCEPT ![w] = Renewed(worker[w], l, r)]
      BY <1>8, <2>2 DEF Trade
    <3> DEFINE c == Renewed(worker[w], l, r)
    <3>2. c.phase = "answered" /\ c.id = worker[w].id /\ c.refresh = r
      BY <2>0, RenewedType
    <3> HIDE DEF c
    <3>3. \A v \in Workers : worker'[v] = IF v = w THEN c ELSE worker[v]
      BY <1>t, <3>1 DEF c
    <3>4. /\ \A x \in 0..issued : x \in live' <=> x \in live
          /\ r # NoRefresh => r \in live'
      BY <1>t, <3>1, GrantedType
    <3>5. UNCHANGED <<row, signin, clean>>
      BY <1>8 DEF Trade
    <3>6. row.refresh \in 0..issued /\ \A v \in Workers : worker[v].refresh \in 0..issued
      BY <1>t, LifetimeAssumption DEF TypeInv, Past, Rows, Calls, Refreshes, NoRefresh
    <3>7. row.refresh \in live' <=> row.refresh \in live
      BY <3>4, <3>6
    <3>8. \A v \in Workers : worker[v].refresh \in live' <=> worker[v].refresh \in live
      BY <3>4, <3>6
    <3>9. ASSUME clean, row.id # NoRow PROVE \A v \in Workers : OneFamily(v)'
      <4>1. ASSUME NEW v \in Workers, v # w PROVE OneFamily(v)'
        BY <1>f, <3>3, <3>5, <3>7, <3>8, <3>9, <4>1 DEF OneFamily, Lost
      <4>2. OneFamily(w)'
        <5>1. worker[w].id = row.id => row.refresh # NoRefresh /\ row.refresh \in live
          BY <1>f, <2>0, <2>2, <3>9 DEF OneFamily
        <5> QED
          BY <3>2, <3>3, <3>4, <3>5, <3>7, <5>1 DEF OneFamily
      <4> QED
        BY <4>1, <4>2
    <3>10. Justified'
      BY <1>f, <3>5, <3>7, <3>9 DEF Justified, Lost
    <3> QED
      BY <3>5, <3>10 DEF Reasons, ReadingHolds
  <2> QED
    BY <2>1, <2>2
<1>9. ASSUME NEW w \in Workers, Store(w) PROVE Reasons'
  <2>0. worker[w] \in Calls /\ worker[w].phase = "answered"
    BY <1>9, <1>t DEF Store
  <2>1. CASE row.id # worker[w].id
    <3>1. OneCall(w, Idle)
      BY <1>9, <2>1 DEF Store, OneCall
    <3> QED
      BY <1>i, <3>1, OneCallReasons
  <2>2. CASE row.id = worker[w].id
    <3>1. /\ row' = Stored(worker[w]) /\ signin' = Disturbed /\ clean' = clean /\ live' = live
          /\ worker' = [worker EXCEPT ![w] = Given(worker[w])]
      BY <1>9, <2>2 DEF Store
    <3>2. /\ row'.id = row.id /\ row'.active = row.active
          /\ row'.refresh = IF worker[w].refresh = NoRefresh THEN row.refresh ELSE worker[w].refresh
      BY <1>t, <2>0, <3>1, StoredType
    <3>3. \A v \in Workers : v # w => worker'[v] = worker[v]
      BY <1>t, <3>1
    <3>4. worker'[w].phase = "given"
      BY <1>t, <2>0, <3>1, GivenType
    <3>5. ASSUME clean, row.id # NoRow
          PROVE  /\ row'.refresh # NoRefresh /\ row.refresh # NoRefresh
                 /\ row'.refresh \in live <=> row.refresh \in live
      BY <1>f, <2>0, <2>2, <3>2, <3>5 DEF OneFamily
    <3>6. ASSUME clean, row.id # NoRow, NEW v \in Workers PROVE OneFamily(v)'
      <4>1. CASE v = w
        BY <3>4, <4>1 DEF OneFamily
      <4>2. CASE v # w
        BY <1>f, <3>1, <3>2, <3>3, <3>5, <3>6, <4>2 DEF OneFamily, Lost
      <4> QED
        BY <4>1, <4>2
    <3>7. Justified'
      BY <1>f, <3>1, <3>2, <3>5, <3>6 DEF Justified, Lost
    <3>8. ReadingHolds'
      BY <1>t, <3>1, DisturbedType DEF ReadingHolds
    <3> QED
      BY <3>7, <3>8 DEF Reasons
  <2> QED
    BY <2>1, <2>2
<1>10. ASSUME NEW w \in Workers, Deactivate(w) PROVE Reasons'
  <2>0. worker[w] \in Calls /\ worker[w].phase = "refused"
    BY <1>10, <1>t DEF Deactivate
  <2>1. CASE ~(row.id = worker[w].id /\ worker[w].active)
    <3>1. OneCall(w, Idle)
      BY <1>10, <2>1 DEF Deactivate, OneCall
    <3> QED
      BY <1>i, <3>1, OneCallReasons
  <2>2. CASE row.id = worker[w].id /\ worker[w].active
    <3>1. /\ row' = [row EXCEPT !.active = FALSE] /\ signin' = Disturbed
          /\ clean' = clean /\ live' = live /\ worker' = [worker EXCEPT ![w] = Idle]
      BY <1>10, <2>2 DEF Deactivate
    <3>2. row'.id = row.id /\ row'.refresh = row.refresh
      BY <1>t, <3>1 DEF Rows
    <3>3. \A v \in Workers : worker'[v] = IF v = w THEN Idle ELSE worker[v]
      BY <1>t, <3>1
    <3>4. clean /\ row.id # NoRow => Lost
      BY <1>f, <2>0, <2>2 DEF OneFamily
    <3>5. ASSUME clean, row.id # NoRow, NEW v \in Workers PROVE OneFamily(v)'
      BY <1>f, <1>i, <3>1, <3>2, <3>3, <3>5 DEF OneFamily, Lost
    <3>6. Justified'
      BY <3>1, <3>2, <3>4, <3>5 DEF Justified, Lost
    <3>7. ReadingHolds'
      BY <1>t, <3>1, DisturbedType DEF ReadingHolds
    <3> QED
      BY <3>6, <3>7 DEF Reasons
  <2> QED
    BY <2>1, <2>2
<1>11. ASSUME NEW w \in Workers, Fail(w) \/ Use(w) PROVE Reasons'
  <2>1. OneCall(w, Idle)
    BY <1>11 DEF Fail, Use, OneCall
  <2> QED
    BY <1>i, <2>1, OneCallReasons
<1> QED
  BY <1>1, <1>2, <1>3, <1>4, <1>5, <1>6, <1>7, <1>8, <1>9, <1>10, <1>11 DEF Next

\* StaysConnected: whatever renewals do to each other, an account whose sign-in
\* met none of them is deactivated only for want of a token that works.
THEOREM DeactivatedForAReason == Spec => []StaysConnected
<1>1. Reasons => StaysConnected
  BY DEF Reasons, Justified, Lost, StaysConnected
<1> QED
  BY <1>1, InitTypeInv, TypeStep, InitApart, ApartStep, InitReasons, ReasonsStep, PTL DEF Spec
=============================================================================
