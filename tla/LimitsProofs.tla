---------------------------- MODULE LimitsProofs ----------------------------
(***************************************************************************)
(* The limits that the backend puts on its users, for any number of        *)
(* requests in progress: the daily counters of UsageQuota, for any limits  *)
(* and days, and the two limiters of RateLimits, for any limits, windows   *)
(* and delays.                                                             *)
(*                                                                         *)
(* Each component has its own part, with its invariant, its lemmas and its *)
(* theorems.                                                               *)
(***************************************************************************)
EXTENDS UsageQuota, RateLimits, FiniteSetTheorems, TLAPS

(***************************************************************************)
(* UsageQuota.  As long as no reset went by a copy that was out of date, a *)
(* row whose day is not over counts what was charged today, a row whose    *)
(* day is over was charged nothing, and a copy of today was made from a    *)
(* row of today.  A request is let in below the limit, so what was charged *)
(* and what is still in progress exceed it by no more than the other       *)
(* requests.                                                               *)
(***************************************************************************)

\* No copy has a reset due later than the coming midnight.
InTime ==
  /\ row.reset <= day + 1 /\ draft.reset <= day + 1
  /\ limit <= topLimit
  /\ \A r \in Requests :
       /\ req[r].copy.reset <= day + 1 /\ req[r].next <= day + 1
       /\ req[r].at = "resetting" =>
            req[r].route \in Checked /\ req[r].copy.reset < req[r].next

HolderWorks ==
  \A r \in Requests : holder = r =>
    req[r].at = "working" /\ req[r].route \in Checked /\ req[r].copy = draft

CountersAgree == IF Due(row) THEN charged = Zero ELSE row.count = charged

HolderOpensDay ==
  holder # NoRequest => Due(row) /\ (~Due(draft) => draft.count = Zero)

CopiesAreOfToday ==
  \A r \in Requests :
    r # holder /\ req[r].at = "working" /\ ~Due(req[r].copy) => ~Due(row)

\* The syncs that will still charge today's counter.
InProgress ==
  {r \in Requests : req[r].at = "working" /\ req[r].route = "sync" /\ ~Due(req[r].copy)}

SlackLeft ==
  charged["sync"] + Cardinality(InProgress) <= topLimit + Cardinality(Requests) - 1

Judged == CountersAgree /\ HolderOpensDay /\ CopiesAreOfToday /\ SlackLeft

IInv == TypeOK /\ InTime /\ HolderWorks /\ (misjudged \/ Judged)

USE QuotaAssumption DEF Features, Routes, Checked, Places

Counters == [count: [Features -> Nat], reset: Nat]

-----------------------------------------------------------------------------
(* Lemmas *)

\* There are finitely many requests, at least one.
LEMMA CountingRequests ==
  /\ Cardinality(Requests) \in Nat \ {0}
  /\ \A S \in SUBSET Requests : \A T \in SUBSET S :
       /\ Cardinality(S) \in Nat /\ Cardinality(T) \in Nat
       /\ Cardinality(T) <= Cardinality(S)
       /\ \A r \in S : T \subseteq S \ {r} => Cardinality(T) <= Cardinality(S) - 1
<1>1. Cardinality(Requests) \in Nat /\ Cardinality(Requests) # 0
  BY FS_CardinalityType, FS_EmptySet
<1>2. ASSUME NEW S \in SUBSET Requests, NEW T \in SUBSET S
      PROVE  /\ IsFiniteSet(S) /\ IsFiniteSet(T)
             /\ Cardinality(S) \in Nat /\ Cardinality(T) \in Nat
             /\ Cardinality(T) <= Cardinality(S)
  <2>1. IsFiniteSet(S)
    BY FS_Subset
  <2> QED
    BY <2>1, FS_Subset, FS_CardinalityType
<1>3. ASSUME NEW S \in SUBSET Requests, NEW T \in SUBSET S, NEW r \in S, T \subseteq S \ {r}
      PROVE  Cardinality(T) <= Cardinality(S) - 1
  <2>1. Cardinality(S \ {r}) = Cardinality(S) - 1
    BY <1>2, <1>3, FS_RemoveElement
  <2>2. IsFiniteSet(S \ {r})
    BY <1>2, <1>3
  <2> QED
    BY <2>1, <2>2, <1>3, FS_Subset
<1> QED
  BY <1>1, <1>2, <1>3

\* A reset keeps a counter only where the copy had 0 already.
LEMMA ResetByResets ==
  ASSUME NEW copy \in Counters, NEW base \in Counters, NEW next \in Nat
  PROVE  /\ ResetBy(copy, next, base) \in Counters
         /\ ResetBy(copy, next, base).reset = next
         /\ \A f \in Features : ResetBy(copy, next, base).count[f] \in {0, base.count[f]}
         /\ \A f \in Features :
              copy.count[f] # 0 => ResetBy(copy, next, base).count[f] = 0
         /\ copy.count = base.count => ResetBy(copy, next, base).count = Zero
BY DEF ResetBy, Counters, Zero

\* A charge adds one to one counter.
LEMMA PlusOneAdds ==
  ASSUME NEW r \in Requests, NEW base \in Counters, NEW f \in Features
  PROVE  /\ PlusOne(r, base, f) \in Counters
         /\ PlusOne(r, base, f).reset = base.reset
         /\ PlusOne(r, base, f).count = [base.count EXCEPT ![f] = @ + 1]
BY DEF PlusOne, Counters

LEMMA RowsAreCounters ==
  /\ Rows \subseteq Counters
  /\ \A c \in Counters : (\A f \in Features : c.count[f] <= MaxCharges)
                           /\ c.reset <= MaxDay + 1 => c \in Rows
<1>1. ASSUME NEW c \in Counters, \A f \in Features : c.count[f] <= MaxCharges,
             c.reset <= MaxDay + 1
      PROVE  c \in Rows
  <2>1. c = [count |-> c.count, reset |-> c.reset] /\ c.reset \in 0..(MaxDay + 1)
    BY <1>1 DEF Counters
  <2>2. c.count \in Counts
    BY <1>1 DEF Counters, Counts
  <2> QED
    BY <2>1, <2>2 DEF Rows
<1> QED
  BY <1>1 DEF Rows, Counters, Counts

-----------------------------------------------------------------------------
(* Every step keeps the invariant *)

LEMMA InitHolds == Init => IInv
<1> SUFFICES ASSUME Init PROVE IInv
  OBVIOUS
<1>1. NewRow \in Rows /\ Zero \in Counts /\ NewRow.count = Zero /\ NewRow.reset = 0
  BY DEF NewRow, Rows, Zero, Counts
<1>2. TypeOK
  <2>1. Idle \in [at: Places, route: Routes, copy: Rows, next: 0..(MaxDay + 1)]
    BY <1>1 DEF Idle
  <2>2. misjudged \in BOOLEAN
    BY DEF Init
  <2> QED
    BY <1>1, <2>1, <2>2 DEF Init, TypeOK
<1>3. InTime /\ HolderWorks
  BY <1>1 DEF Init, InTime, HolderWorks, Idle
<1>4. CountersAgree /\ HolderOpensDay /\ CopiesAreOfToday
  BY <1>1 DEF Init, CountersAgree, HolderOpensDay, CopiesAreOfToday, Due, Idle
<1>5. InProgress = {}
  BY DEF Init, InProgress, Idle
<1>6. SlackLeft
  BY <1>5, CountingRequests, FS_EmptySet DEF Init, SlackLeft, Zero
<1> QED
  BY <1>2, <1>3, <1>4, <1>6 DEF IInv, Judged

\* At midnight every copy there is becomes one of yesterday.
LEMMA MidnightKeeps ==
  ASSUME IInv, Midnight
  PROVE  IInv'
<1>1. TypeOK'
  <2>1. Zero \in Counts
    BY DEF Zero, Counts
  <2>2. misjudged' \in BOOLEAN
    BY DEF Midnight
  <2>3. limit' \in Limits /\ topLimit' \in Limits
    BY DEF IInv, TypeOK, Midnight
  <2> QED
    BY <2>1, <2>2, <2>3 DEF IInv, TypeOK, Midnight
<1>2. InTime' /\ HolderWorks'
  BY DEF IInv, TypeOK, Midnight, InTime, HolderWorks, Rows
<1>3. /\ \A r \in Requests : Due(req[r].copy)'
      /\ Due(row)' /\ Due(draft)'
  BY DEF IInv, TypeOK, InTime, Midnight, Due, Rows
<1>4. CountersAgree' /\ HolderOpensDay' /\ CopiesAreOfToday'
  BY <1>3 DEF Midnight, CountersAgree, HolderOpensDay, CopiesAreOfToday
<1>5. InProgress' = {}
  BY <1>3 DEF InProgress
<1>6. SlackLeft'
  BY <1>1, <1>5, CountingRequests, FS_EmptySet DEF SlackLeft, Midnight, Zero, TypeOK
<1> QED
  BY <1>1, <1>2, <1>4, <1>6 DEF IInv, Judged

LEMMA ChangePlanKeeps ==
  ASSUME IInv, ChangePlan
  PROVE  IInv'
<1>1. TypeOK'
  BY DEF IInv, TypeOK, ChangePlan
<1>2. InTime' /\ HolderWorks' /\ topLimit' >= topLimit
  BY DEF IInv, TypeOK, ChangePlan, InTime, HolderWorks
<1>3. ASSUME Judged PROVE Judged'
  <2>1. CountersAgree' /\ HolderOpensDay' /\ CopiesAreOfToday' /\ InProgress' = InProgress
    BY <1>3 DEF Judged, ChangePlan, CountersAgree, HolderOpensDay, CopiesAreOfToday, Due,
                InProgress
  <2>2. InProgress \subseteq Requests
    BY DEF InProgress
  <2> QED
    BY <1>1, <1>2, <1>3, <2>1, <2>2, CountingRequests
       DEF Judged, SlackLeft, ChangePlan, IInv, TypeOK, Counts
<1> QED
  BY <1>1, <1>2, <1>3 DEF IInv, ChangePlan

\* Who is let in with a copy of today found the counter below the limit; one
\* more is in progress then, and the others make up the rest.
LEMMA BeginKeeps ==
  ASSUME IInv, NEW r \in Requests, Begin(r)
  PROVE  IInv'
<1>1. PICK route \in Routes :
        LET due == route \in Checked /\ Due(row)
        IN  /\ due \/ Admits(route, row)
            /\ req' = [req EXCEPT ![r] = [at |-> IF due THEN "resetting" ELSE "working",
                                          route |-> route, copy |-> row, next |-> day + 1]]
  BY DEF Begin
<1>2. /\ req[r].at = "idle"
      /\ UNCHANGED <<day, row, draft, holder, limit, charged, topLimit, misjudged>>
  BY DEF Begin
<1>3. /\ day \in 0..MaxDay /\ row \in Rows /\ day + 1 \in 0..(MaxDay + 1) /\ row.reset \in Int
      /\ req \in [Requests -> [at: Places, route: Routes, copy: Rows, next: 0..(MaxDay + 1)]]
  BY DEF IInv, TypeOK, Rows
<1>4. /\ req'[r].copy = row /\ req'[r].next = day + 1 /\ req'[r].route = route
      /\ req'[r].at = IF route \in Checked /\ Due(row) THEN "resetting" ELSE "working"
      /\ \A g \in Requests \ {r} : req'[g] = req[g]
  BY <1>1, <1>3
<1>5. req' \in [Requests -> [at: Places, route: Routes, copy: Rows, next: 0..(MaxDay + 1)]]
  BY <1>1, <1>3
<1>6. TypeOK'
  BY <1>2, <1>5 DEF IInv, TypeOK
<1>7. InTime'
  BY <1>2, <1>3, <1>4 DEF IInv, InTime, Due
<1>8. HolderWorks'
  BY <1>2, <1>4 DEF IInv, HolderWorks
<1>9. ASSUME Judged PROVE Judged'
  <2>1. CountersAgree' /\ HolderOpensDay'
    BY <1>2, <1>9 DEF Judged, CountersAgree, HolderOpensDay, Due
  <2>2. CopiesAreOfToday'
    BY <1>2, <1>4, <1>9 DEF Judged, CopiesAreOfToday, Due
  <2>3. InProgress \subseteq Requests /\ InProgress' \subseteq Requests
    BY DEF InProgress
  <2>4. CASE r \notin InProgress'
    <3>1. InProgress' \subseteq InProgress
      BY <2>4, <1>2, <1>4 DEF InProgress, Due
    <3> QED
      BY <1>2, <1>9, <2>1, <2>2, <2>3, <3>1, CountingRequests
         DEF Judged, SlackLeft, IInv, TypeOK, Counts
  <2>5. CASE r \in InProgress'
    <3>1. ~Due(row) /\ route = "sync" /\ row.count["sync"] < limit
      BY <2>5, <1>1, <1>2, <1>4 DEF InProgress, Due, Admits, Within, Charges
    <3>2. charged["sync"] < topLimit
      BY <3>1, <1>9 DEF Judged, CountersAgree, IInv, InTime, TypeOK, Rows, Counts
    <3>3. SlackLeft'
      BY <1>2, <2>3, <3>2, CountingRequests DEF SlackLeft, IInv, TypeOK, Counts
    <3> QED
      BY <2>1, <2>2, <3>3 DEF Judged
  <2> QED
    BY <2>4, <2>5
<1> QED
  BY <1>2, <1>6, <1>7, <1>8, <1>9 DEF IInv

\* What is said of every request when one of them leaves.
LEMMA OneLeaves ==
  ASSUME IInv, NEW r \in Requests, Leave(r), UNCHANGED <<day, limit, topLimit>>, row' \in Rows,
         row'.reset <= day + 1, charged' \in Counts, misjudged' \in BOOLEAN
  PROVE  /\ TypeOK' /\ InTime' /\ HolderWorks'
         /\ InProgress' \subseteq InProgress /\ r \notin InProgress'
         /\ \A g \in Requests \ {r} : req'[g] = req[g]
         /\ req'[r].at = "idle"
<1>1. /\ req' = [req EXCEPT ![r] = Idle] /\ draft' = draft
      /\ holder' = IF holder = r THEN NoRequest ELSE holder
  BY DEF Leave
<1>2. Idle \in [at: Places, route: Routes, copy: Rows, next: 0..(MaxDay + 1)]
  BY DEF Idle, NewRow, Rows, Zero, Counts
<1>3. /\ req'[r] = Idle
      /\ \A g \in Requests \ {r} : req'[g] = req[g]
  BY <1>1 DEF IInv, TypeOK
<1>4. TypeOK'
  BY <1>1, <1>2 DEF IInv, TypeOK
<1>5. /\ Idle.at = "idle" /\ Idle.copy.reset = 0 /\ Idle.next = 0
  BY DEF Idle, NewRow
<1>6. InTime'
  BY <1>1, <1>3, <1>5 DEF IInv, InTime, TypeOK
<1>7. HolderWorks'
  BY <1>1, <1>3, <1>5 DEF IInv, HolderWorks
<1>8. InProgress' \subseteq InProgress /\ r \notin InProgress'
  BY <1>1, <1>3, <1>5 DEF InProgress, Due
<1> QED
  BY <1>3, <1>4, <1>5, <1>6, <1>7, <1>8

\* A request that ends without touching the row.
LEMMA Departure ==
  ASSUME IInv, NEW r \in Requests, Leave(r),
         UNCHANGED <<day, row, limit, charged, topLimit, misjudged>>
  PROVE  IInv'
<1>1. /\ row' \in Rows /\ row'.reset <= day + 1 /\ charged' \in Counts
      /\ misjudged' \in BOOLEAN
  BY DEF IInv, TypeOK, InTime
<1>2. /\ TypeOK' /\ InTime' /\ HolderWorks'
      /\ InProgress' \subseteq InProgress
      /\ \A g \in Requests \ {r} : req'[g] = req[g]
      /\ req'[r].at = "idle"
  BY <1>1, OneLeaves
<1>3. draft' = draft /\ holder' = IF holder = r THEN NoRequest ELSE holder
  BY DEF Leave
<1>4. ASSUME Judged PROVE Judged'
  <2>1. CountersAgree' /\ HolderOpensDay'
    BY <1>3, <1>4 DEF Judged, CountersAgree, HolderOpensDay, Due
  <2>2. CopiesAreOfToday'
    BY <1>2, <1>3, <1>4 DEF Judged, CopiesAreOfToday, Due
  <2>3. InProgress \subseteq Requests
    BY DEF InProgress
  <2>4. SlackLeft'
    BY <1>2, <1>4, <2>3, CountingRequests DEF Judged, SlackLeft, IInv, TypeOK, Counts
  <2> QED
    BY <2>1, <2>2, <2>4 DEF Judged
<1> QED
  BY <1>2, <1>4 DEF IInv

\* Who resets takes hold of the row; unless it goes by an older copy, nothing was
\* charged today yet.
LEMMA ResetKeeps ==
  ASSUME IInv, NEW r \in Requests, Reset(r)
  PROVE  IInv'
<1> DEFINE new == ResetBy(req[r].copy, req[r].next, row)
<1>1. /\ req[r].at = "resetting" /\ holder = NoRequest
      /\ UNCHANGED <<day, row, limit, charged, topLimit>>
  BY DEF Reset
<1>2. CASE ~Admits(req[r].route, new)
  <2>1. Leave(r) /\ UNCHANGED misjudged
    BY <1>1, <1>2 DEF Reset, Leave
  <2> QED
    BY <1>1, <2>1, Departure
<1>3. CASE Admits(req[r].route, new)
  <2>1. /\ holder' = r /\ draft' = new
        /\ req' = [req EXCEPT ![r].at = "working", ![r].copy = new]
        /\ misjudged' = (misjudged \/ req[r].copy # row)
    BY <1>3 DEF Reset
  <2>2. /\ req[r].copy \in Rows /\ row \in Rows /\ req[r].next \in 0..(MaxDay + 1)
        /\ req[r].route \in Checked /\ req[r].next <= day + 1
        /\ req[r].copy.reset < req[r].next /\ day \in Nat /\ req[r].next \in Nat
        /\ req[r].copy \in Counters /\ row \in Counters
    BY <1>1, RowsAreCounters DEF IInv, TypeOK, InTime
  <2>3. new \in Counters /\ new.reset = req[r].next
    BY <2>2, ResetByResets
  <2>4. \A f \in Features : new.count[f] <= MaxCharges
    <3>1. \A f \in Features : new.count[f] \in {0, row.count[f]}
      BY <2>2, ResetByResets
    <3> QED
      BY <2>2, <3>1 DEF Rows, Counts
  <2>5. new \in Rows
    BY <2>2, <2>3, <2>4, RowsAreCounters
  <2>6. /\ req'[r].at = "working" /\ req'[r].copy = new /\ req'[r].route = req[r].route
        /\ req'[r].next = req[r].next
        /\ \A g \in Requests \ {r} : req'[g] = req[g]
        /\ req' \in [Requests -> [at: Places, route: Routes, copy: Rows, next: 0..(MaxDay + 1)]]
    BY <2>1, <2>5 DEF IInv, TypeOK
  <2>7. TypeOK'
    BY <1>1, <2>1, <2>5, <2>6 DEF IInv, TypeOK
  <2>8. InTime'
    BY <1>1, <2>1, <2>2, <2>3, <2>6 DEF IInv, InTime
  <2>9. HolderWorks'
    BY <1>1, <2>1, <2>2, <2>6 DEF IInv, HolderWorks
  <2>10. ASSUME ~misjudged' PROVE Judged'
    <3>1. Judged /\ req[r].copy = row
      BY <2>1, <2>10 DEF IInv
    <3>2. Due(row) /\ charged = Zero /\ new.count = Zero
      <4>1. Due(row)
        BY <2>2, <3>1 DEF Due, Rows
      <4> QED
        BY <2>2, <3>1, <4>1, ResetByResets DEF Judged, CountersAgree
    <3>3. CountersAgree' /\ HolderOpensDay'
      BY <1>1, <2>1, <3>2 DEF CountersAgree, HolderOpensDay, Due
    <3>4. CopiesAreOfToday'
      BY <1>1, <2>1, <2>6, <3>1 DEF Judged, CopiesAreOfToday, Due
    <3>5. SlackLeft'
      <4>1. CASE r \notin InProgress'
        <5>1. InProgress' \subseteq InProgress /\ InProgress \subseteq Requests
          BY <1>1, <2>6, <4>1 DEF InProgress, Due
        <5> QED
          BY <1>1, <3>1, <5>1, CountingRequests DEF Judged, SlackLeft, IInv, TypeOK, Counts
      <4>2. CASE r \in InProgress'
        <5>1. new.count["sync"] < limit
          BY <1>3, <2>6, <4>2 DEF InProgress, Admits, Within, Charges
        <5>2. charged["sync"] = 0 /\ 0 < limit
          BY <3>2, <5>1 DEF Zero
        <5>3. charged["sync"] < topLimit
          BY <5>2 DEF IInv, InTime, TypeOK
        <5>4. InProgress' \subseteq Requests
          BY DEF InProgress
        <5> QED
          BY <1>1, <5>3, <5>4, CountingRequests DEF SlackLeft, IInv, TypeOK, Counts
      <4> QED
        BY <4>1, <4>2
    <3> QED
      BY <3>3, <3>4, <3>5 DEF Judged
  <2> QED
    BY <2>7, <2>8, <2>9, <2>10 DEF IInv
<1> QED
  BY <1>2, <1>3

\* A row that is left to the next request as one of today.
LEMMA ChargedToday ==
  ASSUME IInv, TypeOK', Judged, NEW r \in Requests, Leave(r), holder \in {NoRequest, r},
         row'.count = charged', ~Due(row)', topLimit' = topLimit,
         charged'["sync"] + Cardinality(InProgress') <= charged["sync"] + Cardinality(InProgress)
  PROVE  Judged'
<1>1. holder' = NoRequest
  BY DEF Leave
<1>2. CountersAgree' /\ HolderOpensDay' /\ CopiesAreOfToday'
  BY <1>1 DEF CountersAgree, HolderOpensDay, CopiesAreOfToday
<1>3. SlackLeft'
  <2>1. InProgress \subseteq Requests /\ InProgress' \subseteq Requests
    BY DEF InProgress
  <2> QED
    BY <2>1, CountingRequests DEF Judged, SlackLeft, IInv, TypeOK, Counts
<1> QED
  BY <1>2, <1>3 DEF Judged

\* A charge leaves a row of today, which counts what it counted and this one; a
\* sync that goes by a copy of the day before is set back and not counted.
LEMMA ChargeSyncKeeps ==
  ASSUME IInv, NEW r \in Requests, ChargeSync(r)
  PROVE  IInv'
<1> DEFINE seen == Seen(r)
           copy == req[r].copy
           added == PlusOne(r, seen, "sync")
           mine == PlusOne(r, copy, "sync")
<1>1. /\ req[r].at = "working" /\ req[r].route = "sync" /\ holder \in {NoRequest, r}
      /\ row' = SyncCharged(r) /\ row'.count["sync"] <= MaxCharges
      /\ charged' = IF ~Due(copy) THEN [charged EXCEPT !["sync"] = @ + 1] ELSE charged
      /\ charged'["sync"] <= MaxCharges
      /\ misjudged' = (misjudged \/ (Due(copy) /\ copy # seen))
      /\ Leave(r)
      /\ UNCHANGED <<day, limit, topLimit>>
  BY DEF ChargeSync, MayWrite, Note, NoteReset
<1>2. /\ seen \in Rows /\ copy \in Rows /\ seen \in Counters /\ copy \in Counters
      /\ seen.reset <= day + 1 /\ day \in 0..MaxDay /\ charged \in Counts
  BY RowsAreCounters DEF IInv, TypeOK, InTime, Seen
<1>3. /\ added \in Counters /\ added.reset = seen.reset
      /\ added.count = [seen.count EXCEPT !["sync"] = @ + 1]
      /\ mine \in Counters /\ mine.count = [copy.count EXCEPT !["sync"] = @ + 1]
  BY <1>2, PlusOneAdds
<1>4. CASE ~Due(copy)
  <2>1. row' = added
    BY <1>1, <1>4 DEF SyncCharged
  <2>2. row' \in Rows /\ row'.reset <= day + 1
    <3>1. \A f \in Features : added.count[f] <= MaxCharges
      BY <1>1, <1>2, <1>3, <2>1 DEF Rows, Counts
    <3>2. added.reset <= MaxDay + 1
      BY <1>2, <1>3 DEF Rows
    <3>3. added \in Rows
      BY <1>3, <3>1, <3>2, RowsAreCounters
    <3> QED
      BY <1>2, <1>3, <2>1, <3>3
  <2>3. charged' \in Counts /\ charged'["sync"] = charged["sync"] + 1
    BY <1>1, <1>2, <1>4 DEF Counts
  <2>4. misjudged' = misjudged /\ misjudged' \in BOOLEAN
    BY <1>1, <1>4 DEF IInv, TypeOK
  <2>5. /\ TypeOK' /\ InTime' /\ HolderWorks'
        /\ InProgress' \subseteq InProgress /\ r \notin InProgress'
    BY <1>1, <2>2, <2>3, <2>4, OneLeaves
  <2>6. ASSUME Judged PROVE Judged'
    <3>1. ~Due(seen) /\ seen.count = charged
      BY <1>1, <1>4, <2>6
         DEF Judged, IInv, HolderWorks, HolderOpensDay, CopiesAreOfToday, CountersAgree, Seen
    <3>2. ~Due(row')
      BY <1>3, <2>1, <3>1 DEF Due
    <3>3. row'.count = charged' /\ ~Due(row)'
      BY <1>1, <1>3, <1>4, <2>1, <3>1, <3>2 DEF Due
    <3> QED
      <4>1. r \in InProgress /\ InProgress \subseteq Requests
        BY <1>1, <1>4 DEF InProgress
      <4>2. charged'["sync"] + Cardinality(InProgress') <= charged["sync"] + Cardinality(InProgress)
        BY <1>2, <2>3, <2>5, <4>1, CountingRequests DEF Counts
      <4> QED
        BY <1>1, <2>5, <2>6, <3>3, <4>2, ChargedToday
  <2> QED
    BY <2>4, <2>5, <2>6 DEF IInv
<1>5. CASE Due(copy)
  <2> DEFINE reset == ResetBy(mine, day + 1, added)
  <2>1. row' = reset /\ charged' = charged
    BY <1>1, <1>5 DEF SyncCharged
  <2>2. /\ reset \in Counters /\ reset.reset = day + 1 /\ reset.count["sync"] = 0
        /\ reset.count["ai"] \in {0, seen.count["ai"]}
        /\ copy.count["ai"] # 0 => reset.count["ai"] = 0
    <3> HIDE DEF mine, added
    <3>1. day + 1 \in Nat /\ mine \in Counters /\ added \in Counters
      BY <1>2, <1>3
    <3>2. /\ reset \in Counters /\ reset.reset = day + 1
          /\ \A f \in Features : reset.count[f] \in {0, added.count[f]}
          /\ \A f \in Features : mine.count[f] # 0 => reset.count[f] = 0
      BY <3>1, ResetByResets
    <3>3. /\ mine.count["sync"] # 0 /\ mine.count["ai"] = copy.count["ai"]
          /\ added.count["ai"] = seen.count["ai"]
      BY <1>2, <1>3 DEF Counters
    <3> QED
      BY <3>2, <3>3
  <2>3. row' \in Rows /\ row'.reset <= day + 1
    <3>1. \A f \in Features : reset.count[f] <= MaxCharges
      BY <1>2, <2>2 DEF Rows, Counts
    <3>2. reset.reset <= MaxDay + 1
      BY <1>2, <2>2
    <3>3. reset \in Rows
      BY <2>2, <3>1, <3>2, RowsAreCounters
    <3> QED
      BY <1>2, <2>1, <2>2, <3>3
  <2>4. misjudged' \in BOOLEAN
    BY <1>1 DEF IInv, TypeOK
  <2>5. /\ TypeOK' /\ InTime' /\ HolderWorks'
        /\ InProgress' \subseteq InProgress /\ r \notin InProgress'
    BY <1>1, <1>2, <2>1, <2>3, <2>4, OneLeaves
  <2>6. ASSUME ~misjudged' PROVE Judged'
    <3>1. Judged /\ copy = seen
      BY <1>1, <1>5, <2>6 DEF IInv
    <3>2. Due(row)
      BY <1>1, <1>5, <3>1 DEF Judged, HolderOpensDay, Seen
    <3>3. charged = Zero /\ reset.count["ai"] = 0
      BY <2>2, <3>1, <3>2 DEF Judged, CountersAgree
    <3>4. reset.count = Zero
      BY <2>2, <3>3 DEF Counters, Zero
    <3>5. row'.count = charged' /\ ~Due(row)'
      BY <1>1, <1>2, <2>1, <2>2, <3>3, <3>4 DEF Due
    <3>6. charged'["sync"] + Cardinality(InProgress') <= charged["sync"] + Cardinality(InProgress)
      BY <1>2, <2>1, <2>5, CountingRequests DEF InProgress, Counts
    <3> QED
      BY <1>1, <2>5, <3>1, <3>5, <3>6, ChargedToday
  <2> QED
    BY <2>5, <2>6 DEF IInv
<1> QED
  BY <1>4, <1>5

LEMMA ChargeChatKeeps ==
  ASSUME IInv, NEW r \in Requests, ChargeChat(r)
  PROVE  IInv'
<1> DEFINE copy == req[r].copy
           reset == ResetBy(copy, day + 1, row)
           base == IF Due(copy) THEN reset ELSE row
<1>1. /\ req[r].at = "working" /\ req[r].route = "chat" /\ holder \in {NoRequest, r}
      /\ row' = PlusOne(r, base, "ai") /\ row'.count["ai"] <= MaxCharges
      /\ charged' = [charged EXCEPT !["ai"] = @ + 1] /\ charged'["ai"] <= MaxCharges
      /\ misjudged' = (misjudged \/ (Due(copy) /\ copy # Seen(r)))
      /\ Leave(r)
      /\ UNCHANGED <<day, limit, topLimit>>
  BY DEF ChargeChat, MayWrite, Note, NoteReset, ChatCharged
<1>2. /\ copy \in Rows /\ row \in Rows /\ copy \in Counters /\ row \in Counters
      /\ row.reset <= day + 1 /\ day \in 0..MaxDay /\ day + 1 \in Nat /\ charged \in Counts
  BY RowsAreCounters DEF IInv, TypeOK, InTime
<1>3. holder # r /\ Seen(r) = row
  BY <1>1 DEF IInv, HolderWorks, Seen
<1>4. /\ reset \in Counters /\ reset.reset = day + 1
      /\ \A f \in Features : reset.count[f] \in {0, row.count[f]}
      /\ copy.count = row.count => reset.count = Zero
  BY <1>2, ResetByResets
<1>5. /\ base \in Counters /\ base.reset <= day + 1
      /\ \A f \in Features : base.count[f] <= MaxCharges
  BY <1>2, <1>4 DEF Rows, Counts
<1>6. /\ row' \in Counters /\ row'.reset = base.reset
      /\ row'.count = [base.count EXCEPT !["ai"] = @ + 1]
  BY <1>1, <1>5, PlusOneAdds
<1>7. row' \in Rows /\ row'.reset <= day + 1
  <2>1. \A f \in Features : row'.count[f] <= MaxCharges
    BY <1>1, <1>5, <1>6 DEF Counters
  <2>2. row'.reset <= MaxDay + 1
    BY <1>2, <1>5, <1>6 DEF Counters
  <2> QED
    BY <1>5, <1>6, <2>1, <2>2, RowsAreCounters
<1>8. charged' \in Counts /\ charged'["sync"] = charged["sync"]
  BY <1>1, <1>2 DEF Counts
<1>9. misjudged' \in BOOLEAN
  BY <1>1 DEF IInv, TypeOK
<1>10. /\ TypeOK' /\ InTime' /\ HolderWorks'
       /\ InProgress' \subseteq InProgress
  BY <1>1, <1>7, <1>8, <1>9, OneLeaves
<1>11. ASSUME ~misjudged' PROVE Judged'
  <2>1. Judged /\ (Due(copy) => copy = row)
    BY <1>1, <1>3, <1>11 DEF IInv
  <2>2. base.count = charged /\ base.reset = day + 1
    <3>1. CASE Due(copy)
      BY <1>4, <2>1, <3>1 DEF Judged, CountersAgree
    <3>2. CASE ~Due(copy)
      <4>1. ~Due(row)
        BY <1>1, <1>3, <2>1, <3>2 DEF Judged, CopiesAreOfToday
      <4> QED
        BY <1>2, <2>1, <3>2, <4>1 DEF Judged, CountersAgree, Due, Counters
    <3> QED
      BY <3>1, <3>2
  <2>3. row'.count = charged' /\ ~Due(row)'
    <3> HIDE DEF base
    <3>1. row'.count = charged' /\ row'.reset = day + 1
      BY <1>1, <1>6, <2>2
    <3> QED
      BY <1>1, <1>2, <3>1 DEF Due
  <2>4. charged'["sync"] + Cardinality(InProgress') <= charged["sync"] + Cardinality(InProgress)
    <3>1. InProgress \subseteq Requests
      BY DEF InProgress
    <3> QED
      BY <1>2, <1>8, <1>10, <3>1, CountingRequests DEF Counts
  <2> QED
    BY <1>1, <1>10, <2>1, <2>3, <2>4, ChargedToday
<1> QED
  BY <1>10, <1>11 DEF IInv

\* The reset becomes visible; as the row was held, no other request has a copy of
\* today.
LEMMA KeepResetKeeps ==
  ASSUME IInv, NEW r \in Requests, KeepReset(r)
  PROVE  IInv'
<1>1. /\ holder = r /\ row' = draft /\ holder' = NoRequest /\ draft' = draft
      /\ UNCHANGED <<day, limit, charged, topLimit, misjudged>>
      /\ Leave(r) \/ (UNCHANGED req /\ req[r].route # "sync")
  BY DEF KeepReset, Leave
<1>2. /\ row' \in Rows /\ row'.reset <= day + 1 /\ charged' \in Counts
      /\ misjudged' \in BOOLEAN
  BY <1>1 DEF IInv, TypeOK, InTime
<1>3. /\ TypeOK' /\ InTime' /\ HolderWorks' /\ InProgress' \subseteq InProgress
      /\ \A g \in Requests \ {r} : req'[g] = req[g]
      /\ req'[r].at = "idle" \/ req'[r].copy = draft
  <2>1. CASE Leave(r)
    BY <1>1, <1>2, <2>1, OneLeaves
  <2>2. CASE UNCHANGED req
    <3>1. TypeOK' /\ InTime'
      BY <1>1, <1>2, <2>2 DEF IInv, TypeOK, InTime
    <3>2. HolderWorks'
      BY <1>1 DEF HolderWorks
    <3>3. InProgress' = InProgress
      BY <1>1, <2>2 DEF InProgress, Due
    <3>4. req'[r].copy = draft
      BY <1>1, <2>2 DEF IInv, HolderWorks
    <3> QED
      BY <2>2, <3>1, <3>2, <3>3, <3>4
  <2> QED
    BY <1>1, <2>1, <2>2
<1>4. ASSUME Judged PROVE Judged'
  <2>1. /\ Due(row) /\ charged = Zero
        /\ ~Due(draft) => draft.count = Zero
    BY <1>1, <1>4 DEF Judged, HolderOpensDay, CountersAgree
  <2>2. CountersAgree' /\ HolderOpensDay'
    BY <1>1, <2>1 DEF CountersAgree, HolderOpensDay, Due
  <2>3. CopiesAreOfToday'
    BY <1>1, <1>3, <1>4, <2>1 DEF Judged, CopiesAreOfToday, Due
  <2>4. InProgress \subseteq Requests
    BY DEF InProgress
  <2>5. SlackLeft'
    BY <1>1, <1>3, <1>4, <2>4, CountingRequests DEF Judged, SlackLeft, IInv, TypeOK, Counts
  <2> QED
    BY <2>2, <2>3, <2>5 DEF Judged
<1> QED
  BY <1>1, <1>3, <1>4 DEF IInv

LEMMA StutterKeeps ==
  ASSUME IInv, UNCHANGED vars
  PROVE  IInv'
<1>1. UNCHANGED <<day, row, draft, holder, limit, req, charged, topLimit, misjudged>>
  BY DEF vars
<1>2. TypeOK' /\ InTime' /\ HolderWorks'
  BY <1>1 DEF IInv, TypeOK, InTime, HolderWorks
<1>3. ASSUME Judged PROVE Judged'
  BY <1>1, <1>3 DEF Judged, CountersAgree, HolderOpensDay, CopiesAreOfToday, SlackLeft,
                    InProgress, Due
<1> QED
  BY <1>1, <1>2, <1>3 DEF IInv

LEMMA NextKeeps == IInv /\ [Next]_vars => IInv'
<1> SUFFICES ASSUME IInv, [Next]_vars PROVE IInv'
  OBVIOUS
<1>1. CASE Midnight
  BY <1>1, MidnightKeeps
<1>2. CASE ChangePlan
  BY <1>2, ChangePlanKeeps
<1>3. ASSUME NEW r \in Requests, Begin(r) \/ Reset(r) PROVE IInv'
  BY <1>3, BeginKeeps, ResetKeeps
<1>4. ASSUME NEW r \in Requests, ChargeSync(r) \/ ChargeChat(r) \/ KeepReset(r) PROVE IInv'
  BY <1>4, ChargeSyncKeeps, ChargeChatKeeps, KeepResetKeeps
<1>5. ASSUME NEW r \in Requests, FinishStream(r) \/ Abort(r) PROVE IInv'
  BY <1>5, Departure DEF FinishStream, Abort
<1>6. CASE UNCHANGED vars
  BY <1>6, StutterKeeps
<1> QED
  BY <1>1, <1>2, <1>3, <1>4, <1>5, <1>6 DEF Next

LEMMA Invariance == Spec => []IInv
BY InitHolds, NextKeeps, PTL DEF Spec

-----------------------------------------------------------------------------
(* Theorems *)

\* Every variable keeps its type: no counter exceeds what was charged to it, and
\* no reset is due later than the coming midnight.
THEOREM TypeCorrect == Spec => []TypeOK
<1>1. IInv => TypeOK
  BY DEF IInv
<1> QED
  BY <1>1, Invariance, PTL

\* No charge of increment_usage is lost or counted twice, for any number of
\* requests that charge, reset or are cut off, unless a reset went by a copy of
\* the row that was out of date.
THEOREM ChargesAreCounted == Spec => []CountIsExact
<1>1. IInv => CountIsExact
  <2>1. ASSUME Judged, IInv, row.reset = day + 1 PROVE row.count = charged
    BY <2>1 DEF Judged, CountersAgree, Due, IInv, TypeOK
  <2> QED
    BY <2>1 DEF IInv, CountIsExact
<1> QED
  BY <1>1, Invariance, PTL

\* check_usage_limit looks before increment_usage charges; the limit is overrun by
\* no more than the requests in progress at once, whatever the limit is and
\* however often the plan changes.
THEOREM OverrunIsBounded == Spec => []OverrunBounded
<1>1. IInv => OverrunBounded
  <2>1. ASSUME Judged, IInv PROVE charged["sync"] <= topLimit + Cardinality(Requests) - 1
    <3>1. InProgress \subseteq Requests
      BY DEF InProgress
    <3> QED
      BY <2>1, <3>1, CountingRequests DEF Judged, SlackLeft, IInv, TypeOK, Counts
  <2> QED
    BY <2>1 DEF IInv, OverrunBounded
<1> QED
  BY <1>1, Invariance, PTL

HIDE QuotaAssumption DEF Features, Routes, Checked, Places

-----------------------------------------------------------------------------
(***************************************************************************)
(* RateLimits.  A limit over every window is a count of what the set still *)
(* holds: what the handler's limit served is in its set as long as it      *)
(* counts, and every second in the window that let a request by is still   *)
(* marked.  Advice is true because some hit is as old as the advice says:  *)
(* it is dropped before the others are counted, if nobody else has put a   *)
(* hit in its place.                                                       *)
(***************************************************************************)

\* What the handler's limit admitted is in its set as long as it counts.
ServedAreHits == \A a \in 0..(Window - 1) : served[a] <= hits[a]

InWindow == {a \in seconds : a < GateWindow}

SecondsAreMarked == InWindow \subseteq marks /\ Cardinality(InWindow) <= GateLimit

\* A request whose clock reading lies `age` seconds behind the window of some
\* hit finds room: that hit is dropped before the others are counted.
Room(bag, age) ==
  Total(bag) < MaxRequests \/ \E a \in Ages : bag[a] > 0 /\ a >= age

AdviceIsDue ==
  advice # NoAdvice =>
    Room(hits, Window - advice) /\ \A r \in Arrivals : arrival[r].at = "idle"

AdvisedIsAlone ==
  \A r \in Arrivals :
    /\ arrival[r].at \in {"idle", "passed"} => arrival[r].read = 0
    /\ arrival[r].advised =>
         /\ advice = NoAdvice /\ arrival[r].at # "idle"
         /\ \A q \in Arrivals \ {r} : arrival[q].at = "idle"
         /\ Room(hits, Window + IF arrival[r].at = "limit" THEN arrival[r].read ELSE 0)

LimitsInv ==
  /\ LimitsTypeOK /\ ServedAreHits /\ SecondsAreMarked /\ AdviceIsDue /\ AdvisedIsAlone

-----------------------------------------------------------------------------
(* Bags of hits: functions from the ages up to some bound to numbers *)

LEMMA UnitsOfBag ==
  ASSUME NEW n \in Nat, NEW bag \in [0..n -> Nat]
  PROVE  /\ \A a, k : <<a, k>> \in Units(bag) <=> a \in 0..n /\ k \in 1..bag[a]
         /\ \A u \in Units(bag) :
              u = <<u[1], u[2]>> /\ u[1] \in 0..n /\ u[2] \in 1..bag[u[1]]
<1>1. DOMAIN bag = 0..n
  OBVIOUS
<1>2. \A u : u \in Units(bag) <=> \E a \in 0..n : u \in {a} \X (1..bag[a])
  BY <1>1 DEF Units
<1>3. ASSUME NEW u \in Units(bag)
      PROVE  u = <<u[1], u[2]>> /\ u[1] \in 0..n /\ u[2] \in 1..bag[u[1]]
  <2>1. PICK a \in 0..n : u \in {a} \X (1..bag[a])
    BY <1>2
  <2> QED
    BY <2>1
<1>4. ASSUME NEW a, NEW k
      PROVE  <<a, k>> \in Units(bag) <=> a \in 0..n /\ k \in 1..bag[a]
  <2>1. ASSUME a \in 0..n, k \in 1..bag[a]
        PROVE  <<a, k>> \in Units(bag)
    BY <1>2, <2>1
  <2>2. ASSUME <<a, k>> \in Units(bag)
        PROVE  a \in 0..n /\ k \in 1..bag[a]
    BY <1>3, <2>2
  <2> QED
    BY <2>1, <2>2
<1> QED
  BY <1>3, <1>4

LEMMA BagsAreFinite ==
  ASSUME NEW n \in Nat, NEW m \in Nat, NEW bag \in [0..n -> 0..m]
  PROVE  bag \in [0..n -> Nat] /\ IsFiniteSet(Units(bag)) /\ Total(bag) \in Nat
<1>0. bag \in [0..n -> Nat] /\ \A a \in 0..n : bag[a] <= m
  OBVIOUS
<1>1. IsFiniteSet(0..n) /\ IsFiniteSet(1..m)
  BY FS_Interval
<1>2. IsFiniteSet((0..n) \X (1..m))
  BY <1>1, FS_Product
<1>3. Units(bag) \subseteq (0..n) \X (1..m)
  <2>1. ASSUME NEW u \in Units(bag)
        PROVE  u \in (0..n) \X (1..m)
    <3>1. u = <<u[1], u[2]>> /\ u[1] \in 0..n /\ u[2] \in 1..bag[u[1]]
      BY <1>0, UnitsOfBag
    <3>2. u[2] \in 1..m
      BY <1>0, <3>1
    <3> QED
      BY <3>1, <3>2
  <2> QED
    BY <2>1
<1>4. IsFiniteSet(Units(bag))
  BY <1>2, <1>3, FS_Subset
<1> QED
  BY <1>0, <1>4, FS_CardinalityType DEF Total

\* A bag counts no more than one that has as much of everything, and less if
\* that one has more of something.
LEMMA SmallerBag ==
  ASSUME NEW n \in Nat, NEW l \in Nat, l <= n, NEW m \in Nat,
         NEW small \in [0..l -> 0..m], NEW big \in [0..n -> 0..m],
         \A a \in 0..l : small[a] <= big[a]
  PROVE  /\ Total(small) <= Total(big)
         /\ \A a \in 0..n :
              big[a] > 0 /\ (a \in 0..l => small[a] < big[a]) => Total(small) < Total(big)
<1>1. /\ small \in [0..l -> Nat] /\ IsFiniteSet(Units(small)) /\ Total(small) \in Nat
      /\ big \in [0..n -> Nat] /\ IsFiniteSet(Units(big)) /\ Total(big) \in Nat
  BY BagsAreFinite
<1>2. ASSUME NEW u \in Units(small)
      PROVE  u \in Units(big)
  <2>1. u = <<u[1], u[2]>> /\ u[1] \in 0..l /\ u[2] \in 1..small[u[1]]
    BY <1>1, UnitsOfBag
  <2>2. u[1] \in 0..n /\ u[2] \in 1..big[u[1]]
    BY <1>1, <2>1
  <2>3. <<u[1], u[2]>> \in Units(big)
    BY <1>1, <2>2, UnitsOfBag
  <2> QED
    BY <2>1, <2>3
<1>3. ASSUME NEW a \in 0..n, big[a] > 0, a \in 0..l => small[a] < big[a]
      PROVE  Total(small) < Total(big)
  <2>1. big[a] \in 1..big[a]
    BY <1>1, <1>3
  <2>2. <<a, big[a]>> \in Units(big)
    BY <1>1, <2>1, UnitsOfBag
  <2>3. ~(a \in 0..l /\ big[a] \in 1..small[a])
    BY <1>1, <1>3
  <2>4. <<a, big[a]>> \notin Units(small)
    BY <1>1, <2>3, UnitsOfBag
  <2>5. Units(small) \in SUBSET Units(big) /\ Units(small) # Units(big)
    BY <1>2, <2>2, <2>4
  <2>6. Total(small) <= Total(big) /\ Total(small) # Total(big)
    BY <1>1, <2>5, FS_Subset DEF Total
  <2> QED
    BY <1>1, <2>6
<1>4. Total(small) <= Total(big)
  <2>1. Units(small) \in SUBSET Units(big)
    BY <1>2
  <2> QED
    BY <1>1, <2>1, FS_Subset DEF Total
<1> QED
  BY <1>3, <1>4

LEMMA BagPlusOne ==
  ASSUME NEW n \in Nat, NEW m \in Nat, NEW bag \in [0..n -> 0..m], NEW age \in 0..n
  PROVE  /\ Total(Plus(bag, age)) = Total(bag) + 1
         /\ bag[age] <= Total(bag)
<1>1. /\ bag \in [0..n -> Nat] /\ IsFiniteSet(Units(bag)) /\ Total(bag) \in Nat
  BY BagsAreFinite
<1>2. /\ Plus(bag, age) \in [0..n -> Nat]
      /\ \A a \in 0..n : Plus(bag, age)[a] = IF a = age THEN bag[a] + 1 ELSE bag[a]
  BY <1>1 DEF Plus
<1> DEFINE new == <<age, bag[age] + 1>>
<1>3. Units(Plus(bag, age)) \subseteq Units(bag) \cup {new}
  <2> SUFFICES ASSUME NEW u \in Units(Plus(bag, age)), u \notin Units(bag)
               PROVE  u = new
    OBVIOUS
  <2>1. u = <<u[1], u[2]>> /\ u[1] \in 0..n /\ u[2] \in 1..Plus(bag, age)[u[1]]
    BY <1>2, UnitsOfBag
  <2>2. u[2] \notin 1..bag[u[1]]
    BY <1>1, <2>1, UnitsOfBag
  <2>3. u[1] = age /\ u[2] = bag[age] + 1
    BY <1>1, <1>2, <2>1, <2>2
  <2> QED
    BY <2>1, <2>3
<1>4. Units(bag) \subseteq Units(Plus(bag, age))
  <2> SUFFICES ASSUME NEW u \in Units(bag)
               PROVE  u \in Units(Plus(bag, age))
    OBVIOUS
  <2>1. u = <<u[1], u[2]>> /\ u[1] \in 0..n /\ u[2] \in 1..bag[u[1]]
    BY <1>1, UnitsOfBag
  <2>2. u[2] \in 1..Plus(bag, age)[u[1]]
    BY <1>1, <1>2, <2>1
  <2>3. <<u[1], u[2]>> \in Units(Plus(bag, age))
    BY <1>2, <2>1, <2>2, UnitsOfBag
  <2> QED
    BY <2>1, <2>3
<1>5. new \in Units(Plus(bag, age))
  <2>1. bag[age] + 1 \in 1..Plus(bag, age)[age]
    BY <1>1, <1>2
  <2> QED
    BY <1>2, <2>1, UnitsOfBag
<1>6. new \notin Units(bag)
  <2>1. bag[age] + 1 \notin 1..bag[age]
    BY <1>1
  <2> QED
    BY <1>1, <2>1, UnitsOfBag
<1>7. Units(Plus(bag, age)) = Units(bag) \cup {new}
  BY <1>3, <1>4, <1>5
<1>8. bag[age] <= Total(bag)
  <2> DEFINE mine == {age} \X (1..bag[age])
  <2>1. IsFiniteSet(1..bag[age]) /\ Cardinality(1..bag[age]) = bag[age]
    <3> DEFINE k == bag[age]
    <3>1. k \in Nat
      BY <1>1
    <3> HIDE DEF k
    <3>2. IsFiniteSet(1..k) /\ Cardinality(1..k) = IF 1 > k THEN 0 ELSE k - 1 + 1
      <4>1. 1 \in Int /\ k \in Int
        BY <3>1
      <4> QED
        BY ONLY <4>1, FS_Interval, Zenon
    <3>3. IsFiniteSet(1..k) /\ Cardinality(1..k) = k
      BY <3>1, <3>2
    <3> QED
      BY <3>3 DEF k
  <2>2. IsFiniteSet({age}) /\ Cardinality({age}) = 1
    BY FS_Singleton
  <2>3. Cardinality(mine) = 1 * bag[age]
    BY <2>1, <2>2, FS_Product
  <2>4. ASSUME NEW u \in mine
        PROVE  u \in Units(bag)
    <3>1. PICK k \in 1..bag[age] : u = <<age, k>>
      BY <2>4
    <3> QED
      BY <1>1, <3>1, UnitsOfBag
  <2> HIDE DEF mine
  <2>5. mine \in SUBSET Units(bag)
    BY <2>4
  <2>6. Cardinality(mine) <= Total(bag)
    BY <1>1, <2>5, FS_Subset DEF Total
  <2> QED
    BY <1>1, <2>3, <2>6
<1> QED
  BY <1>1, <1>6, <1>7, <1>8, FS_AddElement DEF Total

\* Nothing is added when the second ends, and what was oldest is forgotten.
LEMMA OlderBag ==
  ASSUME NEW n \in Nat, NEW m \in Nat, NEW bag \in [0..n -> 0..m]
  PROVE  /\ Older(bag) \in [0..n -> 0..m]
         /\ \A a \in 0..n : Older(bag)[a] = IF a = 0 THEN 0 ELSE bag[a - 1]
         /\ Total(Older(bag)) <= Total(bag)
         /\ bag[n] > 0 => Total(Older(bag)) < Total(bag)
<1>1. /\ Older(bag) \in [0..n -> 0..m]
      /\ \A a \in 0..n : Older(bag)[a] = IF a = 0 THEN 0 ELSE bag[a - 1]
  BY DEF Older
<1>2. /\ bag \in [0..n -> Nat] /\ IsFiniteSet(Units(bag)) /\ Total(bag) \in Nat
      /\ Older(bag) \in [0..n -> Nat] /\ Total(Older(bag)) \in Nat
  BY <1>1, BagsAreFinite
<1> DEFINE shifted(u) == <<u[1] - 1, u[2]>>
           f == [u \in Units(Older(bag)) |-> shifted(u)]
           rest == Units(bag) \ {<<n, bag[n]>>}
<1>3. ASSUME NEW u \in Units(Older(bag))
      PROVE  /\ u = <<u[1], u[2]>> /\ u[1] \in Nat /\ u[2] \in Nat
             /\ shifted(u) \in rest
  <2>1. u = <<u[1], u[2]>> /\ u[1] \in 0..n /\ u[2] \in 1..Older(bag)[u[1]]
    BY <1>2, UnitsOfBag
  <2>2. u[1] - 1 \in 0..n /\ u[1] - 1 # n /\ u[2] \in 1..bag[u[1] - 1]
    BY <1>1, <2>1
  <2>3. shifted(u) \in Units(bag)
    BY <1>2, <2>2, UnitsOfBag
  <2> QED
    BY <2>1, <2>2, <2>3
<1>4. f \in Injection(Units(Older(bag)), rest)
  <2>1. f \in [Units(Older(bag)) -> rest]
    BY <1>3
  <2>2. ASSUME NEW u \in Units(Older(bag)), NEW v \in Units(Older(bag)), f[u] = f[v]
        PROVE  u = v
    <3>1. u[1] - 1 = v[1] - 1 /\ u[2] = v[2]
      BY <2>2
    <3>2. u[1] \in Nat /\ v[1] \in Nat
      BY <1>3
    <3>3. \A i, j \in Nat : i - 1 = j - 1 => i = j
      OBVIOUS
    <3>4. u[1] = v[1]
      BY <3>1, <3>2, <3>3, Zenon
    <3> QED
      BY <1>3, <3>1, <3>4
  <2> HIDE DEF f, rest
  <2> QED
    BY <2>1, <2>2 DEF Injection, IsInjective
<1>5. IsFiniteSet(rest)
  BY <1>2, FS_RemoveElement
<1>6. Cardinality(rest) = IF <<n, bag[n]>> \in Units(bag) THEN Total(bag) - 1 ELSE Total(bag)
  BY <1>2, FS_RemoveElement DEF Total
<1>7. bag[n] > 0 => <<n, bag[n]>> \in Units(bag)
  <2>1. bag[n] > 0 => n \in 0..n /\ bag[n] \in 1..bag[n]
    BY <1>2
  <2> QED
    BY <1>2, <2>1, UnitsOfBag
<1> HIDE DEF f, rest
<1>8. Total(Older(bag)) <= Cardinality(rest)
  BY <1>4, <1>5, FS_Injection DEF Total
<1> QED
  BY <1>1, <1>2, <1>6, <1>7, <1>8

-----------------------------------------------------------------------------
(* The steps *)

USE LimitsAssumption DEF Stages, NoAdvice

\* The oldest ages are natural numbers, and a clock reading is an age.
LEMMA AgesFit ==
  /\ Window + MaxDelay - 1 \in Nat /\ Window - 1 \in Nat /\ Window - 1 <= Window + MaxDelay - 1
  /\ GateWindow + MaxDelay - 1 \in Nat
  /\ 0..MaxDelay \subseteq Ages /\ 0..MaxDelay \subseteq GateAges
  /\ MaxDelay \in Nat
BY DEF Ages, GateAges

\* Dropping what is too old leaves a smaller bag, smaller by what it drops.
LEMMA CurrentHits ==
  ASSUME LimitsTypeOK, NEW r \in Arrivals
  PROVE  /\ Current(r) \in [Ages -> 0..MaxRequests]
         /\ \A a \in Ages : Current(r)[a] = IF a < Window + arrival[r].read THEN hits[a] ELSE 0
         /\ Total(Current(r)) <= Total(hits)
         /\ Total(hits) \in Nat /\ Total(Current(r)) \in Nat
         /\ \A a \in Ages :
              hits[a] > 0 /\ a >= Window + arrival[r].read => Total(Current(r)) < Total(hits)
<1>1. /\ Current(r) \in [Ages -> 0..MaxRequests] /\ hits \in [Ages -> 0..MaxRequests]
      /\ \A a \in Ages : Current(r)[a] = IF a < Window + arrival[r].read THEN hits[a] ELSE 0
  BY DEF LimitsTypeOK, Current, Only, Kept
<1>2. arrival[r].read \in Nat
  BY DEF LimitsTypeOK
<1>3. \A a \in Ages : Current(r)[a] <= hits[a]
  BY <1>1
<1>4. Total(hits) \in Nat /\ Total(Current(r)) \in Nat
  BY <1>1, AgesFit, BagsAreFinite DEF Ages
<1>5. \A a \in Ages :
        hits[a] > 0 /\ a >= Window + arrival[r].read => Current(r)[a] < hits[a]
  BY <1>1, <1>2 DEF Ages
<1> DEFINE now == Current(r)
           n == Window + MaxDelay - 1
<1>6. /\ n \in Nat /\ now \in [0..n -> 0..MaxRequests] /\ hits \in [0..n -> 0..MaxRequests]
      /\ \A a \in 0..n : now[a] <= hits[a]
  BY <1>1, <1>3, AgesFit DEF Ages
<1>7. /\ Total(now) <= Total(hits)
      /\ \A a \in 0..n : hits[a] > 0 /\ now[a] < hits[a] => Total(now) < Total(hits)
  <2> HIDE DEF now, n
  <2>1. n <= n
    BY <1>6
  <2> QED
    BY <1>6, <2>1, SmallerBag
<1> QED
  BY <1>1, <1>4, <1>5, <1>7 DEF Ages

LEMMA ServedBelowHits ==
  ASSUME LimitsTypeOK, ServedAreHits
  PROVE  Total(served) <= MaxRequests
<1> DEFINE n == Window + MaxDelay - 1
           l == Window - 1
<1>1. /\ n \in Nat /\ l \in Nat /\ l <= n /\ MaxRequests \in Nat
      /\ served \in [0..l -> 0..MaxRequests] /\ hits \in [0..n -> 0..MaxRequests]
      /\ \A a \in 0..l : served[a] <= hits[a]
      /\ Total(hits) <= MaxRequests
  BY AgesFit DEF LimitsTypeOK, ServedAreHits, Ages
<1> HIDE DEF n, l
<1>2. Total(served) <= Total(hits)
  BY <1>1, SmallerBag
<1>3. Total(served) \in Nat /\ Total(hits) \in Nat
  BY <1>1, BagsAreFinite
<1> QED
  BY <1>1, <1>2, <1>3

\* One more hit fits as long as the limit is not reached.
LEMMA OneMoreHit ==
  ASSUME LimitsTypeOK, NEW r \in Arrivals, Below(Total(Current(r)), MaxRequests)
  PROVE  /\ Plus(Current(r), arrival[r].read) \in [Ages -> 0..MaxRequests]
         /\ Total(Plus(Current(r), arrival[r].read)) <= MaxRequests
         /\ \A a \in Ages : Plus(Current(r), arrival[r].read)[a] =
              IF a = arrival[r].read THEN Current(r)[a] + 1 ELSE Current(r)[a]
<1> DEFINE n == Window + MaxDelay - 1
           now == Current(r)
           age == arrival[r].read
<1>1. /\ n \in Nat /\ MaxRequests \in Nat /\ now \in [0..n -> 0..MaxRequests] /\ age \in 0..n
      /\ Total(now) < MaxRequests /\ Total(now) \in Nat /\ Ages = 0..n
  BY AgesFit, CurrentHits DEF LimitsTypeOK, Ages, Below
<1> HIDE DEF n, now, age
<1>2. Total(Plus(now, age)) = Total(now) + 1 /\ now[age] <= Total(now)
  BY <1>1, BagPlusOne
<1>3. now[age] + 1 \in 0..MaxRequests
  BY <1>1, <1>2
<1>4. /\ Plus(now, age) \in [Ages -> 0..MaxRequests]
      /\ \A a \in Ages : Plus(now, age)[a] = IF a = age THEN now[a] + 1 ELSE now[a]
  BY <1>1, <1>3 DEF Plus
<1>5. Total(Plus(now, age)) <= MaxRequests
  BY <1>1, <1>2
<1> QED
  BY <1>4, <1>5 DEF now, age

\* The arrivals after a step of one of them.
LEMMA OneDrops ==
  ASSUME LimitsTypeOK, NEW r \in Arrivals, Drop(r)
  PROVE  /\ arrival' \in [Arrivals -> [at: Stages, read: 0..MaxDelay, advised: BOOLEAN]]
         /\ \A q \in Arrivals : arrival'[q] = IF q = r THEN Absent ELSE arrival[q]
         /\ Absent.at = "idle" /\ Absent.read = 0 /\ Absent.advised = FALSE
BY DEF LimitsTypeOK, Drop, Absent

LEMMA OnePasses ==
  ASSUME LimitsTypeOK, NEW r \in Arrivals, Pass(r)
  PROVE  /\ arrival' \in [Arrivals -> [at: Stages, read: 0..MaxDelay, advised: BOOLEAN]]
         /\ \A q \in Arrivals \ {r} : arrival'[q] = arrival[q]
         /\ arrival'[r].at = "passed" /\ arrival'[r].read = 0
         /\ arrival'[r].advised = arrival[r].advised
<1> DEFINE new == [at |-> "passed", read |-> 0, advised |-> arrival[r].advised]
<1>1. /\ arrival \in [Arrivals -> [at: Stages, read: 0..MaxDelay, advised: BOOLEAN]]
      /\ arrival[r].advised \in BOOLEAN
  BY DEF LimitsTypeOK
<1>4. arrival' = [arrival EXCEPT ![r] = new]
  BY <1>1 DEF Pass
<1>5. 0 \in 0..MaxDelay /\ "passed" \in Stages
  BY AgesFit
<1>6. new \in [at: Stages, read: 0..MaxDelay, advised: BOOLEAN]
  BY <1>1, <1>5
<1> HIDE DEF new
<1>7. /\ arrival' \in [Arrivals -> [at: Stages, read: 0..MaxDelay, advised: BOOLEAN]]
      /\ \A q \in Arrivals \ {r} : arrival'[q] = arrival[q]
      /\ arrival'[r] = new
  BY <1>1, <1>4, <1>6
<1> QED
  BY <1>7 DEF new

LEMMA CountingSeconds ==
  ASSUME NEW S \in SUBSET GateAges
  PROVE  IsFiniteSet(S) /\ Cardinality(S) \in Nat
<1>1. IsFiniteSet(GateAges)
  BY AgesFit, FS_Interval DEF GateAges
<1> QED
  BY <1>1, FS_Subset, FS_CardinalityType

\* What is advised is one request alone, and advice is for a client that has none.
LEMMA BusyClient ==
  ASSUME LimitsInv, NEW r \in Arrivals, arrival[r].at # "idle"
  PROVE  advice = NoAdvice /\ \A q \in Arrivals \ {r} : ~arrival[q].advised
BY DEF LimitsInv, AdviceIsDue, AdvisedIsAlone

LEMMA RequestEnds ==
  ASSUME LimitsInv, NEW r \in Arrivals, arrival[r].at # "idle", Drop(r), advice' = advice
  PROVE  AdviceIsDue' /\ AdvisedIsAlone'
<1>1. advice' = NoAdvice /\ \A q \in Arrivals \ {r} : ~arrival[q].advised
  BY BusyClient
<1>2. \A q \in Arrivals : arrival'[q] = IF q = r THEN Absent ELSE arrival[q]
  BY OneDrops DEF LimitsInv
<1>3. Absent.at = "idle" /\ Absent.read = 0 /\ Absent.advised = FALSE
  BY DEF Absent
<1>4. \A q \in Arrivals :
        /\ ~arrival'[q].advised
        /\ arrival'[q].at \in {"idle", "passed"} => arrival'[q].read = 0
  BY <1>1, <1>2, <1>3 DEF LimitsInv, AdvisedIsAlone
<1> QED
  BY <1>1, <1>4 DEF AdviceIsDue, AdvisedIsAlone

LEMMA RequestPasses ==
  ASSUME LimitsInv, NEW r \in Arrivals, arrival[r].at = "gate", Pass(r),
         advice' = advice, hits' = hits
  PROVE  AdviceIsDue' /\ AdvisedIsAlone'
<1>1. advice' = NoAdvice /\ \A q \in Arrivals \ {r} : ~arrival[q].advised
  BY BusyClient
<1>2. /\ \A q \in Arrivals \ {r} : arrival'[q] = arrival[q]
      /\ arrival'[r].at = "passed" /\ arrival'[r].read = 0
      /\ arrival'[r].advised = arrival[r].advised
  BY OnePasses DEF LimitsInv
<1>3. arrival[r].advised =>
        /\ \A q \in Arrivals \ {r} : arrival[q].at = "idle"
        /\ Room(hits, Window + 0)
  BY DEF LimitsInv, AdvisedIsAlone
<1>4. AdviceIsDue'
  BY <1>1 DEF AdviceIsDue
<1>5. ASSUME NEW q \in Arrivals
      PROVE  /\ arrival'[q].at \in {"idle", "passed"} => arrival'[q].read = 0
             /\ arrival'[q].advised =>
                  /\ q = r /\ \A p \in Arrivals \ {r} : arrival'[p].at = "idle"
                  /\ Room(hits', Window + 0)
  <2>1. CASE q = r
    BY <1>2, <1>3, <2>1
  <2>2. CASE q # r
    BY <1>1, <1>2, <2>2 DEF LimitsInv, AdvisedIsAlone
  <2> QED
    BY <2>1, <2>2
<1>6. AdvisedIsAlone'
  BY <1>1, <1>2, <1>5 DEF AdvisedIsAlone
<1> QED
  BY <1>4, <1>6

\* Older hits leave the room there was, one second further on.
LEMMA RoomStays ==
  ASSUME LimitsTypeOK, NEW age \in Int, Room(hits, age), hits' = Older(hits)
  PROVE  Room(hits', age + 1)
<1> DEFINE n == Window + MaxDelay - 1
<1>1. /\ n \in Nat /\ MaxRequests \in Nat /\ hits \in [0..n -> 0..MaxRequests]
      /\ Total(hits) <= MaxRequests /\ Ages = 0..n
  BY AgesFit DEF LimitsTypeOK, Ages
<1> HIDE DEF n
<1>2. /\ hits' \in [0..n -> 0..MaxRequests]
      /\ \A a \in 0..n : hits'[a] = IF a = 0 THEN 0 ELSE hits[a - 1]
      /\ Total(hits') <= Total(hits)
      /\ hits[n] > 0 => Total(hits') < Total(hits)
  <2>1. /\ Older(hits) \in [0..n -> 0..MaxRequests]
        /\ \A a \in 0..n : Older(hits)[a] = IF a = 0 THEN 0 ELSE hits[a - 1]
        /\ Total(Older(hits)) <= Total(hits)
        /\ hits[n] > 0 => Total(Older(hits)) < Total(hits)
    BY <1>1, OlderBag
  <2> QED
    BY <2>1, Zenon
<1>3. Total(hits) \in Nat /\ Total(hits') \in Nat
  BY <1>1, <1>2, BagsAreFinite
<1>4. CASE Total(hits) < MaxRequests
  BY <1>1, <1>2, <1>3, <1>4 DEF Room
<1>5. ASSUME NEW a \in Ages, hits[a] > 0, a >= age
      PROVE  Room(hits', age + 1)
  <2>1. CASE a = n
    BY <1>1, <1>2, <1>3, <1>5, <2>1 DEF Room
  <2>2. CASE a # n
    <3>1. a + 1 \in 0..n /\ a + 1 >= age + 1 /\ a + 1 # 0 /\ a + 1 - 1 = a
      BY <1>1, <1>5, <2>2
    <3>2. hits'[a + 1] = hits[a]
      <4> DEFINE b == a + 1
      <4>1. b \in 0..n /\ b # 0 /\ b - 1 = a
        BY <1>1, <3>1
      <4> HIDE DEF b
      <4>2. hits'[b] = hits[a]
        BY <1>2, <4>1, Zenon
      <4> QED
        BY <4>2 DEF b
    <3>3. hits'[a + 1] > 0
      BY <1>5, <3>2
    <3> QED
      BY <1>1, <3>1, <3>3 DEF Room
  <2> QED
    BY <2>1, <2>2
<1> QED
  BY <1>4, <1>5 DEF Room

LEMMA RoomForYounger ==
  ASSUME NEW bag, NEW age \in Int, NEW younger \in Int, younger <= age, Room(bag, age)
  PROVE  Room(bag, younger)
BY DEF Room, Ages

-----------------------------------------------------------------------------
(* Each step keeps the invariant *)

LEMMA KeptInRange ==
  ASSUME LimitsTypeOK, NEW r \in Arrivals
  PROVE  Marked(r) \subseteq GateAges /\ arrival[r].read \in GateAges \cap Ages
BY AgesFit DEF LimitsTypeOK, Marked, Kept

LEMMA SendKeepsInv ==
  ASSUME LimitsInv, NEW r \in Arrivals, Send(r)
  PROVE  LimitsInv'
<1> DEFINE recs == [at: Stages, read: 0..MaxDelay, advised: BOOLEAN]
           alone == \A q \in Arrivals : arrival[q].at = "idle"
           mine == [at |-> "gate", read |-> 0, advised |-> alone /\ advice = 0]
           plain(a) == [a EXCEPT !.advised = FALSE]
<1>1. arrival \in [Arrivals -> recs] /\ 0 \in 0..MaxDelay
  BY AgesFit DEF LimitsInv, LimitsTypeOK
<1>2. arrival' = [q \in Arrivals |-> IF q = r THEN mine ELSE plain(arrival[q])]
  BY DEF Send
<1>3. mine \in recs /\ mine.at = "gate" /\ (mine.advised <=> alone /\ advice = 0)
  <2>1. (alone /\ advice = 0) \in BOOLEAN
    OBVIOUS
  <2> QED
    BY <1>1, <2>1
<1>4. ASSUME NEW a \in recs
      PROVE  /\ plain(a) \in recs /\ ~plain(a).advised
             /\ plain(a).at = a.at /\ plain(a).read = a.read
  BY <1>4
<1> HIDE DEF recs, alone, mine, plain
<1>5. /\ arrival' \in [Arrivals -> recs] /\ arrival'[r] = mine
      /\ \A q \in Arrivals \ {r} :
           /\ ~arrival'[q].advised
           /\ arrival'[q].at = arrival[q].at /\ arrival'[q].read = arrival[q].read
  BY <1>1, <1>2, <1>3, <1>4
<1>6. /\ advice' = NoAdvice
      /\ UNCHANGED <<marks, memory, hits, seconds, served>>
  BY DEF Send
<1>7. LimitsTypeOK'
  <2>1. advice' \in NoAdvice..(Window + MaxDelay)
    BY <1>6, AgesFit
  <2> QED
    BY <1>5, <1>6, <2>1 DEF LimitsInv, LimitsTypeOK, recs
<1>8. ServedAreHits' /\ SecondsAreMarked' /\ AdviceIsDue'
  BY <1>6 DEF LimitsInv, ServedAreHits, SecondsAreMarked, InWindow, AdviceIsDue
<1>9. AdvisedIsAlone'
  <2>1. ASSUME NEW q \in Arrivals
        PROVE  /\ arrival'[q].at \in {"idle", "passed"} => arrival'[q].read = 0
               /\ arrival'[q].advised => q = r
    <3>1. CASE q = r
      BY <1>3, <1>5, <3>1
    <3>2. CASE q # r
      BY <1>5, <3>2 DEF LimitsInv, AdvisedIsAlone
    <3> QED
      BY <3>1, <3>2
  <2>2. ASSUME arrival'[r].advised
        PROVE  /\ \A q \in Arrivals \ {r} : arrival'[q].at = "idle"
               /\ Room(hits', Window + 0)
    <3>1. alone /\ advice = 0
      BY <1>3, <1>5, <2>2
    <3>2. Room(hits, Window - 0)
      BY <3>1 DEF LimitsInv, AdviceIsDue
    <3> QED
      BY <1>5, <1>6, <3>1, <3>2 DEF alone
  <2> QED
    BY <1>3, <1>5, <1>6, <2>1, <2>2 DEF AdvisedIsAlone
<1> QED
  BY <1>7, <1>8, <1>9 DEF LimitsInv

\* Every second in the window that let a request by is still marked.
LEMMA MarksStay ==
  ASSUME LimitsInv, NEW r \in Arrivals
  PROVE  InWindow \subseteq Kept(marks, r, GateWindow)
<1>1. arrival[r].read \in Nat /\ GateWindow \in Nat /\ seconds \subseteq Int
  BY AgesFit DEF LimitsInv, LimitsTypeOK, GateAges
<1>2. \A a \in InWindow : a \in marks /\ a \in Int /\ a < GateWindow
  BY <1>1 DEF LimitsInv, SecondsAreMarked, InWindow
<1> QED
  BY <1>1, <1>2 DEF Kept

LEMMA GateKeepsInv ==
  ASSUME LimitsInv, NEW r \in Arrivals, Gate(r)
  PROVE  LimitsInv'
<1> DEFINE age == arrival[r].read
           kept == Kept(marks, r, GateWindow)
<1>1. /\ arrival[r].at = "gate" /\ marks' = kept \cup {age}
      /\ UNCHANGED <<memory, hits, advice, served>>
  BY DEF Gate, Marked
<1>2. marks' \subseteq GateAges /\ age \in GateAges /\ marks' = Marked(r)
  BY <1>1, KeptInRange DEF LimitsInv, Marked
<1>3. \/ /\ Cardinality(kept) < GateLimit /\ Pass(r)
         /\ seconds' = seconds \cup {age}
      \/ Drop(r) /\ seconds' = seconds
  BY DEF Gate, Below
<1>4. LimitsTypeOK'
  BY <1>1, <1>2, <1>3, OneDrops, OnePasses DEF LimitsInv, LimitsTypeOK
<1>5. ServedAreHits'
  BY <1>1 DEF LimitsInv, ServedAreHits
<1>6. SecondsAreMarked'
  <2>1. InWindow \subseteq kept /\ kept \subseteq marks'
    BY <1>1, MarksStay
  <2>2. CASE seconds' = seconds
    BY <2>1, <2>2 DEF LimitsInv, SecondsAreMarked, InWindow
  <2>3. CASE Cardinality(kept) < GateLimit /\ seconds' = seconds \cup {age}
    <3>1. InWindow' \subseteq InWindow \cup {age}
      BY <2>3 DEF InWindow
    <3>2. InWindow' \subseteq marks'
      BY <1>1, <2>1, <3>1
    <3>3. kept \in SUBSET GateAges /\ InWindow \in SUBSET GateAges
      BY <1>2, <1>1, <2>1
    <3> HIDE DEF kept, age
    <3>4. /\ IsFiniteSet(kept) /\ Cardinality(kept) \in Nat
          /\ IsFiniteSet(InWindow) /\ Cardinality(InWindow) \in Nat
      BY <3>3, CountingSeconds
    <3>5. Cardinality(InWindow) <= Cardinality(kept)
      BY <2>1, <3>4, FS_Subset
    <3>6. /\ IsFiniteSet(InWindow \cup {age})
          /\ Cardinality(InWindow \cup {age}) <= Cardinality(InWindow) + 1
      <4>1. /\ IsFiniteSet(InWindow \cup {age})
            /\ Cardinality(InWindow \cup {age})
                 = IF age \in InWindow THEN Cardinality(InWindow) ELSE Cardinality(InWindow) + 1
        BY <3>4, FS_AddElement
      <4> QED
        BY <3>4, <4>1
    <3>7. Cardinality(InWindow') <= Cardinality(InWindow \cup {age})
      BY <3>1, <3>6, FS_Subset
    <3>8. Cardinality(InWindow') \in Nat /\ Cardinality(InWindow \cup {age}) \in Nat
      BY <3>1, <3>6, FS_Subset, FS_CardinalityType
    <3>9. Cardinality(InWindow') <= GateLimit
      BY <2>3, <3>4, <3>5, <3>6, <3>7, <3>8
    <3> QED
      BY <3>2, <3>9 DEF SecondsAreMarked
  <2> QED
    BY <1>3, <2>2, <2>3
<1>7. AdviceIsDue' /\ AdvisedIsAlone'
  BY <1>1, <1>3, RequestEnds, RequestPasses
<1> QED
  BY <1>4, <1>5, <1>6, <1>7 DEF LimitsInv

LEMMA GateFallbackKeepsInv ==
  ASSUME LimitsInv, NEW r \in Arrivals, GateFallback(r)
  PROVE  LimitsInv'
<1> DEFINE age == arrival[r].read
           now == Only(memory, Kept(GateAges, r, GateWindow))
           n == GateWindow + MaxDelay - 1
<1>1. /\ arrival[r].at = "gate" /\ marks' \in {marks, Marked(r)}
      /\ UNCHANGED <<hits, advice, seconds, served>>
  BY DEF GateFallback
<1>2. \/ Total(now) < GateLimit /\ memory' = Plus(now, age) /\ Pass(r)
      \/ memory' = now /\ Drop(r)
  BY DEF GateFallback, Below
<1>3. /\ n \in Nat /\ GateAges = 0..n /\ age \in 0..n /\ GateLimit \in Nat
      /\ now \in [0..n -> 0..GateLimit]
  <2>1. n \in Nat /\ GateAges = 0..n /\ age \in 0..n /\ GateLimit \in Nat
    BY AgesFit, KeptInRange DEF LimitsInv, GateAges
  <2>2. memory \in [0..n -> 0..GateLimit]
    BY DEF LimitsInv, LimitsTypeOK, GateAges
  <2> HIDE DEF n
  <2>3. now \in [0..n -> 0..GateLimit]
    BY <2>1, <2>2 DEF Only
  <2> QED
    BY <2>1, <2>3
<1>4. memory' \in [GateAges -> 0..GateLimit]
  <2> HIDE DEF n, now, age
  <2>1. CASE memory' = now
    BY <1>3, <2>1
  <2>2. CASE Total(now) < GateLimit /\ memory' = Plus(now, age)
    <3>1. now[age] <= Total(now) /\ Total(now) \in Nat
      BY <1>3, BagPlusOne, BagsAreFinite
    <3>2. now[age] + 1 \in 0..GateLimit
      BY <1>3, <2>2, <3>1
    <3> QED
      BY <1>3, <2>2, <3>2 DEF Plus
  <2> QED
    BY <1>2, <2>1, <2>2
<1>5. LimitsTypeOK'
  <2>1. marks' \subseteq GateAges
    BY <1>1, KeptInRange DEF LimitsInv, LimitsTypeOK
  <2> QED
    BY <1>1, <1>2, <1>4, <2>1, OneDrops, OnePasses DEF LimitsInv, LimitsTypeOK
<1>6. ServedAreHits'
  BY <1>1 DEF LimitsInv, ServedAreHits
<1>7. SecondsAreMarked'
  <2>1. InWindow' = InWindow
    BY <1>1 DEF InWindow
  <2>2. InWindow \subseteq marks'
    BY <1>1, MarksStay DEF LimitsInv, SecondsAreMarked, Marked
  <2> QED
    BY <2>1, <2>2 DEF LimitsInv, SecondsAreMarked
<1>8. AdviceIsDue' /\ AdvisedIsAlone'
  BY <1>1, <1>2, RequestEnds, RequestPasses
<1> QED
  BY <1>5, <1>6, <1>7, <1>8 DEF LimitsInv

LEMMA ReadClockKeepsInv ==
  ASSUME LimitsInv, NEW r \in Arrivals, ReadClock(r)
  PROVE  LimitsInv'
<1> DEFINE recs == [at: Stages, read: 0..MaxDelay, advised: BOOLEAN]
           reading(a) == [a EXCEPT !.at = "limit"]
<1>1. /\ arrival \in [Arrivals -> recs] /\ arrival[r].at = "passed"
      /\ arrival' = [arrival EXCEPT ![r] = reading(arrival[r])]
      /\ UNCHANGED <<marks, memory, hits, advice, seconds, served>>
  BY DEF ReadClock, LimitsInv, LimitsTypeOK
<1>2. ASSUME NEW a \in recs
      PROVE  /\ reading(a) \in recs /\ reading(a).at = "limit"
             /\ reading(a).read = a.read /\ reading(a).advised = a.advised
  BY <1>2
<1> HIDE DEF recs, reading
<1>3. /\ arrival' \in [Arrivals -> recs] /\ \A q \in Arrivals \ {r} : arrival'[q] = arrival[q]
      /\ arrival'[r].at = "limit" /\ arrival'[r].read = arrival[r].read
      /\ arrival'[r].advised = arrival[r].advised
  BY <1>1, <1>2
<1>4. LimitsTypeOK' /\ ServedAreHits' /\ SecondsAreMarked'
  BY <1>1, <1>3
  DEF LimitsInv, LimitsTypeOK, ServedAreHits, SecondsAreMarked, InWindow, recs
<1>5. advice' = NoAdvice /\ \A q \in Arrivals \ {r} : ~arrival[q].advised
  BY <1>1, BusyClient
<1>6. AdviceIsDue'
  BY <1>5 DEF AdviceIsDue
<1>7. AdvisedIsAlone'
  <2>1. ASSUME NEW q \in Arrivals
        PROVE  /\ arrival'[q].at \in {"idle", "passed"} => arrival'[q].read = 0
               /\ arrival'[q].advised => q = r
    <3>1. CASE q = r
      BY <1>3, <3>1
    <3>2. CASE q # r
      BY <1>3, <1>5, <3>2 DEF LimitsInv, AdvisedIsAlone
    <3> QED
      BY <3>1, <3>2
  <2>2. ASSUME arrival'[r].advised
        PROVE  /\ \A q \in Arrivals \ {r} : arrival'[q].at = "idle"
               /\ Room(hits', Window + arrival'[r].read)
    <3>1. arrival[r].read = 0 /\ Room(hits, Window + 0)
      BY <1>1, <1>3, <2>2 DEF LimitsInv, AdvisedIsAlone
    <3>2. \A q \in Arrivals \ {r} : arrival[q].at = "idle"
      BY <1>3, <2>2 DEF LimitsInv, AdvisedIsAlone
    <3> QED
      BY <1>1, <1>3, <3>1, <3>2
  <2> QED
    BY <1>3, <1>5, <2>1, <2>2 DEF AdvisedIsAlone
<1> QED
  BY <1>4, <1>6, <1>7 DEF LimitsInv

\* The hits that the handler's limit drops count for nobody any more.
LEMMA ServedStay ==
  ASSUME LimitsInv, NEW r \in Arrivals
  PROVE  \A a \in 0..(Window - 1) : Current(r)[a] = hits[a] /\ served[a] <= Current(r)[a]
<1>1. arrival[r].read \in Nat /\ 0..(Window - 1) \subseteq Ages
  BY AgesFit DEF LimitsInv, LimitsTypeOK, Ages
<1>2. \A a \in Ages : Current(r)[a] = IF a < Window + arrival[r].read THEN hits[a] ELSE 0
  BY CurrentHits DEF LimitsInv
<1> QED
  BY <1>1, <1>2 DEF LimitsInv, ServedAreHits

LEMMA AdmitKeepsInv ==
  ASSUME LimitsInv, NEW r \in Arrivals, AdmitByScript(r)
  PROVE  LimitsInv'
<1> DEFINE age == arrival[r].read
           now == Current(r)
<1>1. /\ arrival[r].at = "limit" /\ Below(Total(now), MaxRequests) /\ Drop(r)
      /\ hits' = Plus(now, age)
      /\ served' = IF age = 0 THEN Plus(served, 0) ELSE served
      /\ UNCHANGED <<marks, memory, advice, seconds>>
  BY DEF AdmitByScript
<1>2. /\ hits' \in [Ages -> 0..MaxRequests] /\ Total(hits') <= MaxRequests
      /\ \A a \in Ages : hits'[a] = IF a = age THEN now[a] + 1 ELSE now[a]
  <2>1. /\ Plus(now, age) \in [Ages -> 0..MaxRequests]
        /\ Total(Plus(now, age)) <= MaxRequests
        /\ \A a \in Ages : Plus(now, age)[a] = IF a = age THEN now[a] + 1 ELSE now[a]
    BY <1>1, OneMoreHit DEF LimitsInv
  <2> QED
    BY <1>1, <2>1, Zenon
<1>3. /\ \A a \in 0..(Window - 1) : served[a] <= now[a] /\ now[a] \in Nat /\ served[a] \in Nat
      /\ served \in [0..(Window - 1) -> 0..MaxRequests]
      /\ 0 \in 0..(Window - 1) /\ 0..(Window - 1) \subseteq Ages
  <2>1. 0 \in 0..(Window - 1) /\ 0..(Window - 1) \subseteq Ages
    BY AgesFit DEF Ages
  <2>2. now \in [Ages -> 0..MaxRequests]
    BY CurrentHits DEF LimitsInv
  <2>3. \A a \in 0..(Window - 1) : served[a] <= now[a]
    BY ServedStay
  <2> HIDE DEF now
  <2> QED
    BY <2>1, <2>2, <2>3 DEF LimitsInv, LimitsTypeOK
<1> HIDE DEF now
<1>4. \A a \in 0..(Window - 1) :
        /\ served'[a] = IF a = 0 /\ age = 0 THEN served[a] + 1 ELSE served[a]
        /\ hits'[a] = IF a = age THEN now[a] + 1 ELSE now[a]
  BY <1>1, <1>2, <1>3 DEF Plus
<1>5. \A a \in 0..(Window - 1) :
        served'[a] <= hits'[a] /\ served'[a] \in Nat /\ hits'[a] \in 0..MaxRequests
  <2> SUFFICES ASSUME NEW a \in 0..(Window - 1)
               PROVE  served'[a] <= hits'[a] /\ served'[a] \in Nat /\ hits'[a] \in 0..MaxRequests
    OBVIOUS
  <2>1. a \in Ages /\ hits'[a] \in 0..MaxRequests
    BY <1>2, <1>3
  <2>2. served[a] <= now[a] /\ now[a] \in Nat /\ served[a] \in Nat
    BY <1>3
  <2>3. /\ served'[a] = IF a = 0 /\ age = 0 THEN served[a] + 1 ELSE served[a]
        /\ hits'[a] = IF a = age THEN now[a] + 1 ELSE now[a]
    BY <1>4
  <2> QED
    BY <2>1, <2>2, <2>3
<1>6. served' \in [0..(Window - 1) -> 0..MaxRequests]
  <2>1. /\ DOMAIN served' = 0..(Window - 1)
        /\ served' = [a \in 0..(Window - 1) |-> served'[a]]
    BY <1>1, <1>3 DEF Plus
  <2>2. \A a \in 0..(Window - 1) : served'[a] \in 0..MaxRequests
    BY <1>5
  <2> QED
    BY <2>1, <2>2
<1>7. LimitsTypeOK'
  BY <1>1, <1>2, <1>6, OneDrops DEF LimitsInv, LimitsTypeOK
<1>8. ServedAreHits'
  BY <1>5 DEF ServedAreHits
<1>9. SecondsAreMarked'
  BY <1>1 DEF LimitsInv, SecondsAreMarked, InWindow
<1>10. AdviceIsDue' /\ AdvisedIsAlone'
  BY <1>1, RequestEnds
<1> QED
  BY <1>7, <1>8, <1>9, <1>10 DEF LimitsInv

LEMMA RefuseKeepsInv ==
  ASSUME LimitsInv, NEW r \in Arrivals, RefuseByScript(r)
  PROVE  LimitsInv'
<1> DEFINE age == arrival[r].read
           now == Current(r)
<1>1. /\ arrival[r].at = "limit" /\ Drop(r) /\ hits' = now
      /\ UNCHANGED <<marks, memory, seconds, served>>
  BY DEF RefuseByScript
<1>2. /\ now \in [Ages -> 0..MaxRequests] /\ Total(now) <= MaxRequests
      /\ \A a \in Ages : now[a] = IF a < Window + age THEN hits[a] ELSE 0
      /\ age \in 0..MaxDelay
  BY CurrentHits DEF LimitsInv, LimitsTypeOK
<1>3. \A a \in 0..(Window - 1) : served[a] <= now[a]
  BY ServedStay
<1>4. /\ \A q \in Arrivals : ~arrival'[q].advised
      /\ \A q \in Arrivals : arrival'[q].at \in {"idle", "passed"} => arrival'[q].read = 0
      /\ arrival'[r].at = "idle" /\ \A q \in Arrivals \ {r} : arrival'[q] = arrival[q]
  <2>1. \A q \in Arrivals \ {r} : ~arrival[q].advised
    BY <1>1, BusyClient
  <2>2. /\ \A q \in Arrivals : arrival'[q] = IF q = r THEN Absent ELSE arrival[q]
        /\ Absent.at = "idle" /\ Absent.read = 0 /\ Absent.advised = FALSE
    BY <1>1, OneDrops DEF LimitsInv
  <2> QED
    BY <2>1, <2>2 DEF LimitsInv, AdvisedIsAlone
<1>5. PICK a \in Ages :
        /\ now[a] > 0
        /\ advice' = IF \A q \in Arrivals \ {r} : arrival[q].at = "idle"
                       THEN Window + age - a ELSE NoAdvice
  BY DEF RefuseByScript, IsOldest, RetryAfter
<1> HIDE DEF now
<1>6. a < Window + age /\ a \in Nat /\ Window \in Nat /\ age \in Nat /\ age <= MaxDelay
  BY <1>2, <1>5 DEF Ages
<1>7. advice' \in NoAdvice..(Window + MaxDelay)
  BY <1>5, <1>6, AgesFit
<1>8. LimitsTypeOK'
  BY <1>1, <1>2, <1>7, OneDrops DEF LimitsInv, LimitsTypeOK
<1>9. ServedAreHits' /\ SecondsAreMarked'
  BY <1>1, <1>3 DEF LimitsInv, ServedAreHits, SecondsAreMarked, InWindow
<1>10. AdviceIsDue'
  <2> SUFFICES ASSUME advice' # NoAdvice
               PROVE  /\ Room(hits', Window - advice')
                      /\ \A q \in Arrivals : arrival'[q].at = "idle"
    BY DEF AdviceIsDue
  <2>1. /\ advice' = Window + age - a
        /\ \A q \in Arrivals \ {r} : arrival[q].at = "idle"
    BY <1>5
  <2>2. hits'[a] > 0 /\ a >= Window - advice'
    BY <1>1, <1>5, <1>6, <2>1
  <2>3. Room(hits', Window - advice')
    BY <2>2 DEF Room
  <2> QED
    BY <1>4, <2>1, <2>3
<1>11. AdvisedIsAlone'
  BY <1>4 DEF AdvisedIsAlone
<1> QED
  BY <1>8, <1>9, <1>10, <1>11 DEF LimitsInv

LEMMA FaultKeepsInv ==
  ASSUME LimitsInv, NEW r \in Arrivals, LimitFault(r)
  PROVE  LimitsInv'
<1> DEFINE age == arrival[r].read
           now == Current(r)
<1>1. /\ arrival[r].at = "limit" /\ Drop(r)
      /\ UNCHANGED <<marks, memory, advice, seconds, served>>
      /\ \/ hits' = hits
         \/ hits' = now
         \/ Below(Total(now), MaxRequests) /\ hits' = Plus(now, age)
  BY DEF LimitFault
<1>2. /\ hits \in [Ages -> 0..MaxRequests] /\ Total(hits) <= MaxRequests
      /\ \A a \in 0..(Window - 1) : served[a] <= hits[a]
  BY DEF LimitsInv, LimitsTypeOK, ServedAreHits
<1>3. /\ now \in [Ages -> 0..MaxRequests] /\ Total(now) <= MaxRequests
      /\ \A a \in 0..(Window - 1) : served[a] <= now[a]
  BY CurrentHits, ServedStay DEF LimitsInv, LimitsTypeOK
<1>4. ASSUME Below(Total(now), MaxRequests)
      PROVE  /\ Plus(now, age) \in [Ages -> 0..MaxRequests]
             /\ Total(Plus(now, age)) <= MaxRequests
             /\ \A a \in 0..(Window - 1) : served[a] <= Plus(now, age)[a]
  <2>1. /\ Plus(now, age) \in [Ages -> 0..MaxRequests]
        /\ Total(Plus(now, age)) <= MaxRequests
        /\ \A a \in Ages : Plus(now, age)[a] = IF a = age THEN now[a] + 1 ELSE now[a]
    BY <1>4, OneMoreHit DEF LimitsInv
  <2>2. \A a \in 0..(Window - 1) : a \in Ages /\ now[a] \in Nat /\ served[a] \in Nat
    BY <1>3, AgesFit DEF LimitsInv, LimitsTypeOK, Ages
  <2> HIDE DEF now, age
  <2>3. ASSUME NEW a \in 0..(Window - 1)
        PROVE  served[a] <= Plus(now, age)[a]
    <3>1. Plus(now, age)[a] = IF a = age THEN now[a] + 1 ELSE now[a]
      BY <2>1, <2>2
    <3>2. now[a] \in Nat /\ served[a] \in Nat /\ served[a] <= now[a]
      BY <1>3, <2>2
    <3> QED
      BY <3>1, <3>2
  <2> QED
    BY <2>1, <2>3
<1> HIDE DEF now
<1>5. /\ hits' \in [Ages -> 0..MaxRequests] /\ Total(hits') <= MaxRequests
      /\ \A a \in 0..(Window - 1) : served[a] <= hits'[a]
  <2>1. CASE hits' = hits
    BY <1>2, <2>1, Zenon
  <2>2. CASE hits' = now
    BY <1>3, <2>2, Zenon
  <2>3. CASE Below(Total(now), MaxRequests) /\ hits' = Plus(now, age)
    BY <1>4, <2>3, Zenon
  <2> QED
    BY <1>1, <2>1, <2>2, <2>3
<1>6. LimitsTypeOK'
  BY <1>1, <1>5, OneDrops DEF LimitsInv, LimitsTypeOK
<1>7. ServedAreHits' /\ SecondsAreMarked'
  BY <1>1, <1>5 DEF LimitsInv, ServedAreHits, SecondsAreMarked, InWindow
<1>8. AdviceIsDue' /\ AdvisedIsAlone'
  BY <1>1, RequestEnds
<1> QED
  BY <1>6, <1>7, <1>8 DEF LimitsInv

LEMMA SecondsGrowOld ==
  ASSUME LimitsInv, Tick
  PROVE  SecondsAreMarked'
<1>1. /\ marks' = OlderSet(marks, GateAges) /\ seconds' = OlderSet(seconds, GateAges)
      /\ marks \in SUBSET GateAges /\ seconds \in SUBSET GateAges
      /\ InWindow \subseteq marks /\ Cardinality(InWindow) <= GateLimit
  BY DEF Tick, LimitsInv, LimitsTypeOK, SecondsAreMarked
<1>2. ASSUME NEW a \in InWindow'
      PROVE  a - 1 \in InWindow /\ a \in Nat /\ a \in marks'
  <2>1. PICK b \in seconds : a = b + 1 /\ a \in GateAges /\ a < GateWindow
    BY <1>1 DEF InWindow, OlderSet
  <2>2. b \in Nat
    BY <1>1 DEF GateAges
  <2>3. b \in InWindow /\ a - 1 = b /\ a \in Nat
    BY <2>1, <2>2 DEF InWindow
  <2> QED
    BY <1>1, <2>1, <2>3 DEF OlderSet
<1>3. InWindow \in SUBSET GateAges
  BY <1>1 DEF InWindow
<1> DEFINE f == [a \in InWindow' |-> a - 1]
<1>4. f \in Injection(InWindow', InWindow)
  <2>1. f \in [InWindow' -> InWindow]
    BY <1>2
  <2>2. \A a, b \in InWindow' : f[a] = f[b] => a = b
    BY <1>2
  <2> HIDE DEF f
  <2> QED
    BY <2>1, <2>2 DEF Injection, IsInjective
<1> HIDE DEF f
<1>5. IsFiniteSet(InWindow) /\ Cardinality(InWindow) \in Nat
  BY <1>3, CountingSeconds
<1>6. Cardinality(InWindow') <= Cardinality(InWindow) /\ IsFiniteSet(InWindow')
  BY <1>4, <1>5, FS_Injection
<1>7. Cardinality(InWindow') \in Nat
  BY <1>6, FS_CardinalityType
<1> QED
  BY <1>1, <1>2, <1>5, <1>6, <1>7 DEF SecondsAreMarked

LEMMA HitsGrowOld ==
  ASSUME LimitsInv, Tick
  PROVE  /\ memory' \in [GateAges -> 0..GateLimit]
         /\ hits' \in [Ages -> 0..MaxRequests] /\ Total(hits') <= MaxRequests
         /\ served' \in [0..(Window - 1) -> 0..MaxRequests]
         /\ ServedAreHits'
<1> DEFINE n == Window + MaxDelay - 1
           l == Window - 1
           g == GateWindow + MaxDelay - 1
<1>1. /\ n \in Nat /\ l \in Nat /\ l <= n /\ g \in Nat
      /\ Ages = 0..n /\ GateAges = 0..g
      /\ MaxRequests \in Nat /\ GateLimit \in Nat
  BY AgesFit DEF Ages, GateAges
<1>2. /\ memory \in [0..g -> 0..GateLimit]
      /\ hits \in [0..n -> 0..MaxRequests] /\ Total(hits) <= MaxRequests
      /\ served \in [0..l -> 0..MaxRequests]
      /\ \A a \in 0..l : served[a] <= hits[a]
  BY <1>1 DEF LimitsInv, LimitsTypeOK, ServedAreHits
<1>3. memory' = Older(memory) /\ hits' = Older(hits) /\ served' = Older(served)
  BY DEF Tick
<1>4. ServedAreHits <=> \A a \in 0..l : served[a] <= hits[a]
  BY DEF ServedAreHits
<1> HIDE DEF n, l, g
<1>5. /\ Older(hits) \in [0..n -> 0..MaxRequests]
      /\ \A a \in 0..n : Older(hits)[a] = IF a = 0 THEN 0 ELSE hits[a - 1]
      /\ Total(Older(hits)) <= Total(hits)
  <2>1. n \in Nat /\ MaxRequests \in Nat /\ hits \in [0..n -> 0..MaxRequests]
    BY <1>1, <1>2
  <2> QED
    BY <2>1, OlderBag
<1>6. /\ Older(served) \in [0..l -> 0..MaxRequests]
      /\ \A a \in 0..l : Older(served)[a] = IF a = 0 THEN 0 ELSE served[a - 1]
  <2>1. l \in Nat /\ MaxRequests \in Nat /\ served \in [0..l -> 0..MaxRequests]
    BY <1>1, <1>2
  <2> QED
    BY <2>1, OlderBag
<1>7. Older(memory) \in [0..g -> 0..GateLimit]
  BY <1>1, <1>2, OlderBag
<1>8. Total(Older(hits)) <= MaxRequests
  <2>1. Total(hits) \in Nat /\ Total(Older(hits)) \in Nat
    BY <1>1, <1>2, <1>5, BagsAreFinite
  <2> QED
    BY <1>1, <1>2, <1>5, <2>1
<1>9. ASSUME NEW a \in 0..l
      PROVE  Older(served)[a] <= Older(hits)[a]
  <2>1. CASE a = 0
    BY <1>1, <1>5, <1>6, <2>1
  <2>2. CASE a # 0
    <3>1. a - 1 \in 0..l /\ a \in 0..n
      BY <1>1, <2>2
    <3>2. served[a - 1] <= hits[a - 1]
      BY <1>2, <3>1
    <3> QED
      BY <1>5, <1>6, <2>2, <3>1, <3>2
  <2> QED
    BY <2>1, <2>2
<1>10. ServedAreHits'
  BY <1>3, <1>9 DEF ServedAreHits, l
<1>11. /\ memory' \in [0..g -> 0..GateLimit] /\ hits' \in [0..n -> 0..MaxRequests]
       /\ Total(hits') <= MaxRequests /\ served' \in [0..l -> 0..MaxRequests]
  BY <1>3, <1>5, <1>6, <1>7, <1>8, Zenon
<1> QED
  BY <1>1, <1>10, <1>11 DEF l

LEMMA ArrivalsGrowOld ==
  ASSUME LimitsInv, Tick
  PROVE  /\ arrival' \in [Arrivals -> [at: Stages, read: 0..MaxDelay, advised: BOOLEAN]]
         /\ \A r \in Arrivals :
              /\ arrival'[r].at = arrival[r].at /\ arrival'[r].advised = arrival[r].advised
              /\ arrival'[r].read = IF Waiting(r) THEN arrival[r].read + 1 ELSE arrival[r].read
<1> DEFINE recs == [at: Stages, read: 0..MaxDelay, advised: BOOLEAN]
           later(a) == [a EXCEPT !.read = @ + 1]
<1>1. /\ arrival \in [Arrivals -> recs]
      /\ \A r \in Arrivals : Waiting(r) => arrival[r].read < MaxDelay
      /\ arrival' = [r \in Arrivals |-> IF Waiting(r) THEN later(arrival[r]) ELSE arrival[r]]
  BY DEF Tick, LimitsInv, LimitsTypeOK
<1>2. ASSUME NEW a \in recs
      PROVE  /\ a.read < MaxDelay => later(a) \in recs
             /\ later(a).at = a.at /\ later(a).advised = a.advised
             /\ later(a).read = a.read + 1
  <2>1. a.read \in Nat /\ MaxDelay \in Nat
    BY AgesFit
  <2>2. a.read < MaxDelay => a.read + 1 \in 0..MaxDelay
    BY <2>1
  <2> QED
    BY <2>1, <2>2
<1> HIDE DEF later, recs
<1>3. ASSUME NEW r \in Arrivals
      PROVE  /\ arrival'[r] \in recs
             /\ arrival'[r].at = arrival[r].at /\ arrival'[r].advised = arrival[r].advised
             /\ arrival'[r].read = IF Waiting(r) THEN arrival[r].read + 1 ELSE arrival[r].read
  BY <1>1, <1>2
<1>4. arrival' \in [Arrivals -> recs]
  BY <1>1, <1>3
<1> QED
  BY <1>3, <1>4 DEF recs

LEMMA TickKeepsInv ==
  ASSUME LimitsInv, Tick
  PROVE  LimitsInv'
<1>1. /\ advice' = IF advice > 0 THEN advice - 1 ELSE advice
      /\ hits' = Older(hits)
      /\ advice \in NoAdvice..(Window + MaxDelay)
      /\ LimitsTypeOK
  BY DEF Tick, LimitsInv, LimitsTypeOK
<1>2. /\ arrival' \in [Arrivals -> [at: Stages, read: 0..MaxDelay, advised: BOOLEAN]]
      /\ \A r \in Arrivals :
           /\ arrival'[r].at = arrival[r].at /\ arrival'[r].advised = arrival[r].advised
           /\ arrival'[r].read = IF Waiting(r) THEN arrival[r].read + 1 ELSE arrival[r].read
  BY ArrivalsGrowOld
<1>3. LimitsTypeOK'
  <2>1. advice' \in NoAdvice..(Window + MaxDelay)
    BY <1>1, AgesFit
  <2>2. marks' \subseteq GateAges /\ seconds' \subseteq GateAges
    BY DEF Tick, OlderSet
  <2> QED
    BY <1>2, <2>1, <2>2, HitsGrowOld DEF LimitsTypeOK
<1>4. Window \in Int /\ advice \in Int /\ (advice # NoAdvice => advice >= 0)
  BY <1>1, AgesFit
<1>5. AdviceIsDue'
  <2> SUFFICES ASSUME advice' # NoAdvice
               PROVE  /\ Room(hits', Window - advice')
                      /\ \A r \in Arrivals : arrival'[r].at = "idle"
    BY DEF AdviceIsDue
  <2>1. advice # NoAdvice
    BY <1>1, <1>4
  <2>2. Room(hits, Window - advice) /\ \A r \in Arrivals : arrival[r].at = "idle"
    BY <2>1 DEF LimitsInv, AdviceIsDue
  <2>3. Room(hits', Window - advice + 1)
    BY <1>1, <1>4, <2>2, RoomStays
  <2>4. Window - advice' \in Int /\ Window - advice' <= Window - advice + 1
    BY <1>1, <1>4
  <2>5. Room(hits', Window - advice')
    BY <1>4, <2>3, <2>4, RoomForYounger
  <2> QED
    BY <1>2, <2>2, <2>5
<1>6. ASSUME NEW r \in Arrivals, arrival'[r].advised
      PROVE  /\ advice' = NoAdvice /\ arrival'[r].at # "idle"
             /\ \A q \in Arrivals \ {r} : arrival'[q].at = "idle"
             /\ Room(hits', Window + IF arrival'[r].at = "limit" THEN arrival'[r].read ELSE 0)
  <2> DEFINE lag == IF arrival[r].at = "limit" THEN arrival[r].read ELSE 0
             lagNext == IF arrival'[r].at = "limit" THEN arrival'[r].read ELSE 0
  <2>1. /\ advice = NoAdvice /\ arrival[r].at # "idle"
        /\ \A q \in Arrivals \ {r} : arrival[q].at = "idle"
        /\ Room(hits, Window + lag)
    BY <1>2, <1>6 DEF LimitsInv, AdvisedIsAlone
  <2>2. lag \in Int /\ lagNext \in Int /\ lagNext <= lag + 1
    BY <1>2, AgesFit DEF LimitsInv, LimitsTypeOK, Waiting
  <2> HIDE DEF lag
  <2>3. Room(hits', Window + lag + 1)
    BY <1>1, <1>4, <2>1, <2>2, RoomStays
  <2> HIDE DEF lagNext
  <2>4. Window + lagNext <= Window + lag + 1
    BY <1>4, <2>2
  <2>5. Room(hits', Window + lagNext)
    BY <1>4, <2>2, <2>3, <2>4, RoomForYounger
  <2> QED
    BY <1>1, <1>2, <2>1, <2>5 DEF lagNext
<1>7. ASSUME NEW r \in Arrivals, arrival'[r].at \in {"idle", "passed"}
      PROVE  arrival'[r].read = 0
  BY <1>2, <1>7 DEF LimitsInv, AdvisedIsAlone, Waiting
<1>8. AdvisedIsAlone'
  BY <1>6, <1>7 DEF AdvisedIsAlone
<1> QED
  BY <1>3, <1>5, <1>8, HitsGrowOld, SecondsGrowOld DEF LimitsInv

-----------------------------------------------------------------------------
(* Theorems *)

LEMMA EmptyBag ==
  ASSUME NEW n \in Nat
  PROVE  Empty(0..n) \in [0..n -> Nat] /\ Total(Empty(0..n)) = 0
<1>1. Empty(0..n) \in [0..n -> Nat] /\ \A a \in 0..n : Empty(0..n)[a] = 0
  BY DEF Empty
<1>2. ASSUME NEW u \in Units(Empty(0..n))
      PROVE  FALSE
  <2>1. u[1] \in 0..n /\ u[2] \in 1..Empty(0..n)[u[1]]
    BY <1>1, UnitsOfBag
  <2> QED
    BY <1>1, <2>1
<1>3. Units(Empty(0..n)) = {}
  BY <1>2
<1> QED
  BY <1>1, <1>3, FS_EmptySet DEF Total

LEMMA LimitsInitInv ==
  ASSUME LimitsInit
  PROVE  LimitsInv
<1>1. /\ marks = {} /\ seconds = {} /\ advice = NoAdvice
      /\ memory = Empty(GateAges) /\ hits = Empty(Ages) /\ served = Empty(0..(Window - 1))
      /\ \A r \in Arrivals : arrival[r] = Absent
      /\ arrival = [r \in Arrivals |-> Absent]
  BY DEF LimitsInit
<1>2. Absent.at = "idle" /\ Absent.read = 0 /\ Absent.advised = FALSE
      /\ Absent \in [at: Stages, read: 0..MaxDelay, advised: BOOLEAN]
  BY AgesFit DEF Absent
<1>3. Total(hits) = 0
  <2>1. Ages = 0..(Window + MaxDelay - 1)
    BY DEF Ages
  <2> QED
    BY <1>1, <2>1, AgesFit, EmptyBag
<1>4. LimitsTypeOK
  BY <1>1, <1>2, <1>3, AgesFit DEF LimitsTypeOK, Empty
<1>5. ServedAreHits
  BY <1>1, AgesFit DEF ServedAreHits, Empty, Ages
<1>6. SecondsAreMarked
  <2>1. InWindow = {}
    BY <1>1 DEF InWindow
  <2> QED
    BY <2>1, FS_EmptySet DEF SecondsAreMarked
<1> QED
  BY <1>1, <1>2, <1>4, <1>5, <1>6 DEF LimitsInv, AdviceIsDue, AdvisedIsAlone

LEMMA LimitsStepInv ==
  ASSUME LimitsInv, [LimitsNext]_limitVars
  PROVE  LimitsInv'
<1>1. CASE Tick
  BY <1>1, TickKeepsInv
<1>2. ASSUME NEW r \in Arrivals,
             \/ Send(r) \/ Gate(r) \/ GateFallback(r)
             \/ ReadClock(r) \/ AdmitByScript(r) \/ RefuseByScript(r) \/ LimitFault(r)
      PROVE  LimitsInv'
  BY <1>2, SendKeepsInv, GateKeepsInv, GateFallbackKeepsInv, ReadClockKeepsInv,
     AdmitKeepsInv, RefuseKeepsInv, FaultKeepsInv
<1>3. CASE UNCHANGED limitVars
  BY <1>3 DEF limitVars, LimitsInv, LimitsTypeOK, ServedAreHits, SecondsAreMarked, InWindow,
              AdviceIsDue, AdvisedIsAlone
<1> QED
  BY <1>1, <1>2, <1>3 DEF LimitsNext

LEMMA LimitsInvariance == LimitsSpec => []LimitsInv
<1>1. LimitsInit => LimitsInv
  BY LimitsInitInv
<1>2. LimitsInv /\ [LimitsNext]_limitVars => LimitsInv'
  BY LimitsStepInv
<1> QED
  BY <1>1, <1>2, PTL DEF LimitsSpec

\* Every variable of the two limiters keeps its type: no second has more hits
\* than the limit, and the handler's set never holds more than max_requests.
THEOREM LimitsTypeCorrect == LimitsSpec => []LimitsTypeOK
<1>1. LimitsInv => LimitsTypeOK
  BY DEF LimitsInv
<1> QED
  BY <1>1, LimitsInvariance, PTL

\* Over every window, the handler's script has admitted at most max_requests
\* requests in the second of their clock reading, and the middleware has let
\* requests by in at most GateLimit different seconds.
THEOREM LimitsAreKept == LimitsSpec => []LimitsHold
<1>1. LimitsInv => LimitsHold
  BY ServedBelowHits DEF LimitsInv, LimitsHold, SecondsAreMarked, InWindow
<1> QED
  BY <1>1, LimitsInvariance, PTL

\* A client that waited for Retry-After and sent nothing else is not refused
\* by the script of the same limit again.
THEOREM AdviceIsTrue == LimitsSpec => AdviceHolds
<1> DEFINE Held == \A r \in Arrivals :
                     arrival[r].at = "limit" /\ arrival[r].advised => advice' = advice
<1>1. ASSUME LimitsInv, LimitsNext, NEW r \in Arrivals,
             arrival[r].at = "limit", arrival[r].advised
      PROVE  advice' = advice
  <2>1. /\ advice = NoAdvice /\ Room(hits, Window + arrival[r].read)
        /\ \A q \in Arrivals \ {r} : arrival[q].at = "idle"
    BY <1>1 DEF LimitsInv, AdvisedIsAlone
  <2>2. CASE Tick
    BY <2>1, <2>2 DEF Tick
  <2>3. ASSUME NEW q \in Arrivals, Send(q)
        PROVE  advice' = advice
    BY <2>1, <2>3 DEF Send
  <2>4. ASSUME NEW q \in Arrivals, RefuseByScript(q)
        PROVE  FALSE
    <3>1. q = r
      BY <2>1, <2>4 DEF RefuseByScript
    <3>2. /\ Total(Current(r)) <= Total(hits)
          /\ Total(hits) \in Nat /\ Total(Current(r)) \in Nat
          /\ \A a \in Ages :
               hits[a] > 0 /\ a >= Window + arrival[r].read => Total(Current(r)) < Total(hits)
      BY <1>1, CurrentHits DEF LimitsInv
    <3>3. Total(hits) <= MaxRequests /\ MaxRequests \in Nat
      BY <1>1 DEF LimitsInv, LimitsTypeOK
    <3>4. Total(Current(r)) < MaxRequests
      BY <2>1, <3>2, <3>3 DEF Room
    <3> QED
      BY <2>4, <3>1, <3>4 DEF RefuseByScript, Below
  <2>5. ASSUME NEW q \in Arrivals,
               \/ Gate(q) \/ GateFallback(q) \/ ReadClock(q)
               \/ AdmitByScript(q) \/ LimitFault(q)
        PROVE  advice' = advice
    BY <2>5 DEF Gate, GateFallback, ReadClock, AdmitByScript, LimitFault
  <2> QED
    BY <1>1, <2>2, <2>3, <2>4, <2>5 DEF LimitsNext
<1>2. LimitsInv /\ [LimitsNext]_limitVars => [Held]_limitVars
  BY <1>1
<1>3. AdviceHolds <=> [][Held]_limitVars
  BY DEF AdviceHolds
<1> HIDE DEF Held
<1> QED
  BY <1>2, <1>3, LimitsInvariance, PTL DEF LimitsSpec
=============================================================================
