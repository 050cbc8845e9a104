------------------------- MODULE SubscriptionProofs -------------------------
(***************************************************************************)
(* The billing columns of an account, for any number of handlers that      *)
(* overlap, of manual requests and of gateway events.                      *)
(*                                                                         *)
(* A handler commits what it assigned to the row it had loaded, as far as  *)
(* the session sends it.  When nothing unsent was lost, the commit has the *)
(* effect of the whole assignment (CommitIsWhole), and every assignment    *)
(* leaves a row that is one plan's.                                        *)
(***************************************************************************)
EXTENDS Subscription, TLAPS

\* A job is well formed; only a webhook assigns what its event asks for, and
\* nobody else stores the gateway's subscription.
JobOK(j) ==
  /\ j \in Jobs
  /\ j.sent \subseteq DOMAIN j.assigned
  /\ j.kind \in {"approve", "reject"} => j.of \in Manual
  /\ j.kind = "webhook" =>
       j.of \in DOMAIN events /\ j.assigned \in EventAssignments(events[j.of])
  /\ j.kind # "webhook" /\ "sub" \in DOMAIN j.assigned =>
       j.assigned["sub"] # "subscription"

JobsOK == \A h \in Handlers : JobOK(job[h])

Deciding(h, m) == job[h].kind \in {"approve", "reject"} /\ job[h].of = m

\* Who decides a request that is not contested is alone, and it is still pending.
OneDecides ==
  \A h \in Handlers : \A m \in Manual \ contested :
    Deciding(h, m) =>
      /\ activation[m] = "pending"
      /\ \A g \in Handlers \ {h} : ~Deciding(g, m)

IInv ==
  /\ TypeOK
  /\ JobsOK
  /\ applied <= Len(events)
  /\ EntitlementConsistent
  /\ GatewayCancelStands
  /\ OneDecides

USE SubscriptionAssumption DEF Disordered, NoSub

-----------------------------------------------------------------------------
(* What handlers assign *)

AllColumns == {"tier", "status", "limits", "sub"}

Grants(a) == a["status"] = "active" /\ a["tier"] \in Tiers /\ a["limits"] = a["tier"]

\* Nothing, past due, a plan with or without a subscription, or none of it.
Shape(a) ==
  \/ DOMAIN a = {}
  \/ DOMAIN a = {"status"} /\ a["status"] = "past_due"
  \/ DOMAIN a = {"tier", "status", "limits"} /\ Grants(a)
  \/ DOMAIN a = AllColumns /\ Grants(a) /\ a["sub"] \in Subs
  \/ DOMAIN a = AllColumns /\ a["status"] = "canceled" /\ a["tier"] = "free"
       /\ a["limits"] = "free" /\ a["sub"] = "none"

LEMMA TierIsResolved == ASSUME NEW amount PROVE ResolveTier(amount) \in Tiers
BY DEF ResolveTier, Tiers

LEMMA UpgradeHasShape == ASSUME NEW tier \in Tiers PROVE Shape(Upgrade(tier))
<1>1. /\ DOMAIN Upgrade(tier) = {"tier", "status", "limits"} /\ Upgrade(tier)["status"] = "active"
      /\ Upgrade(tier)["tier"] = tier /\ Upgrade(tier)["limits"] = tier
  BY DEF Upgrade
<1> QED
  BY <1>1 DEF Shape, Grants

LEMMA PaymentHasShape ==
  ASSUME NEW ordered, NEW sub \in Subs
  PROVE  Shape(Payment(ordered, sub)) /\ Payment(ordered, sub)["sub"] = sub
<1> DEFINE tier == ResolveTier(MajorUnits(OrderAmount(ordered)))
<1>1. tier \in Tiers
  BY TierIsResolved
<1> HIDE DEF tier
<1>2. Payment(ordered, sub) = [tier |-> tier, status |-> "active", limits |-> tier, sub |-> sub]
  BY DEF Payment, tier
<1> QED
  BY <1>1, <1>2 DEF Shape, Grants, AllColumns

LEMMA AssignmentsHaveShape == ASSUME NEW a \in Assignments PROVE Shape(a)
<1>1. CASE a = Nothing
  BY <1>1 DEF Nothing, Shape
<1>2. CASE a = Simulation
  BY <1>2 DEF Simulation, Shape, Grants, AllColumns, Tiers, Subs
<1>3. CASE a = Cancellation
  BY <1>3 DEF Cancellation, Shape, AllColumns
<1>4. CASE a = Halt
  BY <1>4 DEF Halt, Shape
<1>5. CASE \E tier \in Tiers : a = Upgrade(tier)
  BY <1>5, UpgradeHasShape
<1>6. CASE \E tier \in PaidTiers, sub \in {"payment", "subscription"} : a = Payment(tier, sub)
  BY <1>6, PaymentHasShape DEF Subs
<1> QED
  BY <1>1, <1>2, <1>3, <1>4, <1>5, <1>6 DEF Assignments

Consistent(x) ==
  /\ x["limits"] = x["tier"] \/ (x["tier"] = "free" /\ x["limits"] = "unset")
  /\ x["status"] = "canceled" => x["tier"] = "free" /\ x["sub"] = "none"

Whole(x, a) == [c \in Columns |-> IF c \in DOMAIN a THEN a[c] ELSE x[c]]

\* Whatever is assigned whole leaves a row of one plan.
LEMMA WholeIsConsistent ==
  ASSUME NEW x, NEW a, Consistent(x), Shape(a)
  PROVE  Consistent(Whole(x, a))
BY DEF Consistent, Whole, Shape, Grants, Columns, AllColumns

\* Any part of an assignment keeps the types of the columns.
LEMMA PartIsTyped ==
  ASSUME NEW x \in Rows, NEW a, Shape(a), NEW sent, sent \subseteq DOMAIN a
  PROVE  [c \in Columns |-> IF c \in sent THEN a[c] ELSE x[c]] \in Rows
<1> DEFINE y == [c \in Columns |-> IF c \in sent THEN a[c] ELSE x[c]]
<1>1. /\ x["tier"] \in Tiers /\ x["status"] \in {"inactive", "active", "past_due", "canceled"}
      /\ x["limits"] \in Tiers \cup {"unset"} /\ x["sub"] \in Subs
  BY DEF Rows
<1>2. /\ "tier" \in DOMAIN a => a["tier"] \in Tiers
      /\ "status" \in DOMAIN a => a["status"] \in {"inactive", "active", "past_due", "canceled"}
      /\ "limits" \in DOMAIN a => a["limits"] \in Tiers \cup {"unset"}
      /\ "sub" \in DOMAIN a => a["sub"] \in Subs
  BY DEF Shape, Grants, AllColumns, Tiers, Subs
<1>3. /\ y["tier"] \in Tiers /\ y["status"] \in {"inactive", "active", "past_due", "canceled"}
      /\ y["limits"] \in Tiers \cup {"unset"} /\ y["sub"] \in Subs
  BY <1>1, <1>2 DEF Columns
<1>4. y = [tier |-> y["tier"], status |-> y["status"], limits |-> y["limits"], sub |-> y["sub"]]
  BY DEF Columns
<1> HIDE DEF y
<1>5. y \in Rows
  BY <1>3, <1>4 DEF Rows
<1> QED
  BY <1>5 DEF y

LEMMA EventsAssign ==
  ASSUME NEW type \in EventTypes, NEW a \in EventAssignments(type)
  PROVE  /\ a \in Assignments
         /\ type = "subscription.cancelled" => "sub" \in DOMAIN a /\ a["sub"] = "none"
<1>1. CASE type \in {"subscription.activated", "subscription.charged"}
  BY <1>1 DEF EventAssignments, Assignments
<1>2. CASE type = "subscription.halted"
  BY <1>2 DEF EventAssignments, Assignments
<1>3. CASE type = "subscription.cancelled"
  BY <1>3 DEF EventAssignments, Assignments, Cancellation
<1> QED
  BY <1>1, <1>2, <1>3 DEF EventTypes

-----------------------------------------------------------------------------
(* Jobs *)

LEMMA EventPlaces ==
  ASSUME TypeOK
  PROVE  /\ Len(events) \in Nat /\ DOMAIN events = 1..Len(events)
         /\ \A i \in DOMAIN events : events[i] \in EventTypes /\ i \in 0..MaxEvents
BY DEF TypeOK

LEMMA NoJobIsOK == JobOK(NoJob)
<1>1. /\ NoJob.assigned = Nothing /\ DOMAIN Nothing = {} /\ Nothing \in Assignments
      /\ NoJob.sent = {} /\ NoJob.kind = "idle" /\ NoJob.of = 0
  BY DEF NoJob, Nothing, Assignments
<1>2. NoJob \in Jobs
  BY <1>1 DEF NoJob, Jobs, Kinds
<1> QED
  BY <1>1, <1>2 DEF JobOK

\* A step of one handler that keeps the events leaves the other jobs alone.
LEMMA OtherJobsStay ==
  ASSUME TypeOK, JobsOK, UNCHANGED events, NEW h \in Handlers, NEW new, JobOK(new),
         job' = [job EXCEPT ![h] = new]
  PROVE  /\ JobsOK' /\ job' \in [Handlers -> Jobs]
         /\ job'[h] = new /\ \A g \in Handlers \ {h} : job'[g] = job[g]
<1>1. job \in [Handlers -> Jobs] /\ new \in Jobs
  BY DEF TypeOK, JobOK
<1>2. \A g \in Handlers : JobOK(job'[g])
  BY <1>1 DEF JobsOK
<1> QED
  BY <1>1, <1>2 DEF JobsOK, JobOK

\* The types of the jobs, as TypeOK states them.
LEMMA JobsAreTyped ==
  ASSUME JobsOK
  PROVE  \A h \in Handlers :
           /\ job[h].sent \subseteq DOMAIN job[h].assigned
           /\ job[h].kind \in {"approve", "reject"} => job[h].of \in Manual
           /\ job[h].kind = "webhook" => job[h].of \in DOMAIN events
BY DEF JobsOK, JobOK

LEMMA LoadIsOK ==
  ASSUME TypeOK, JobsOK, UNCHANGED events, NEW h \in Handlers,
         NEW kind \in Kinds, NEW of \in Manual \cup 0..MaxEvents,
         NEW a \in Assignments, NEW sent, sent \subseteq DOMAIN a,
         kind \in {"approve", "reject"} => of \in Manual,
         kind = "webhook" => of \in DOMAIN events /\ a \in EventAssignments(events[of]),
         kind # "webhook" /\ "sub" \in DOMAIN a => a["sub"] # "subscription",
         Load(h, kind, of, a, sent)
  PROVE  /\ JobsOK' /\ job' \in [Handlers -> Jobs] /\ job[h].kind = "idle"
         /\ job'[h].kind = kind /\ job'[h].of = of
         /\ \A g \in Handlers \ {h} : job'[g] = job[g]
<1> DEFINE new == [kind |-> kind, of |-> of, assigned |-> a, sent |-> sent]
<1>1. Shape(a) /\ DOMAIN a \subseteq Columns
  BY AssignmentsHaveShape DEF Shape, Columns, AllColumns
<1>2. JobOK(new)
  BY <1>1 DEF JobOK, Jobs
<1>3. new.kind = kind /\ new.of = of
  OBVIOUS
<1>4. job' = [job EXCEPT ![h] = new] /\ job[h].kind = "idle"
  BY DEF Load
<1> HIDE DEF new
<1> QED
  BY <1>2, <1>3, <1>4, OtherJobsStay

LEMMA CloseIsOK ==
  ASSUME TypeOK, JobsOK, UNCHANGED events, NEW h \in Handlers, Close(h)
  PROVE  /\ JobsOK' /\ job' \in [Handlers -> Jobs] /\ job'[h].kind = "idle"
         /\ \A g \in Handlers \ {h} : job'[g] = job[g]
<1>1. NoJob.kind = "idle"
  BY DEF NoJob
<1> QED
  BY <1>1, NoJobIsOK, OtherJobsStay DEF Close

\* A commit that loses nothing has the effect of the whole assignment.
LEMMA CommitIsWhole ==
  ASSUME IInv, NEW h \in Handlers, Commit(h)
  PROVE  /\ row' \in Rows /\ lostWrite' \in BOOLEAN /\ EntitlementConsistent'
         /\ "sub" \in job[h].sent => row'["sub"] = job[h].assigned["sub"]
         /\ "sub" \notin job[h].sent => row'["sub"] = row["sub"]
         /\ ~lostWrite' => ~lostWrite /\ row' = Whole(row, job[h].assigned)
<1> DEFINE a == job[h].assigned  sent == job[h].sent
<1>1. /\ row \in Rows /\ a \in Assignments /\ sent \subseteq DOMAIN a /\ lostWrite \in BOOLEAN
  BY DEF IInv, TypeOK, JobsOK, JobOK, Jobs
<1>2. /\ row' = [c \in Columns |-> IF c \in sent THEN a[c] ELSE row[c]]
      /\ lostWrite' = (lostWrite \/ Lost(h) # {})
      /\ Lost(h) = {c \in DOMAIN a \ sent : row[c] # a[c]}
  BY DEF Commit, Lost
<1>3. Shape(a) /\ DOMAIN a \subseteq Columns
  BY <1>1, AssignmentsHaveShape DEF Shape, Columns, AllColumns
<1> HIDE DEF a, sent
<1>4. row' \in Rows
  BY <1>1, <1>2, <1>3, PartIsTyped
<1>5. lostWrite' \in BOOLEAN
  BY <1>1, <1>2
<1>6. ASSUME ~lostWrite'
      PROVE  ~lostWrite /\ row' = Whole(row, a)
  BY <1>1, <1>2, <1>3, <1>6 DEF Whole
<1>7. EntitlementConsistent'
  <2>1. CASE lostWrite'
    BY <2>1 DEF EntitlementConsistent
  <2>2. CASE ~lostWrite'
    <3>1. Consistent(row)
      BY <1>6, <2>2 DEF IInv, EntitlementConsistent, Consistent
    <3>2. Consistent(row')
      BY <1>3, <1>6, <2>2, <3>1, WholeIsConsistent
    <3> QED
      BY <3>2 DEF EntitlementConsistent, Consistent
  <2> QED
    BY <1>5, <2>1, <2>2
<1>8. /\ "sub" \in sent => row'["sub"] = a["sub"]
      /\ "sub" \notin sent => row'["sub"] = row["sub"]
  BY <1>2 DEF Columns
<1> QED
  BY <1>4, <1>5, <1>6, <1>7, <1>8 DEF a, sent

-----------------------------------------------------------------------------
(* One lemma for each kind of step *)

LEMMA InitHolds == Init => IInv
<1> SUFFICES ASSUME Init PROVE IInv
  OBVIOUS
<1>1. /\ row = [tier |-> "free", status |-> "inactive", limits |-> "unset", sub |-> "none"]
      /\ \A h \in Handlers : job[h] = NoJob
      /\ job \in [Handlers -> {NoJob}]
      /\ events = <<>> /\ applied = 0 /\ lostWrite = FALSE
  BY DEF Init
<1>2. NoJob \in Jobs /\ JobOK(NoJob) /\ NoJob.kind = "idle"
  BY NoJobIsOK DEF JobOK, NoJob
<1>3. JobsOK
  BY <1>1, <1>2 DEF JobsOK
<1>4. row \in Rows
  BY <1>1 DEF Rows, Tiers, Subs
<1>5. events \in Seq(EventTypes) /\ Len(events) = 0
  BY <1>1
<1>6. TypeOK
  <2>1. job \in [Handlers -> Jobs]
    BY <1>1, <1>2
  <2>2. activation \in [Manual -> {"none", "pending"} \cup Decided] /\ asked \in [Manual -> Tiers]
    BY DEF Init, Tiers
  <2>3. undelivered \subseteq DOMAIN events /\ contested \subseteq Manual
    BY DEF Init
  <2>4. applied \in -1..MaxEvents /\ Len(events) <= MaxEvents
    BY <1>1, <1>5
  <2>5. lostWrite \in BOOLEAN
    BY <1>1
  <2> QED
    BY <1>3, <1>4, <1>5, <2>1, <2>2, <2>3, <2>4, <2>5, JobsAreTyped DEF TypeOK
<1>7. EntitlementConsistent /\ GatewayCancelStands
  BY <1>1 DEF EntitlementConsistent, GatewayCancelStands, Cancelled
<1>8. OneDecides
  BY <1>1, <1>2 DEF OneDecides, Deciding
<1> QED
  BY <1>1, <1>3, <1>5, <1>6, <1>7, <1>8 DEF IInv

\* Who takes up or ends a job that decides nothing leaves decisions alone.
LEMMA DecisionsStay ==
  ASSUME OneDecides, UNCHANGED <<activation, contested>>, NEW h \in Handlers,
         job'[h].kind \notin {"approve", "reject"},
         \A g \in Handlers \ {h} : job'[g] = job[g]
  PROVE  OneDecides'
BY DEF OneDecides, Deciding

\* Nothing changes for the owner, the gateway and the decisions when a job that
\* decides nothing is taken up, or one is given up.
LEMMA QuietJobStep ==
  ASSUME IInv, UNCHANGED <<row, activation, asked, contested, lostWrite, events, applied>>,
         undelivered' \subseteq undelivered,
         NEW h \in Handlers, JobsOK', job' \in [Handlers -> Jobs],
         job'[h].kind \notin {"approve", "reject"},
         \A g \in Handlers \ {h} : job'[g] = job[g]
  PROVE  IInv'
<1>1. TypeOK'
  <2>1. \A g \in Handlers :
           /\ job'[g].sent \subseteq DOMAIN job'[g].assigned
           /\ job'[g].kind \in {"approve", "reject"} => job'[g].of \in Manual
           /\ job'[g].kind = "webhook" => job'[g].of \in DOMAIN events'
    BY DEF JobsOK, JobOK
  <2> QED
    BY <2>1 DEF IInv, TypeOK
<1>2. EntitlementConsistent' /\ GatewayCancelStands'
  BY DEF IInv, EntitlementConsistent, GatewayCancelStands, Cancelled
<1>3. OneDecides'
  BY DecisionsStay DEF IInv
<1> QED
  BY <1>1, <1>2, <1>3 DEF IInv

LEMMA RequestActivationStep ==
  ASSUME IInv, NEW m \in Manual, RequestActivation(m)
  PROVE  IInv'
<1>1. /\ activation[m] = "none" /\ activation' = [activation EXCEPT ![m] = "pending"]
      /\ UNCHANGED <<row, job, lostWrite, contested, events, undelivered, applied>>
  BY DEF RequestActivation, gatewayVars
<1>2. PICK tier \in PaidTiers : asked' = [asked EXCEPT ![m] = tier]
  BY DEF RequestActivation
<1>3. TypeOK'
  BY <1>1, <1>2 DEF IInv, TypeOK, PaidTiers, Tiers
<1>4. JobsOK' /\ EntitlementConsistent' /\ GatewayCancelStands' /\ (applied <= Len(events))'
  BY <1>1 DEF IInv, JobsOK, JobOK, EntitlementConsistent, GatewayCancelStands, Cancelled
<1>5. OneDecides'
  BY <1>1 DEF IInv, TypeOK, OneDecides, Deciding
<1> QED
  BY <1>3, <1>4, <1>5 DEF IInv

LEMMA GatewayEventStep ==
  ASSUME IInv, NEW type \in EventTypes, GatewayEvent(type)
  PROVE  IInv'
<1>1. /\ Len(events) < MaxEvents /\ ~Cancelled /\ events' = Append(events, type)
      /\ undelivered' = undelivered \cup {Len(events) + 1}
      /\ UNCHANGED <<row, job, lostWrite, applied, activation, asked, contested>>
  BY DEF GatewayEvent, manualVars
<1>2. events \in Seq(EventTypes)
  BY DEF IInv, TypeOK
<1>3. /\ events' \in Seq(EventTypes) /\ Len(events') = Len(events) + 1 /\ Len(events) \in Nat
      /\ DOMAIN events = 1..Len(events) /\ DOMAIN events' = 1..(Len(events) + 1)
      /\ \A i \in DOMAIN events : events'[i] = events[i]
  BY <1>1, <1>2
<1>4. JobsOK'
  <2> SUFFICES ASSUME NEW h \in Handlers
               PROVE  JobOK(job[h])'
    BY DEF JobsOK
  <2>1. JobOK(job[h]) /\ job' = job
    BY <1>1 DEF IInv, JobsOK
  <2>2. \A i \in DOMAIN events : i \in DOMAIN events' /\ events'[i] = events[i]
    BY <1>3
  <2>3. job[h].kind = "webhook" => job[h].assigned \in EventAssignments(events'[job[h].of])
    BY <2>1, <2>2 DEF JobOK
  <2> QED
    BY <2>1, <2>2, <2>3 DEF JobOK
<1>5. TypeOK'
  <2>1. undelivered' \subseteq DOMAIN events'
    BY <1>1, <1>3 DEF IInv, TypeOK
  <2>2. \A h \in Handlers :
           /\ job'[h].sent \subseteq DOMAIN job'[h].assigned
           /\ job'[h].kind \in {"approve", "reject"} => job'[h].of \in Manual
           /\ job'[h].kind = "webhook" => job'[h].of \in DOMAIN events'
    BY <1>4 DEF JobsOK, JobOK
  <2> QED
    BY <1>1, <1>3, <2>1, <2>2 DEF IInv, TypeOK
<1>6. applied \in Int /\ applied <= Len(events)
  BY DEF IInv, TypeOK
<1>7. EntitlementConsistent' /\ OneDecides'
  BY <1>1 DEF IInv, EntitlementConsistent, OneDecides, Deciding
<1>8. GatewayCancelStands' /\ (applied <= Len(events))'
  BY <1>1, <1>3, <1>6 DEF GatewayCancelStands
<1> QED
  BY <1>4, <1>5, <1>7, <1>8 DEF IInv

\* Taking up a job of the account's owner.
LEMMA OwnerOpens ==
  ASSUME IInv, NEW h \in Handlers, OpenSimulation(h) \/ OpenCancel(h) \/ OpenVerify(h)
  PROVE  IInv'
<1>1. UNCHANGED <<row, lostWrite, events, undelivered, applied, activation, asked, contested>>
  BY DEF OpenSimulation, OpenCancel, OpenVerify, gatewayVars, manualVars
<1>2. \A a : Dirty(a) \subseteq DOMAIN a
  BY DEF Dirty
<1>3. PICK kind \in {"simulate", "cancel", "verify"}, a \in Assignments :
        /\ "sub" \in DOMAIN a => a["sub"] # "subscription"
        /\ \E sent : sent \subseteq DOMAIN a /\ Load(h, kind, 0, a, sent)
  <2>1. CASE OpenSimulation(h)
    <3>1. Simulation \in Assignments /\ Simulation["sub"] # "subscription"
      BY DEF Assignments, Simulation
    <3> QED
      BY <1>2, <2>1, <3>1 DEF OpenSimulation
  <2>2. CASE OpenCancel(h)
    <3>1. Cancellation \in Assignments /\ Cancellation["sub"] # "subscription"
      BY DEF Assignments, Cancellation
    <3> QED
      BY <1>2, <2>2, <3>1 DEF OpenCancel
  <2>3. CASE OpenVerify(h)
    <3>1. PICK tier \in PaidTiers : LoadPayment(h, "verify", 0, Payment(tier, "payment"))
      BY <2>3 DEF OpenVerify
    <3>2. /\ Payment(tier, "payment") \in Assignments
          /\ Payment(tier, "payment")["sub"] = "payment"
          /\ "sub" \in DOMAIN Payment(tier, "payment")
      BY DEF Assignments, Payment
    <3>3. Dirty(Payment(tier, "payment")) \cup {"sub"} \subseteq DOMAIN Payment(tier, "payment")
      BY <1>2, <3>2
    <3> QED
      BY <3>1, <3>2, <3>3 DEF LoadPayment
  <2> QED
    BY <2>1, <2>2, <2>3
<1>4. kind \in Kinds /\ 0 \in Manual \cup 0..MaxEvents
  BY DEF Kinds
<1>5. /\ JobsOK' /\ job' \in [Handlers -> Jobs] /\ job'[h].kind = kind
      /\ \A g \in Handlers \ {h} : job'[g] = job[g]
  BY <1>1, <1>3, <1>4, LoadIsOK DEF IInv
<1> QED
  BY <1>1, <1>5, QuietJobStep

LEMMA OwnerCommits ==
  ASSUME IInv, NEW h \in Handlers, OwnerCommit(h)
  PROVE  IInv'
<1>1. /\ job[h].kind \in {"simulate", "cancel", "verify"} /\ Commit(h)
      /\ UNCHANGED <<events, undelivered, applied, activation, asked, contested>>
  BY DEF OwnerCommit, gatewayVars, manualVars
<1>2. /\ row' \in Rows /\ lostWrite' \in BOOLEAN /\ EntitlementConsistent'
      /\ "sub" \in job[h].sent => row'["sub"] = job[h].assigned["sub"]
      /\ "sub" \notin job[h].sent => row'["sub"] = row["sub"]
      /\ ~lostWrite' => ~lostWrite
  BY <1>1, CommitIsWhole
<1>3. /\ JobsOK' /\ job' \in [Handlers -> Jobs] /\ job'[h].kind = "idle"
      /\ \A g \in Handlers \ {h} : job'[g] = job[g]
  BY <1>1, CloseIsOK DEF IInv, Commit
<1>4. "sub" \in job[h].sent => job[h].assigned["sub"] # "subscription"
  BY <1>1 DEF IInv, JobsOK, JobOK
<1>5. GatewayCancelStands'
  BY <1>1, <1>2, <1>4 DEF IInv, GatewayCancelStands, Cancelled
<1>6. OneDecides'
  BY <1>1, <1>3, DecisionsStay DEF IInv
<1>7. TypeOK'
  <2>1. \A g \in Handlers :
           /\ job'[g].sent \subseteq DOMAIN job'[g].assigned
           /\ job'[g].kind \in {"approve", "reject"} => job'[g].of \in Manual
           /\ job'[g].kind = "webhook" => job'[g].of \in DOMAIN events'
    BY <1>3 DEF JobsOK, JobOK
  <2> QED
    BY <1>1, <1>2, <1>3, <2>1 DEF IInv, TypeOK
<1> QED
  BY <1>1, <1>2, <1>3, <1>5, <1>6, <1>7 DEF IInv

LEMMA DecisionOpens ==
  ASSUME IInv, NEW h \in Handlers, NEW m \in Manual, OpenDecision(h, m)
  PROVE  IInv'
<1>1. /\ activation[m] = "pending"
      /\ contested' = IF BeingDecided(m) THEN contested \cup {m} ELSE contested
      /\ UNCHANGED <<row, activation, asked, lostWrite, events, undelivered, applied>>
  BY DEF OpenDecision, CanDecide, gatewayVars
<1>2. PICK kind \in {"approve", "reject"}, a \in Assignments :
        /\ "sub" \notin DOMAIN a
        /\ \E sent : sent \subseteq DOMAIN a /\ Load(h, kind, m, a, sent)
  <2>1. asked[m] \in Tiers
    BY DEF IInv, TypeOK
  <2>2. Upgrade(asked[m]) \in Assignments /\ "sub" \notin DOMAIN Upgrade(asked[m])
    BY <2>1 DEF Assignments, Upgrade
  <2>3. Dirty(Upgrade(asked[m])) \subseteq DOMAIN Upgrade(asked[m])
    BY DEF Dirty
  <2>4. Nothing \in Assignments /\ DOMAIN Nothing = {}
    BY DEF Assignments, Nothing
  <2>5. \/ Load(h, "approve", m, Upgrade(asked[m]), Dirty(Upgrade(asked[m])))
        \/ Load(h, "reject", m, Nothing, {})
    BY DEF OpenDecision
  <2> QED
    BY <2>2, <2>3, <2>4, <2>5
<1>3. kind \in Kinds
  BY DEF Kinds
<1>4. /\ JobsOK' /\ job' \in [Handlers -> Jobs]
      /\ job'[h].kind = kind /\ job'[h].of = m /\ job[h].kind = "idle"
      /\ \A g \in Handlers \ {h} : job'[g] = job[g]
  BY <1>1, <1>2, <1>3, LoadIsOK DEF IInv
<1>5. TypeOK'
  <2>1. \A g \in Handlers :
           /\ job'[g].sent \subseteq DOMAIN job'[g].assigned
           /\ job'[g].kind \in {"approve", "reject"} => job'[g].of \in Manual
           /\ job'[g].kind = "webhook" => job'[g].of \in DOMAIN events'
    BY <1>4 DEF JobsOK, JobOK
  <2>2. contested' \subseteq Manual
    BY <1>1 DEF IInv, TypeOK
  <2> QED
    BY <1>1, <1>4, <2>1, <2>2 DEF IInv, TypeOK
<1>6. EntitlementConsistent' /\ GatewayCancelStands' /\ (applied <= Len(events))'
  BY <1>1 DEF IInv, EntitlementConsistent, GatewayCancelStands, Cancelled
<1>7. OneDecides'
  <2> SUFFICES ASSUME NEW g \in Handlers, NEW n \in Manual, n \notin contested', Deciding(g, n)'
               PROVE  activation'[n] = "pending" /\ \A k \in Handlers \ {g} : ~Deciding(k, n)'
    BY DEF OneDecides
  <2>1. n \notin contested
    BY <1>1
  <2>2. CASE n = m
    <3>1. \A k \in Handlers : ~Deciding(k, m)
      BY <1>1, <2>1, <2>2 DEF BeingDecided, Deciding
    <3> QED
      BY <1>1, <1>4, <2>2, <3>1 DEF Deciding
  <2>3. CASE n # m
    BY <1>1, <1>4, <2>1, <2>3 DEF IInv, OneDecides, Deciding
  <2> QED
    BY <2>2, <2>3
<1> QED
  BY <1>4, <1>5, <1>6, <1>7 DEF IInv

LEMMA DecisionCommits ==
  ASSUME IInv, NEW h \in Handlers, Decide(h)
  PROVE  IInv'
<1>1. /\ job[h].kind \in {"approve", "reject"} /\ Commit(h)
      /\ activation' = [activation EXCEPT ![job[h].of] =
                           IF job[h].kind = "approve" THEN "approved" ELSE "rejected"]
      /\ UNCHANGED <<events, undelivered, applied, asked, contested>>
  BY DEF Decide, gatewayVars
<1>2. /\ row' \in Rows /\ lostWrite' \in BOOLEAN /\ EntitlementConsistent'
      /\ "sub" \in job[h].sent => row'["sub"] = job[h].assigned["sub"]
      /\ "sub" \notin job[h].sent => row'["sub"] = row["sub"]
      /\ ~lostWrite' => ~lostWrite
  BY <1>1, CommitIsWhole
<1>3. /\ JobsOK' /\ job' \in [Handlers -> Jobs] /\ job'[h].kind = "idle"
      /\ \A g \in Handlers \ {h} : job'[g] = job[g]
  BY <1>1, CloseIsOK DEF IInv, Commit
<1>4. /\ "sub" \in job[h].sent => job[h].assigned["sub"] # "subscription"
      /\ job[h].of \in Manual
  BY <1>1 DEF IInv, JobsOK, JobOK
<1>5. GatewayCancelStands'
  BY <1>1, <1>2, <1>4 DEF IInv, GatewayCancelStands, Cancelled
<1>6. OneDecides'
  <2> SUFFICES ASSUME NEW g \in Handlers, NEW n \in Manual, n \notin contested, Deciding(g, n)'
               PROVE  activation'[n] = "pending" /\ \A k \in Handlers \ {g} : ~Deciding(k, n)'
    BY <1>1 DEF OneDecides
  <2>1. g # h /\ Deciding(g, n)
    BY <1>3 DEF Deciding
  <2>2. activation[n] = "pending" /\ \A k \in Handlers \ {g} : ~Deciding(k, n)
    BY <2>1 DEF IInv, OneDecides
  <2>3. job[h].of # n
    BY <1>1, <2>1, <2>2 DEF Deciding
  <2>4. activation'[n] = "pending"
    BY <1>1, <2>2, <2>3 DEF IInv, TypeOK
  <2> QED
    BY <1>3, <2>2, <2>4 DEF Deciding
<1>7. TypeOK'
  <2>1. \A g \in Handlers :
           /\ job'[g].sent \subseteq DOMAIN job'[g].assigned
           /\ job'[g].kind \in {"approve", "reject"} => job'[g].of \in Manual
           /\ job'[g].kind = "webhook" => job'[g].of \in DOMAIN events'
    BY <1>3 DEF JobsOK, JobOK
  <2>2. activation' \in [Manual -> {"none", "pending"} \cup Decided]
    BY <1>1 DEF IInv, TypeOK, Decided
  <2> QED
    BY <1>1, <1>2, <1>3, <2>1, <2>2 DEF IInv, TypeOK
<1> QED
  BY <1>1, <1>2, <1>3, <1>5, <1>6, <1>7 DEF IInv

LEMMA WebhookOpens ==
  ASSUME IInv, NEW h \in Handlers, OpenWebhook(h)
  PROVE  IInv'
<1>1. UNCHANGED <<row, lostWrite, events, undelivered, applied, activation, asked, contested>>
  <2>1. UNCHANGED <<row, lostWrite, gatewayVars, manualVars>>
    BY Zenon DEF OpenWebhook
  <2> QED
    BY <2>1 DEF gatewayVars, manualVars
<1>2. PICK i \in undelivered : \E a \in EventAssignments(events[i]) :
        IF "sub" \in DOMAIN a /\ a # Cancellation
          THEN LoadPayment(h, "webhook", i, a)
          ELSE Load(h, "webhook", i, a, Dirty(a))
  BY Zenon DEF OpenWebhook
<1>3. PICK a \in EventAssignments(events[i]) :
        IF "sub" \in DOMAIN a /\ a # Cancellation
          THEN LoadPayment(h, "webhook", i, a)
          ELSE Load(h, "webhook", i, a, Dirty(a))
  BY <1>2
<1>4. i \in DOMAIN events /\ i \in 0..MaxEvents /\ a \in Assignments
  BY EventPlaces, EventsAssign DEF IInv, TypeOK
<1>5. Dirty(a) \subseteq DOMAIN a
  BY DEF Dirty
<1>6. PICK sent : sent \subseteq DOMAIN a /\ Load(h, "webhook", i, a, sent)
  BY <1>3, <1>5 DEF LoadPayment
<1>7. "webhook" \in Kinds
  BY DEF Kinds
<1>8. /\ JobsOK' /\ job' \in [Handlers -> Jobs] /\ job'[h].kind = "webhook"
      /\ \A g \in Handlers \ {h} : job'[g] = job[g]
  BY <1>1, <1>4, <1>6, <1>7, LoadIsOK DEF IInv
<1> QED
  BY <1>1, <1>8, QuietJobStep

\* When the gateway's events were handled one after the other and this one is the
\* last, a cancellation, the row carries no subscription any more.
LEMMA WebhookCommits ==
  ASSUME IInv, NEW h \in Handlers, Webhook(h)
  PROVE  IInv'
<1> DEFINE i == job[h].of
<1>1. /\ job[h].kind = "webhook" /\ Commit(h)
      /\ undelivered' \in {undelivered, undelivered \ {i}}
      /\ applied' = IF i = applied + 1 THEN applied + 1 ELSE -1
      /\ UNCHANGED <<events, activation, asked, contested>>
  BY DEF Webhook, Answered, manualVars
<1>2. /\ row' \in Rows /\ lostWrite' \in BOOLEAN /\ EntitlementConsistent'
      /\ ~lostWrite' => ~lostWrite /\ row' = Whole(row, job[h].assigned)
  BY <1>1, CommitIsWhole
<1>3. /\ JobsOK' /\ job' \in [Handlers -> Jobs] /\ job'[h].kind = "idle"
      /\ \A g \in Handlers \ {h} : job'[g] = job[g]
  BY <1>1, CloseIsOK DEF IInv, Commit
<1>4. i \in DOMAIN events /\ job[h].assigned \in EventAssignments(events[i])
  BY <1>1 DEF IInv, JobsOK, JobOK
<1>5. /\ Len(events) \in Nat /\ DOMAIN events = 1..Len(events) /\ Len(events) <= MaxEvents
      /\ applied \in Int /\ \A k \in DOMAIN events : events[k] \in EventTypes
  BY EventPlaces DEF IInv, TypeOK
<1>6. applied' \in -1..MaxEvents /\ applied' <= Len(events)
  BY <1>1, <1>4, <1>5
<1>7. GatewayCancelStands'
  <2> SUFFICES ASSUME Cancelled, applied' = Len(events), ~lostWrite'
               PROVE  row'.sub # "subscription"
    BY <1>1 DEF GatewayCancelStands, Cancelled
  <2>1. i = Len(events) /\ events[i] = "subscription.cancelled"
    BY <1>1, <1>5 DEF Cancelled
  <2>2. "sub" \in DOMAIN job[h].assigned /\ job[h].assigned["sub"] = "none"
    BY <1>4, <1>5, <2>1, EventsAssign
  <2> QED
    BY <1>2, <2>2 DEF Whole, Columns
<1>8. OneDecides'
  BY <1>1, <1>3, DecisionsStay DEF IInv
<1>9. TypeOK'
  <2>1. \A g \in Handlers :
           /\ job'[g].sent \subseteq DOMAIN job'[g].assigned
           /\ job'[g].kind \in {"approve", "reject"} => job'[g].of \in Manual
           /\ job'[g].kind = "webhook" => job'[g].of \in DOMAIN events'
    BY <1>3 DEF JobsOK, JobOK
  <2>2. undelivered' \subseteq DOMAIN events'
    BY <1>1 DEF IInv, TypeOK
  <2> QED
    BY <1>1, <1>2, <1>3, <1>6, <2>1, <2>2 DEF IInv, TypeOK
<1> QED
  BY <1>1, <1>2, <1>3, <1>6, <1>7, <1>8, <1>9 DEF IInv

\* A job that is given up.
LEMMA GivingUp ==
  ASSUME IInv, NEW h \in Handlers, WebhookError(h) \/ Fail(h)
  PROVE  IInv'
<1>1. /\ Close(h) /\ undelivered' \subseteq undelivered
      /\ UNCHANGED <<row, activation, asked, contested, lostWrite, events, applied>>
  BY DEF WebhookError, Fail, Answered, gatewayVars, manualVars
<1>2. /\ JobsOK' /\ job' \in [Handlers -> Jobs] /\ job'[h].kind = "idle"
      /\ \A g \in Handlers \ {h} : job'[g] = job[g]
  BY <1>1, CloseIsOK DEF IInv
<1> QED
  BY <1>1, <1>2, QuietJobStep

LEMMA StutterStep ==
  ASSUME IInv, UNCHANGED vars
  PROVE  IInv'
<1> USE DEF vars, gatewayVars, manualVars
<1>1. TypeOK'
  BY DEF IInv, TypeOK
<1>2. JobsOK'
  BY DEF IInv, JobsOK, JobOK
<1>3. EntitlementConsistent' /\ GatewayCancelStands' /\ (applied <= Len(events))'
  BY DEF IInv, EntitlementConsistent, GatewayCancelStands, Cancelled
<1>4. OneDecides'
  BY DEF IInv, OneDecides, Deciding
<1> QED
  BY <1>1, <1>2, <1>3, <1>4 DEF IInv

LEMMA NextHolds == IInv /\ [Next]_vars => IInv'
<1> SUFFICES ASSUME IInv, [Next]_vars PROVE IInv'
  OBVIOUS
<1>1. CASE \E m \in Manual : RequestActivation(m)
  BY <1>1, RequestActivationStep
<1>2. CASE \E type \in EventTypes : GatewayEvent(type)
  BY <1>2, GatewayEventStep
<1>3. ASSUME NEW h \in Handlers, Handle(h)
      PROVE  IInv'
  BY <1>3, OwnerOpens, OwnerCommits, DecisionOpens, DecisionCommits,
     WebhookOpens, WebhookCommits, GivingUp DEF Handle
<1>4. CASE UNCHANGED vars
  BY <1>4, StutterStep
<1> QED
  BY <1>1, <1>2, <1>3, <1>4 DEF Next

LEMMA Invariance == Spec => []IInv
BY InitHolds, NextHolds, PTL DEF Spec

-----------------------------------------------------------------------------
(* Theorems *)

\* Every variable keeps its type, and every job belongs to a request or an event
\* that exists, whatever overlaps.
THEOREM TypeCorrect == Spec => []TypeOK
<1>1. IInv => TypeOK
  BY DEF IInv
<1> QED
  BY <1>1, Invariance, PTL

\* The row of an account is one plan's: tier, limits, status and subscription fit
\* together however the handlers of billing.py overlap, as long as the session
\* leaves out no column that another handler has changed.
THEOREM RowIsOnePlans == Spec => []EntitlementConsistent
<1>1. IInv => EntitlementConsistent
  BY DEF IInv
<1> QED
  BY <1>1, Invariance, PTL

\* After a cancellation that was the last of the gateway's events, handled in
\* order, the account carries no subscription, for any number of events and of
\* checkouts, approvals and cancellations beside them.
THEOREM CancellationIsLast == Spec => []GatewayCancelStands
<1>1. IInv => GatewayCancelStands
  BY DEF IInv
<1> QED
  BY <1>1, Invariance, PTL

LEMMA DecisionsHold ==
  ASSUME IInv, [Next]_vars, NEW m \in Manual \ contested, activation[m] \in Decided
  PROVE  activation'[m] = activation[m]
<1>1. activation \in [Manual -> {"none", "pending"} \cup Decided]
  BY DEF IInv, TypeOK
<1>2. CASE UNCHANGED activation
  BY <1>2
<1>3. CASE \E n \in Manual : RequestActivation(n)
  <2>1. PICK n \in Manual : RequestActivation(n)
    BY <1>3
  <2> QED
    BY <1>1, <2>1 DEF RequestActivation, Decided
<1>4. CASE \E h \in Handlers : Decide(h)
  <2>1. PICK h \in Handlers : Decide(h)
    BY <1>4
  <2>2. job[h].of # m
    BY <2>1 DEF Decide, Decided, IInv, OneDecides, Deciding
  <2> QED
    BY <1>1, <2>1, <2>2 DEF Decide
<1>5. \/ UNCHANGED activation
      \/ \E n \in Manual : RequestActivation(n)
      \/ \E h \in Handlers : Decide(h)
  BY DEF Next, Handle, GatewayEvent, OpenSimulation, OpenCancel, OpenVerify, OwnerCommit,
         OpenDecision, OpenWebhook, Webhook, WebhookError, Fail, manualVars, vars
<1> QED
  BY <1>2, <1>3, <1>4, <1>5

\* A manual request that was decided stays as it was decided, unless two decided
\* it at the same time.
THEOREM DecisionsAreFinal == Spec => DecisionStands
<1>1. IInv /\ [Next]_vars =>
        [\A m \in Manual \ contested :
           activation[m] \in Decided => activation'[m] = activation[m]]_vars
  BY DecisionsHold
<1> QED
  BY <1>1, Invariance, PTL DEF Spec, DecisionStands
=============================================================================
