---------------------------- MODULE Subscription ----------------------------
(***************************************************************************)
(* The billing columns of one row of `users`, and the handlers of          *)
(* backend/api/billing.py and backend/services/payment.py that write them. *)
(*                                                                         *)
(* A handler loads the row, assigns columns, awaits the gateway and the    *)
(* database, and commits.  What it assigns does not depend on the row, but *)
(* what is sent does: the session sends UPDATE only for the columns whose  *)
(* assigned value differs from the loaded one.  A handler is therefore two *)
(* steps, and two that overlap may each leave some columns of the other.   *)
(*                                                                         *)
(* The two daily limits are always assigned together and are modelled by   *)
(* the tier they belong to ("unset" before the first plan change).  Left   *)
(* out, because no handler here decides by them: payment_intents, and the  *)
(* quota snapshot published after a commit (its session is not committed). *)
(***************************************************************************)
EXTENDS Integers, Sequences

CONSTANTS
  Handlers,    \* requests of any kind in progress at once
  Manual,      \* manual activation requests
  MaxEvents    \* events the gateway sends about its subscription

ASSUME SubscriptionAssumption ==
  /\ MaxEvents \in Nat
  /\ Manual \cap 0..MaxEvents = {}

Tiers == {"free", "pro", "elite"}
PaidTiers == {"pro", "elite"}

\* razorpay_subscription_id: the gateway's subscription, a payment id (as
\* /razorpay/verify stores), or the simulated one.
NoSub == "none"
Subs == {NoSub, "subscription", "payment", "simulated"}

Rows == [tier: Tiers, status: {"inactive", "active", "past_due", "canceled"},
         limits: Tiers \cup {"unset"}, sub: Subs]
Columns == {"tier", "status", "limits", "sub"}

-----------------------------------------------------------------------------
(* What the handlers assign *)

OrderAmount(tier) == IF tier = "elite" THEN 149900 ELSE 49900   \* paise

\* Every caller divides the gateway's amount by 100 first.
MajorUnits(amount) == amount \div 100

ResolveTier(amount) ==
  IF amount >= 149900 THEN "elite" ELSE IF amount >= 49900 THEN "pro" ELSE "free"

Upgrade(tier) == [tier |-> tier, status |-> "active", limits |-> tier]

\* confirm_payment_intent and the subscription id its caller stores.
Payment(ordered, sub) ==
  LET tier == ResolveTier(MajorUnits(OrderAmount(ordered)))
  IN  [tier |-> tier, status |-> "active", limits |-> tier, sub |-> sub]

Simulation == [tier |-> "pro", status |-> "active", limits |-> "pro", sub |-> "simulated"]

CancellationKeepsLimits == [tier |-> "free", status |-> "canceled", sub |-> NoSub]
CancellationKeepsSub == [tier |-> "free", status |-> "canceled", limits |-> "free"]
Cancellation == [tier |-> "free", status |-> "canceled", limits |-> "free", sub |-> NoSub]

Halt == [status |-> "past_due"]
Nothing == <<>>

Assignments ==
  {Nothing, Simulation, Cancellation, Halt}
    \cup {Upgrade(tier) : tier \in Tiers}
    \cup {Payment(tier, sub) : tier \in PaidTiers, sub \in {"payment", "subscription"}}

EventTypes == {"subscription.activated", "subscription.charged",
               "subscription.halted", "subscription.cancelled"}

\* The tier in the event's notes is read and not used; the amount decides.
EventAssignments(type) ==
  CASE type \in {"subscription.activated", "subscription.charged"} ->
         {Payment(tier, "subscription") : tier \in PaidTiers}
    [] type = "subscription.halted"    -> {Halt}
    [] type = "subscription.cancelled" -> {Cancellation}

-----------------------------------------------------------------------------
VARIABLES
  row,          \* the committed columns
  activation,   \* status of each manual activation request
  asked,        \* requested_tier of each manual activation request
  job,          \* per handler: kind, subject, assigned columns, those to be sent
  events,       \* the gateway's events, in the order they happened
  undelivered,  \* indices of the events the gateway will still deliver
  applied,      \* history: how many events webhooks have committed, one after
                \* the other, or Disordered
  lostWrite,    \* history: an assignment was not sent though the row had changed
  contested     \* history: manual requests under decision twice at a time

gatewayVars == <<events, undelivered, applied>>
manualVars  == <<activation, asked, contested>>
vars == <<row, job, lostWrite, gatewayVars, manualVars>>

Decided == {"approved", "rejected"}
Kinds == {"idle", "simulate", "cancel", "verify", "approve", "reject", "webhook"}
Disordered == -1

Jobs == [kind: Kinds, of: Manual \cup 0..MaxEvents, assigned: Assignments,
         sent: SUBSET Columns]

TypeOK ==
  /\ row \in Rows
  /\ activation \in [Manual -> {"none", "pending"} \cup Decided]
  /\ asked \in [Manual -> Tiers]
  /\ job \in [Handlers -> Jobs]
  /\ \A h \in Handlers :
       /\ job[h].sent \subseteq DOMAIN job[h].assigned
       /\ job[h].kind \in {"approve", "reject"} => job[h].of \in Manual
       /\ job[h].kind = "webhook" => job[h].of \in DOMAIN events
  /\ events \in Seq(EventTypes) /\ Len(events) <= MaxEvents
  /\ undelivered \subseteq DOMAIN events
  /\ applied \in Disordered..MaxEvents
  /\ lostWrite \in BOOLEAN
  /\ contested \subseteq Manual

NoJob == [kind |-> "idle", of |-> 0, assigned |-> Nothing, sent |-> {}]

Init ==
  /\ row = [tier |-> "free", status |-> "inactive", limits |-> "unset", sub |-> NoSub]
  /\ activation = [m \in Manual |-> "none"]
  /\ asked = [m \in Manual |-> "pro"]
  /\ job = [h \in Handlers |-> NoJob]
  /\ events = <<>>
  /\ undelivered = {}
  /\ applied = 0
  /\ lostWrite = FALSE
  /\ contested = {}

-----------------------------------------------------------------------------
(* The session *)

Dirty(assigned) == {c \in DOMAIN assigned : assigned[c] # row[c]}

Load(h, kind, of, assigned, sent) ==
  /\ job[h].kind = "idle"
  /\ job' = [job EXCEPT ![h] =
               [kind |-> kind, of |-> of, assigned |-> assigned, sent |-> sent]]

\* confirm_payment_intent refreshes the row between its flush and the
\* assignment of the subscription id: that one is always up to date.
LoadPayment(h, kind, of, assigned) ==
  Load(h, kind, of, assigned, Dirty(assigned) \cup {"sub"})

Close(h) == job' = [job EXCEPT ![h] = NoJob]

Lost(h) == {c \in DOMAIN job[h].assigned \ job[h].sent : row[c] # job[h].assigned[c]}

Commit(h) ==
  /\ row' = [c \in Columns |-> IF c \in job[h].sent THEN job[h].assigned[c] ELSE row[c]]
  /\ lostWrite' = (lostWrite \/ Lost(h) # {})
  /\ Close(h)

-----------------------------------------------------------------------------
(* Endpoints of the account owner *)

\* /razorpay/verify-simulation, in test mode.
OpenSimulation(h) ==
  /\ Load(h, "simulate", 0, Simulation, Dirty(Simulation))
  /\ UNCHANGED <<row, lostWrite, gatewayVars, manualVars>>

\* 400 without a subscription on record.
OpenCancel(h) ==
  /\ row.sub # NoSub
  /\ Load(h, "cancel", 0, Cancellation, Dirty(Cancellation))
  /\ UNCHANGED <<row, lostWrite, gatewayVars, manualVars>>

\* The signature is right, the payment was captured, and the order is for a
\* paid tier; an order that cannot be fetched counts as one for pro.
OpenVerify(h) ==
  /\ \E tier \in PaidTiers : LoadPayment(h, "verify", 0, Payment(tier, "payment"))
  /\ UNCHANGED <<row, lostWrite, gatewayVars, manualVars>>

OwnerCommit(h) ==
  /\ job[h].kind \in {"simulate", "cancel", "verify"}
  /\ Commit(h)
  /\ UNCHANGED <<gatewayVars, manualVars>>

-----------------------------------------------------------------------------
(* Manual activation *)

RequestActivation(m) ==
  /\ activation[m] = "none"
  /\ activation' = [activation EXCEPT ![m] = "pending"]
  /\ \E tier \in PaidTiers : asked' = [asked EXCEPT ![m] = tier]
  /\ UNCHANGED <<row, job, lostWrite, contested, gatewayVars>>

CanDecideAgain(m) == activation[m] # "none"
CanDecide(m) == activation[m] = "pending"

BeingDecided(m) == \E h \in Handlers : job[h].kind \in {"approve", "reject"} /\ job[h].of = m

OpenDecision(h, m) ==
  /\ CanDecide(m)
  /\ \/ LET grant == Upgrade(asked[m]) IN Load(h, "approve", m, grant, Dirty(grant))
     \/ Load(h, "reject", m, Nothing, {})
  /\ contested' = IF BeingDecided(m) THEN contested \cup {m} ELSE contested
  /\ UNCHANGED <<row, activation, asked, lostWrite, gatewayVars>>

Decide(h) ==
  /\ job[h].kind \in {"approve", "reject"}
  /\ activation' = [activation EXCEPT ![job[h].of] =
                      IF job[h].kind = "approve" THEN "approved" ELSE "rejected"]
  /\ Commit(h)
  /\ UNCHANGED <<asked, contested, gatewayVars>>

-----------------------------------------------------------------------------
(* The gateway and its webhook *)

Cancelled == events # <<>> /\ events[Len(events)] = "subscription.cancelled"

\* The life of the gateway's subscription, as far as it sends events.
GatewayEvent(type) ==
  /\ Len(events) < MaxEvents
  /\ ~Cancelled
  /\ (events = <<>>) = (type = "subscription.activated")
  /\ events' = Append(events, type)
  /\ undelivered' = undelivered \cup {Len(events) + 1}
  /\ UNCHANGED <<row, job, lostWrite, applied, manualVars>>

\* Deliveries come in any order, and again until one has been answered.
OpenWebhook(h) ==
  /\ \E i \in undelivered : \E assigned \in EventAssignments(events[i]) :
       IF "sub" \in DOMAIN assigned /\ assigned # Cancellation
         THEN LoadPayment(h, "webhook", i, assigned)
         ELSE Load(h, "webhook", i, assigned, Dirty(assigned))
  /\ UNCHANGED <<row, lostWrite, gatewayVars, manualVars>>

\* Every outcome is answered with 200; the answer may still not arrive.
Answered(i) == undelivered' \in {undelivered, undelivered \ {i}}

Webhook(h) ==
  /\ job[h].kind = "webhook"
  /\ Commit(h)
  /\ Answered(job[h].of)
  /\ applied' = IF job[h].of = applied + 1 THEN applied + 1 ELSE Disordered
  /\ UNCHANGED <<events, manualVars>>

\* Whatever goes wrong inside is logged and answered with 200 "processed".
WebhookError(h) ==
  /\ job[h].kind = "webhook"
  /\ Close(h)
  /\ Answered(job[h].of)
  /\ UNCHANGED <<row, lostWrite, events, applied, manualVars>>

\* Any handler may end before its commit.
Fail(h) ==
  /\ job[h].kind # "idle"
  /\ Close(h)
  /\ UNCHANGED <<row, lostWrite, gatewayVars, manualVars>>

Handle(h) ==
  \/ OpenSimulation(h) \/ OpenCancel(h) \/ OpenVerify(h) \/ OwnerCommit(h)
  \/ (\E m \in Manual : OpenDecision(h, m)) \/ Decide(h)
  \/ OpenWebhook(h) \/ Webhook(h) \/ WebhookError(h)
  \/ Fail(h)

Next ==
  \/ \E m \in Manual : RequestActivation(m)
  \/ \E type \in EventTypes : GatewayEvent(type)
  \/ \E h \in Handlers : Handle(h)

Spec == Init /\ [][Next]_vars

-----------------------------------------------------------------------------
(* Properties *)

\* The daily limits are those of the tier, and a canceled account has neither a
\* paid tier nor a subscription.  Webhooks, checkouts, cancellations and
\* approvals may overlap as they like: only an assignment that the session did
\* not send, because the value it had loaded was the same, can tear the row.
EntitlementConsistent ==
  \/ lostWrite
  \/ /\ row.limits = row.tier \/ (row.tier = "free" /\ row.limits = "unset")
     /\ row.status = "canceled" => row.tier = "free" /\ row.sub = NoSub

\* A manual request is decided once.  The handlers check "pending" when they
\* load the request and nothing holds it until they commit, so a decision is
\* overturned only by one that was being taken at the same time.
DecisionStands ==
  [][\A m \in Manual \ contested :
       activation[m] \in Decided => activation'[m] = activation[m]]_vars

\* The last word of the gateway counts: when its events have been handled one
\* after the other and the last one is the cancellation, the account no longer
\* carries the subscription.
GatewayCancelStands ==
  Cancelled /\ applied = Len(events) /\ ~lostWrite => row.sub # "subscription"
=============================================================================
