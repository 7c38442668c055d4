------------------------------- MODULE Billing -------------------------------
(***************************************************************************)
(* billing-service: checkout sessions, subscriptions, the webhooks of the  *)
(* payment provider, cancellation by the customer, the reconciliation      *)
(* loop, and the entitlement cache that booking-service keeps from the     *)
(* two kinds of events billing announces.                                  *)
(*                                                                         *)
(* A checkout session and the subscription it leads to share one number of *)
(* Subs.  The provider (Stripe) is external: sessions are paid or expire,  *)
(* subscriptions lapse and end, and each change is an event in sent, which *)
(* is delivered in any order, any number of times, or never.               *)
(*                                                                         *)
(* The process ids of tx are the requests being handled and Reconciler,    *)
(* the replica whose advisory lock lets it reconcile.  A transaction has   *)
(* no effect before its last step; what others notice earlier is the       *)
(* provider event it has inserted (a second insert waits for it) and the   *)
(* subscription row it has locked.  Answers that change nothing, such as   *)
(* "duplicate", are stuttering steps.                                      *)
(***************************************************************************)
EXTENDS Integers, Sequences, FiniteSets, SequencesExt

CONSTANTS
  Businesses,
  Tiers,        \* tiers that have a price
  Subs,         \* bound: checkout sessions, an interval 1..n
  LocalEvents,  \* local webhooks: [type: {"local"}, id, biz, status, tier]
  Requests,     \* requests being handled at one time
  Reconciler,   \* the reconciliation loop
  NoRow, NoKey, NoSub,
  BatchSize,    \* rows of one reconciliation
  MaxInputs     \* bound: webhooks, cancellations, acknowledgements, failures,
                \* lapses and expiries

Processes == Requests \union {Reconciler}

VARIABLES
  stripe,   \* stripe[i]: state of session i, then of its subscription
  deal,     \* deal[i]: the metadata of session i: business and tier
  sent,     \* events the provider has sent
  stripeCancels, \* subscriptions cancelled through the API (idempotency keys)
  checkout, \* checkout_sessions: status, "none" without a row
  row,      \* subscriptions
  recency,  \* businesses with a row, by updated_at, the latest first
  providerEvents, \* provider_events
  announced, \* announced[b]: the last event of b in the outbox
  pending,  \* the events booking-service has not handled, in outbox order
  cap,      \* business_entitlements of booking-service
  overtaken, \* businesses of which an event was handled before an older one
  tx,       \* tx[p]: what process p is doing
  todo,     \* rows the reconciliation has still to visit, with their place in the list
  inputs    \* how many of those so far

stripeVars == <<stripe, deal, sent, stripeCancels>>
rowVars == <<checkout, row, recency, providerEvents, announced>>
cacheVars == <<pending, cap, overtaken>>
vars == <<stripeVars, rowVars, cacheVars, tx, todo, inputs>>

EventTypes == {"completed", "updated", "lapsed", "deleted", "expired"}
StripeEvents == [type: EventTypes, id: Subs]
CancelKey(i) == [type |-> "cancel", id |-> i]
Keys == StripeEvents \union {CancelKey(i) : i \in Subs} \union LocalEvents

AllTiers == Tiers \union {"free"} \union {e.tier : e \in LocalEvents}
Row == [tier: AllTiers, status: {"active", "canceled"},
        provider: {"stripe", "local"}, sub: Subs \union {NoSub}]
Event == [biz: Businesses, status: {"active", "canceled"}, cap: Nat]

\* What a process is doing: nothing; between the session and its row; a
\* cancellation, before and after the provider's answer; the loop, between the
\* provider's answer and the transaction; a transaction.
Idle == [phase |-> "idle"]
Transactions ==
  {Idle}
    \union [phase: {"checkout"}, id: Subs]
    \union [phase: {"call", "begin"}, biz: Businesses, id: Subs]
    \union [phase: {"got"}, biz: Businesses, row: Row]
    \union [phase: {"write"}, key: Keys \union {NoKey}, biz: Businesses, row: Row,
            read: Row \union {NoRow}]

ASSUME BillingAssumption ==
  /\ "free" \notin Tiers
  /\ Subs \subseteq Nat /\ NoSub \notin Subs
  /\ \A e \in LocalEvents :
       e.type = "local" /\ e.biz \in Businesses /\ e.status \in {"active", "canceled"}
  /\ NoRow \notin Row \union Event /\ NoKey \notin Keys
  /\ Reconciler \notin Requests
  /\ BatchSize \in Nat \ {0} /\ MaxInputs \in Nat

Input ==
  /\ inputs < MaxInputs
  /\ inputs' = inputs + 1

\* MaxMonthlyAppointments
LimitsForTier(tier) ==
  CASE tier = "starter" -> 1
    [] tier = "pro" -> 2000
    [] OTHER -> 200

\* Every variable has values of its type, and a row is there exactly when the
\* business is in the order of updated_at.
TypeOK ==
  /\ stripe \in [Subs -> {"none", "open", "expired", "active", "past_due", "canceled"}]
  /\ deal \in [Subs -> [biz: Businesses, tier: Tiers] \union {NoRow}]
  /\ sent \subseteq StripeEvents /\ stripeCancels \subseteq Subs
  /\ checkout \in [Subs -> {"none", "created", "completed", "expired", "canceled"}]
  /\ row \in [Businesses -> Row \union {NoRow}]
  /\ recency \in Seq(Businesses) /\ IsInjective(recency)
  /\ \A b \in Businesses : row[b] # NoRow <=> \E k \in DOMAIN recency : recency[k] = b
  /\ providerEvents \subseteq Keys
  /\ announced \in [Businesses -> Event \union {NoRow}]
  /\ pending \in Seq(Event)
  /\ cap \in [Businesses -> Nat \union {NoRow}]
  /\ overtaken \subseteq Businesses
  /\ tx \in [Processes -> Transactions]
  /\ todo \subseteq [at: Nat, biz: Businesses, sub: Subs]
  /\ inputs \in 0..MaxInputs

------------------------------------------------------------------------------
(* The provider.                                                            *)

Send(types, i) == sent' = sent \union {[type |-> t, id |-> i] : t \in types}

\* The customer, who has the session's address once the checkout has answered,
\* pays; or does not, and the session expires.
Pays(i) ==
  /\ stripe[i] = "open" /\ checkout[i] # "none"
  /\ stripe' = [stripe EXCEPT ![i] = "active"]
  /\ Send({"completed", "updated"}, i)
  /\ UNCHANGED <<deal, stripeCancels, rowVars, cacheVars, tx, todo, inputs>>

Expires(i) ==
  /\ Input
  /\ stripe[i] = "open"
  /\ stripe' = [stripe EXCEPT ![i] = "expired"]
  /\ Send({"expired"}, i)
  /\ UNCHANGED <<deal, stripeCancels, rowVars, cacheVars, tx, todo>>

\* A payment fails, and the subscription is not active any more.
Lapses(i) ==
  /\ Input
  /\ stripe[i] = "active"
  /\ stripe' = [stripe EXCEPT ![i] = "past_due"]
  /\ Send({"lapsed"}, i)
  /\ UNCHANGED <<deal, stripeCancels, rowVars, cacheVars, tx, todo>>

Ends(i) ==
  /\ stripe[i] \in {"active", "past_due"}
  /\ stripe' = [stripe EXCEPT ![i] = "canceled"]
  /\ Send({"deleted"}, i)
  /\ UNCHANGED <<deal, stripeCancels, rowVars, cacheVars, tx, todo, inputs>>

------------------------------------------------------------------------------
(* Checkout.                                                                *)

\* The provider makes a session, a new one on every call: the address to
\* return to holds a fresh token, so a repeated idempotency key is refused.
CheckoutStub(p, b, t) ==
  /\ tx[p] = Idle
  /\ \E i \in Subs :
       /\ stripe[i] = "none" /\ \A j \in Subs : j < i => stripe[j] # "none"
       /\ stripe' = [stripe EXCEPT ![i] = "open"]
       /\ deal' = [deal EXCEPT ![i] = [biz |-> b, tier |-> t]]
       /\ tx' = [tx EXCEPT ![p] = [phase |-> "checkout", id |-> i]]
  /\ UNCHANGED <<sent, stripeCancels, rowVars, cacheVars, todo, inputs>>

\* UpsertCheckoutSession, the audit record, and the commit.
CommitCheckout(p) ==
  /\ tx[p].phase = "checkout"
  /\ checkout' = [checkout EXCEPT ![tx[p].id] = "created"]
  /\ tx' = [tx EXCEPT ![p] = Idle]
  /\ UNCHANGED <<stripeVars, row, recency, providerEvents, announced, cacheVars,
                 todo, inputs>>

AckOverwrites(i, result) ==
  /\ Input
  /\ checkout[i] # "none" /\ result = "cancel"
  /\ checkout' = [checkout EXCEPT ![i] = "canceled"]
  /\ UNCHANGED <<stripeVars, row, recency, providerEvents, announced, cacheVars,
                 tx, todo>>
\* The return pages acknowledge with the session's token.  "success" sets
\* return_seen_at and nothing else.
AckCheckoutReturn(i, result) ==
  /\ Input
  /\ checkout[i] # "none" /\ result = "cancel"
  /\ checkout[i] # "completed"
  /\ checkout' = [checkout EXCEPT ![i] = "canceled"]
  /\ UNCHANGED <<stripeVars, row, recency, providerEvents, announced, cacheVars,
                 tx, todo>>

------------------------------------------------------------------------------
(* What an open transaction keeps from the others.                          *)

\* An uncommitted insert of the same key makes the next one wait.
KeyHeld(k) == \E p \in Processes : tx[p].phase = "write" /\ tx[p].key = k
RowHeld(b) == \E p \in Processes :
  tx[p].phase = "write" /\ tx[p].biz = b /\ tx[p].read # NoRow

\* Looking before inserting, without the unique index.
NotYetSeen(k) == k \notin providerEvents
\* InsertProviderEvent inserts: the event is neither there nor being inserted.
NewEvent(k) == k \notin providerEvents /\ ~KeyHeld(k)

ReadWithoutLock(b) == TRUE
\* SELECT ... FOR UPDATE.  Where there is no row there is nothing to lock.
GetSubscriptionForUpdate(b) == ~RowHeld(b)

\* A transaction that has inserted k and read the row of b, which r replaces.
Apply(k, b, r) == [phase |-> "write", key |-> k, biz |-> b, row |-> r, read |-> row[b]]

Activated(tier, provider, i) ==
  [tier |-> tier, status |-> "active", provider |-> provider, sub |-> i]
Canceled(provider, i) ==
  [tier |-> "free", status |-> "canceled", provider |-> provider, sub |-> i]

------------------------------------------------------------------------------
(* The webhooks: record the event, then apply it, in one transaction.       *)

TierKept(e) ==
  [Activated(deal[e.id].tier, "stripe", e.id) EXCEPT
     !.status = IF e.type = "deleted" THEN "canceled" ELSE "active"]
StripeChange(e) ==
  IF e.type = "deleted" THEN Canceled("stripe", e.id)
  ELSE Activated(deal[e.id].tier, "stripe", e.id)

\* A replayed or concurrent delivery finds the event there and is ignored.
StripeWebhook(p, e) ==
  /\ Input
  /\ tx[p] = Idle
  /\ e \in sent /\ e.type \in {"completed", "updated", "deleted"}
  /\ NewEvent(e) /\ GetSubscriptionForUpdate(deal[e.id].biz)
  /\ tx' = [tx EXCEPT ![p] = Apply(e, deal[e.id].biz, StripeChange(e))]
  /\ UNCHANGED <<stripeVars, rowVars, cacheVars, todo>>

\* Events that leave the subscription alone: an expired session is marked
\* unless it is completed; an update to a state without entitlement is only
\* recorded.
StripeNotice(e) ==
  /\ Input
  /\ e \in sent /\ e.type \in {"expired", "lapsed"}
  /\ NewEvent(e)
  /\ providerEvents' = providerEvents \union {e}
  /\ checkout' = IF e.type = "expired" /\ checkout[e.id] \notin {"none", "completed"}
                 THEN [checkout EXCEPT ![e.id] = "expired"] ELSE checkout
  /\ UNCHANGED <<stripeVars, row, recency, announced, cacheVars, tx, todo>>

\* An unknown type or an activation without a tier is refused, unrecorded.
LocalWebhook(p, e) ==
  /\ Input
  /\ tx[p] = Idle
  /\ NewEvent(e) /\ GetSubscriptionForUpdate(e.biz)
  /\ tx' = [tx EXCEPT ![p] = Apply(e, e.biz,
       IF e.status = "active" THEN Activated(e.tier, "local", NoSub)
       ELSE Canceled("local", NoSub))]
  /\ UNCHANGED <<stripeVars, rowVars, cacheVars, todo>>

------------------------------------------------------------------------------
(* ApplyActivated and ApplyCanceled.                                        *)

\* Provider ids and periods alone do not fan out.
SameEntitlement(t) ==
  /\ t.read # NoRow
  /\ t.read.status = t.row.status /\ t.read.tier = t.row.tier

TouchedTwice(b) == <<b>> \o recency
\* updated_at = now()
Touched(b) ==
  LET at == {k \in DOMAIN recency : recency[k] = b} IN
  <<b>> \o (IF at = {} THEN recency ELSE RemoveAt(recency, CHOOSE k \in at : TRUE))

CompletesSession(t) == t.key # NoKey /\ t.key.type = "completed" /\ checkout[t.key.id] # "none"

\* The upsert, the event if the entitlement changes, and the commit.  An
\* upsert without a lock waits for a transaction that holds the row.
CommitSubscription(p) ==
  LET t == tx[p]
      event == [biz |-> t.biz, status |-> t.row.status,
                cap |-> LimitsForTier(t.row.tier)] IN
  /\ t.phase = "write"
  /\ t.read = NoRow => ~RowHeld(t.biz)
  /\ row' = [row EXCEPT ![t.biz] = t.row]
  /\ recency' = Touched(t.biz)
  /\ IF SameEntitlement(t)
     THEN UNCHANGED <<announced, pending>>
     ELSE /\ announced' = [announced EXCEPT ![t.biz] = event]
          /\ pending' = Append(pending, event)
  /\ providerEvents' = providerEvents \union ({t.key} \ {NoKey})
  /\ checkout' = IF CompletesSession(t)
                 THEN [checkout EXCEPT ![t.key.id] = "completed"] ELSE checkout
  /\ tx' = [tx EXCEPT ![p] = Idle]
  /\ UNCHANGED <<stripeVars, cap, overtaken, todo, inputs>>

\* A call or a statement fails or the process dies: nothing is committed.
\* A checkout leaves its session at the provider, a cancellation its effect.
Fails(p) ==
  /\ tx[p] # Idle
  /\ Input
  /\ tx' = [tx EXCEPT ![p] = Idle]
  /\ UNCHANGED <<stripeVars, rowVars, cacheVars, todo>>

------------------------------------------------------------------------------
(* Cancellation by the customer: row, provider, transaction.                *)

\* GetSubscription, outside any transaction.
CancelReadsRow(p, b) ==
  /\ Input
  /\ tx[p] = Idle
  /\ row[b] # NoRow /\ row[b].sub # NoSub
  /\ tx' = [tx EXCEPT ![p] = [phase |-> "call", biz |-> b, id |-> row[b].sub]]
  /\ UNCHANGED <<stripeVars, rowVars, cacheVars, todo>>

\* The provider cancels, or repeats its answer to the same idempotency key.
CancelAtStripe(p) ==
  /\ tx[p].phase = "call"
  /\ LET i == tx[p].id IN
     \/ /\ stripe[i] \in {"active", "past_due"}
        /\ stripe' = [stripe EXCEPT ![i] = "canceled"]
        /\ stripeCancels' = stripeCancels \union {i}
        /\ Send({"deleted"}, i)
     \/ /\ i \in stripeCancels
        /\ UNCHANGED <<stripe, stripeCancels, sent>>
  /\ tx' = [tx EXCEPT ![p].phase = "begin"]
  /\ UNCHANGED <<deal, rowVars, cacheVars, todo, inputs>>

\* It has no such subscription any more, and the customer gets a 502.
CancelRefused(p) ==
  /\ tx[p].phase = "call"
  /\ stripe[tx[p].id] = "canceled" /\ tx[p].id \notin stripeCancels
  /\ tx' = [tx EXCEPT ![p] = Idle]
  /\ UNCHANGED <<stripeVars, rowVars, cacheVars, todo, inputs>>

\* InsertProviderEvent with the key of the call; a second call with it changes
\* nothing here.
CancelSubscription(p) ==
  LET i == tx[p].id
      k == CancelKey(i) IN
  /\ tx[p].phase = "begin"
  /\ ~KeyHeld(k) /\ (k \in providerEvents \/ GetSubscriptionForUpdate(tx[p].biz))
  /\ tx' = [tx EXCEPT ![p] = IF k \in providerEvents THEN Idle
                             ELSE Apply(k, tx[p].biz, Canceled("stripe", i))]
  /\ UNCHANGED <<stripeVars, rowVars, cacheVars, todo, inputs>>

------------------------------------------------------------------------------
(* The reconciliation loop.                                                 *)

Stripe(b) == row[b].provider = "stripe" /\ row[b].sub # NoSub
\* ORDER BY updated_at DESC LIMIT batchSize
ListForReconcile ==
  LET Listed(k) == Stripe(recency[k]) /\ Cardinality({j \in 1..k : Stripe(recency[j])}) <= BatchSize IN
  {[at |-> k, biz |-> recency[k], sub |-> row[recency[k]].sub] :
     k \in {k \in DOMAIN recency : Listed(k)}}

ReconcileList ==
  /\ tx[Reconciler] = Idle /\ todo = {}
  /\ todo' = ListForReconcile
  /\ UNCHANGED <<stripeVars, rowVars, cacheVars, tx, inputs>>

EntitledWhilePastDue(i) == stripe[i] \in {"active", "past_due"}
Entitled(i) == stripe[i] = "active"
\* The state of the subscription that the row named when the list was made.
ReconcileGet ==
  /\ tx[Reconciler] = Idle
  /\ \E s \in todo :
       /\ \A r \in todo : s.at <= r.at
       /\ todo' = todo \ {s}
       /\ tx' = [tx EXCEPT ![Reconciler] = [phase |-> "got", biz |-> s.biz, row |->
            IF Entitled(s.sub) THEN Activated(deal[s.sub].tier, "stripe", s.sub)
            ELSE Canceled("stripe", s.sub)]]
  /\ UNCHANGED <<stripeVars, rowVars, cacheVars, inputs>>

\* Its transaction, later: nothing is looked at again.
ReconcileApply ==
  LET t == tx[Reconciler] IN
  /\ t.phase = "got" /\ GetSubscriptionForUpdate(t.biz)
  /\ tx' = [tx EXCEPT ![Reconciler] = Apply(NoKey, t.biz, t.row)]
  /\ UNCHANGED <<stripeVars, rowVars, cacheVars, todo, inputs>>

------------------------------------------------------------------------------
(* booking-service.                                                         *)

AnyOrder(n) == TRUE
\* One topic per type of event, its messages in the order of the outbox.
NextOfItsTopic(n) ==
  \A m \in 1..(n - 1) : pending[m].biz = pending[n].biz => pending[m].status # pending[n].status
\* The handler takes the limit of the event, whatever its age.
UpsertBusinessEntitlements(n) ==
  LET e == pending[n] IN
  /\ NextOfItsTopic(n)
  /\ cap' = [cap EXCEPT ![e.biz] = e.cap]
  /\ pending' = RemoveAt(pending, n)
  /\ overtaken' = IF \E m \in 1..(n - 1) : pending[m].biz = e.biz /\ pending[m].status # e.status
                  THEN overtaken \union {e.biz} ELSE overtaken
  /\ UNCHANGED <<stripeVars, rowVars, tx, todo, inputs>>

------------------------------------------------------------------------------
Init ==
  /\ stripe = [i \in Subs |-> "none"]
  /\ deal = [i \in Subs |-> NoRow]
  /\ sent = {} /\ stripeCancels = {}
  /\ checkout = [i \in Subs |-> "none"]
  /\ row = [b \in Businesses |-> NoRow]
  /\ recency = <<>>
  /\ providerEvents = {}
  /\ announced = [b \in Businesses |-> NoRow]
  /\ pending = <<>>
  /\ cap = [b \in Businesses |-> NoRow]
  /\ overtaken = {}
  /\ tx = [p \in Processes |-> Idle]
  /\ todo = {} /\ inputs = 0

Provider(i) == Pays(i) \/ Expires(i) \/ Lapses(i) \/ Ends(i)
Customer(p) ==
  \/ \E b \in Businesses, t \in Tiers : CheckoutStub(p, b, t)
  \/ CommitCheckout(p)
  \/ \E b \in Businesses : CancelReadsRow(p, b)
  \/ CancelAtStripe(p) \/ CancelRefused(p) \/ CancelSubscription(p)
Webhook(p) ==
  \/ \E e \in sent : StripeWebhook(p, e)
  \/ \E e \in LocalEvents : LocalWebhook(p, e)
Reconcile == ReconcileList \/ ReconcileGet \/ ReconcileApply

Next ==
  \/ \E i \in Subs : Provider(i)
  \/ \E i \in Subs, result \in {"success", "cancel"} : AckCheckoutReturn(i, result)
  \/ \E e \in sent : StripeNotice(e)
  \/ \E p \in Requests : Customer(p) \/ Webhook(p)
  \/ \E p \in Processes : CommitSubscription(p) \/ Fails(p)
  \/ Reconcile
  \/ \E n \in DOMAIN pending : UpsertBusinessEntitlements(n)

Spec == Init /\ [][Next]_vars

\* The server finishes the transactions it begins and the loop goes round.
\* Nothing obliges the customer, nor the provider to deliver an event.
FairSpec ==
  /\ Spec
  /\ \A p \in Processes : WF_vars(CommitSubscription(p))
  /\ WF_vars(ReconcileList) /\ WF_vars(ReconcileGet) /\ WF_vars(ReconcileApply)

------------------------------------------------------------------------------
(* What the three readers of a subscription are told.                       *)

\* The gRPC answer: the limit of an active row, and the free one otherwise.
GetEntitlements(b) ==
  IF row[b] # NoRow /\ row[b].status = "active" THEN LimitsForTier(row[b].tier)
  ELSE LimitsForTier("free")
\* The HTTP answer looks at the tier alone.
GetSubscription(b) ==
  IF row[b] = NoRow THEN LimitsForTier("free") ELSE LimitsForTier(row[b].tier)

\* The last event in the outbox says what the row says, and the two read
\* interfaces agree with it: no transaction decides against a row that has
\* changed under it whether the change is worth an event.
AnnouncedIsCurrent ==
  \A b \in Businesses :
    /\ row[b] # NoRow <=> announced[b] # NoRow
    /\ row[b] # NoRow =>
         /\ announced[b].status = row[b].status
         /\ announced[b].cap = GetEntitlements(b)
    /\ GetSubscription(b) = GetEntitlements(b)

\* Once booking-service has handled every event of a business, its limit is
\* the one of the row, unless an event was handled before an older one of the
\* other topic.
CacheFollowsRow ==
  \A b \in Businesses \ overtaken :
    (row[b] # NoRow /\ \A n \in DOMAIN pending : pending[n].biz # b)
      => cap[b] = GetEntitlements(b)

\* A checkout session shows as completed if and only if the provider's event
\* that completes it has been processed, whatever the customer acknowledges,
\* and whichever events arrive, before or after it.
CompletedIffPaid ==
  \A i \in Subs : checkout[i] # "none" =>
    (checkout[i] = "completed" <=> [type |-> "completed", id |-> i] \in providerEvents)

\* A row of the provider names a subscription that this business has paid
\* for, and entitles it to that subscription's tier or to nothing: although
\* webhooks, cancellations and the loop write whole rows from what they read
\* before.
EntitledByPayment ==
  \A b \in Businesses : (row[b] # NoRow /\ Stripe(b)) =>
    /\ stripe[row[b].sub] \in {"active", "past_due", "canceled"}
    /\ deal[row[b].sub].biz = b
    /\ row[b].tier \in {deal[row[b].sub].tier, "free"}
    /\ row[b].tier = "free" <=> row[b].status = "canceled"

\* "Webhook replay does not duplicate subscription state": the transaction of
\* a delivery whose event another delivery has already recorded changes
\* nothing when it ends.
ReplayChangesNothing ==
  [][\A p \in Processes :
       (tx[p].phase = "write" /\ tx[p].key \in providerEvents /\ tx'[p] = Idle)
         => UNCHANGED <<row, checkout, announced, pending>>]_vars

\* The row agrees with the subscription it names.
NamedAgrees(b) ==
  (row[b] # NoRow /\ Stripe(b)) =>
    (row[b].status = "active" <=> stripe[row[b].sub] = "active")

\* "If webhooks are missed, billing-service can periodically fetch Stripe
\* subscription state and self-heal": when the provider and the customers are
\* done, every row comes to agree with the subscription it names, although
\* no delivery is certain.
SelfHeals == \A b \in Businesses : <>[]NamedAgrees(b)
==============================================================================
