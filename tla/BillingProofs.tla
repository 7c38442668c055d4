---------------------------- MODULE BillingProofs ----------------------------
(***************************************************************************)
(* What the subscriptions, their announcements and the limits copied to    *)
(* booking-service keep, for every set of businesses, tiers, sessions,     *)
(* requests and local webhooks: the invariants and the action property     *)
(* that the run Billing_sync checks on a small instance.                   *)
(*                                                                         *)
(* The inductive invariant says who holds what: which transaction has read *)
(* a row (LockedRowIsRead), which one has inserted an event (KeysInserted) *)
(* and what money every row, every request and every entry of the loop's   *)
(* list stands for (Paid).                                                 *)
(***************************************************************************)
EXTENDS Billing, FiniteSetTheorems, TLAPS

Writing(p) == tx[p].phase = "write"

\* A business has paid for subscription i, whatever became of it since.
Paid(i, b) ==
  /\ i \in Subs
  /\ stripe[i] \in {"active", "past_due", "canceled"}
  /\ deal[i] \in [biz: {b}, tier: Tiers]

\* What may be written as the row of b.
RowFor(r, b) ==
  /\ r.status = "canceled" => r.tier = "free"
  /\ r.provider = "local" => r.sub = NoSub
  /\ r.provider = "stripe" =>
       /\ Paid(r.sub, b)
       /\ r.tier \in {deal[r.sub].tier, "free"}
       /\ r.tier = "free" <=> r.status = "canceled"

\* A session the provider has made has its metadata, and no other has a row.
Sessions == \A i \in Subs :
  /\ stripe[i] # "none" => deal[i] \in [biz: Businesses, tier: Tiers]
  /\ stripe[i] = "none" => checkout[i] = "none"

\* An event tells what has become of its session.
EventsAreTrue == \A e \in sent :
  /\ e.type = "expired" => stripe[e.id] = "expired"
  /\ e.type # "expired" => stripe[e.id] \in {"active", "past_due", "canceled"}
  /\ e.type = "completed" => checkout[e.id] # "none"

RowsArePaid == \A b \in Businesses : row[b] # NoRow => RowFor(row[b], b)
RequestIsPaid(t) ==
  /\ t.phase \in {"call", "begin"} => Paid(t.id, t.biz)
  /\ t.phase \in {"got", "write"} => RowFor(t.row, t.biz)
RequestsArePaid == \A p \in Processes : RequestIsPaid(tx[p])
ListIsPaid == \A s \in todo : Paid(s.sub, s.biz)

\* No event of the provider is recorded, or being recorded, that it never sent.
EventsWereSent ==
  /\ providerEvents \intersect StripeEvents \subseteq sent
  /\ \A p \in Processes : Writing(p) /\ tx[p].key \in StripeEvents => tx[p].key \in sent

\* One transaction at a time has inserted an event, which is not committed.
KeysInserted == \A p \in Processes : Writing(p) /\ tx[p].key # NoKey =>
  /\ tx[p].key \notin providerEvents
  /\ \A q \in Processes : Writing(q) /\ tx[q].key = tx[p].key => q = p

\* One transaction at a time has a row of a business locked, and the row is
\* still the one it has read.
LockedRowIsRead == \A p \in Processes : Writing(p) /\ tx[p].read # NoRow =>
  /\ row[tx[p].biz] = tx[p].read
  /\ \A q \in Processes : Writing(q) /\ tx[q].read # NoRow /\ tx[q].biz = tx[p].biz => q = p

\* Each session is committed by the one request that has made it.
SessionsOfRequests == \A p \in Processes : tx[p].phase = "checkout" =>
  /\ stripe[tx[p].id] # "none" /\ checkout[tx[p].id] = "none"
  /\ \A q \in Processes : tx[q].phase = "checkout" /\ tx[q].id = tx[p].id => q = p

\* The last event of a business still to be handled is the last one announced,
\* and when none is left, its limit is in the cache.
LastPending == \A b \in Businesses \ overtaken :
  /\ \A n \in DOMAIN pending :
       (pending[n].biz = b /\ \A m \in DOMAIN pending : m > n => pending[m].biz # b)
         => pending[n] = announced[b]
  /\ (announced[b] # NoRow /\ \A n \in DOMAIN pending : pending[n].biz # b)
       => cap[b] = announced[b].cap

IInv ==
  /\ TypeOK
  /\ Sessions /\ EventsAreTrue
  /\ RowsArePaid /\ RequestsArePaid /\ ListIsPaid
  /\ EventsWereSent /\ KeysInserted
  /\ LockedRowIsRead
  /\ SessionsOfRequests /\ CompletedIffPaid
  /\ AnnouncedIsCurrent /\ LastPending

------------------------------------------------------------------------------
(* Operators.                                                               *)

\* What a transaction carries in each of its phases.
LEMMA Phases ==
  ASSUME NEW t \in Transactions
  PROVE  /\ t.phase \in {"idle", "checkout", "call", "begin", "got", "write"}
         /\ t.phase = "idle" => t = Idle
         /\ t.phase = "checkout" => t.id \in Subs
         /\ t.phase \in {"call", "begin"} => t.biz \in Businesses /\ t.id \in Subs
         /\ t.phase = "got" => t.biz \in Businesses /\ t.row \in Row
         /\ t.phase = "write" =>
              /\ t.biz \in Businesses /\ t.row \in Row
              /\ t.key \in Keys \union {NoKey} /\ t.read \in Row \union {NoRow}
  BY DEF Transactions, Idle

\* The limit of every tier is a number.
LEMMA LimitIsNat == \A tier : LimitsForTier(tier) \in Nat
  BY DEF LimitsForTier

\* Sequences without their n-th element.
LEMMA RemoveAtFacts ==
  ASSUME NEW S, NEW s \in Seq(S), NEW n \in DOMAIN s
  PROVE  /\ RemoveAt(s, n) \in Seq(S)
         /\ Len(RemoveAt(s, n)) = Len(s) - 1
         /\ \A m \in 1..(Len(s) - 1) : RemoveAt(s, n)[m] = IF m < n THEN s[m] ELSE s[m + 1]
<1>. DEFINE head == SubSeq(s, 1, n - 1)
            tail == SubSeq(s, n + 1, Len(s))
<1>1. head \in Seq(S) /\ Len(head) = n - 1 /\ \A m \in 1..(n - 1) : head[m] = s[m]
  OBVIOUS
<1>2. /\ tail \in Seq(S) /\ Len(tail) = Len(s) - n
      /\ \A m \in 1..(Len(s) - n) : tail[m] = s[n + m]
  OBVIOUS
<1>3. RemoveAt(s, n) = head \o tail
  BY DEF RemoveAt
<1>. HIDE DEF head, tail
<1>. DEFINE r == head \o tail
<1>4. /\ r \in Seq(S) /\ Len(r) = Len(s) - 1
      /\ \A m \in 1..(Len(s) - 1) : r[m] = IF m < n THEN head[m] ELSE tail[m - (n - 1)]
  <2>1. Len(head) + Len(tail) = Len(s) - 1
    BY <1>1, <1>2
  <2>2. /\ r \in Seq(S) /\ Len(r) = Len(head) + Len(tail)
        /\ \A m \in 1..(Len(head) + Len(tail)) :
             r[m] = IF m <= Len(head) THEN head[m] ELSE tail[m - Len(head)]
    BY <1>1, <1>2
  <2>. HIDE DEF r
  <2>. QED  BY <2>1, <2>2, <1>1
<1>. HIDE DEF r
<1>5. ASSUME NEW m \in 1..(Len(s) - 1)  PROVE r[m] = IF m < n THEN s[m] ELSE s[m + 1]
  <2>1. CASE m < n
    <3>1. m \in 1..(n - 1)
      BY <2>1
    <3>2. r[m] = head[m]
      BY <2>1, <1>4
    <3>. QED  BY <2>1, <3>1, <3>2, <1>1
  <2>2. CASE ~(m < n)
    <3>1. m - (n - 1) \in 1..(Len(s) - n) /\ n + (m - (n - 1)) = m + 1
      BY <2>2
    <3>. QED  BY <2>2, <3>1, <1>2, <1>4
  <2>. QED  BY <2>1, <2>2
<1>. QED  BY <1>3, <1>4, <1>5 DEF r

\* A business that is written comes first, once, and the others keep their order.
LEMMA TouchedFacts ==
  ASSUME NEW b \in Businesses, recency \in Seq(Businesses), IsInjective(recency)
  PROVE  /\ Touched(b) \in Seq(Businesses) /\ IsInjective(Touched(b))
         /\ \A c \in Businesses :
              (\E k \in DOMAIN Touched(b) : Touched(b)[k] = c)
                <=> (c = b \/ \E k \in DOMAIN recency : recency[k] = c)
<1>. DEFINE at == {k \in DOMAIN recency : recency[k] = b}
            rest == IF at = {} THEN recency ELSE RemoveAt(recency, CHOOSE k \in at : TRUE)
<1>1. /\ rest \in Seq(Businesses) /\ IsInjective(rest)
      /\ \A k \in DOMAIN rest : rest[k] # b
      /\ \A c \in Businesses \ {b} :
           (\E k \in DOMAIN rest : rest[k] = c) <=> \E k \in DOMAIN recency : recency[k] = c
  <2>1. CASE at = {}
    BY <2>1
  <2>2. CASE at # {}
    <3>1. PICK n \in DOMAIN recency : recency[n] = b /\ rest = RemoveAt(recency, n)
      BY <2>2
    <3>. DEFINE r == RemoveAt(recency, n)
    <3>2. /\ r \in Seq(Businesses) /\ Len(r) = Len(recency) - 1
          /\ \A m \in 1..(Len(recency) - 1) : r[m] = IF m < n THEN recency[m] ELSE recency[m + 1]
      BY RemoveAtFacts
    <3>. HIDE DEF r
    <3>3. IsInjective(r)
      <4>. DEFINE Old(k) == IF k < n THEN k ELSE k + 1
      <4>1. \A k \in DOMAIN r : Old(k) \in DOMAIN recency /\ r[k] = recency[Old(k)]
        BY <3>2
      <4>2. \A k, l \in DOMAIN r : Old(k) = Old(l) => k = l
        BY <3>2
      <4>. HIDE DEF Old
      <4>. QED  BY <4>1, <4>2 DEF IsInjective
    <3>4. \A k \in DOMAIN r : r[k] # b
      BY <3>1, <3>2 DEF IsInjective
    <3>5. ASSUME NEW c \in Businesses \ {b}
          PROVE  (\E k \in DOMAIN r : r[k] = c) <=> \E k \in DOMAIN recency : recency[k] = c
      <4>1. ASSUME NEW k \in DOMAIN recency, recency[k] = c
            PROVE  \E m \in DOMAIN r : r[m] = c
        <5>1. CASE k < n
          BY <5>1, <4>1, <3>2
        <5>2. CASE k > n
          <6>1. k - 1 \in DOMAIN r /\ r[k - 1] = recency[k]
            BY <5>2, <3>2
          <6>. QED  BY <6>1, <4>1
        <5>. QED  BY <5>1, <5>2, <4>1, <3>1
      <4>2. ASSUME NEW k \in DOMAIN r, r[k] = c
            PROVE  \E m \in DOMAIN recency : recency[m] = c
        BY <4>2, <3>2
      <4>. QED  BY <4>1, <4>2
    <3>. QED  BY <3>1, <3>2, <3>3, <3>4, <3>5 DEF r
  <2>. QED  BY <2>1, <2>2
<1>. HIDE DEF rest
<1>2. Touched(b) = <<b>> \o rest
  BY DEF Touched, rest
<1>. DEFINE q == <<b>> \o rest
<1>3. /\ q \in Seq(Businesses) /\ Len(q) = Len(rest) + 1 /\ q[1] = b
      /\ \A k \in 2..(Len(rest) + 1) : q[k] = rest[k - 1]
  BY <1>1
<1>. HIDE DEF q
<1>4. IsInjective(q)
  <2>1. SUFFICES ASSUME NEW k \in DOMAIN q, NEW l \in DOMAIN q, q[k] = q[l]  PROVE k = l
    BY DEF IsInjective
  <2>2. \A m \in DOMAIN q : m # 1 => m - 1 \in DOMAIN rest /\ q[m] = rest[m - 1] /\ q[m] # b
    BY <1>1, <1>3
  <2>3. CASE k = 1 \/ l = 1
    BY <2>1, <2>2, <2>3, <1>3
  <2>4. CASE k # 1 /\ l # 1
    <3>1. k - 1 = l - 1
      BY <2>1, <2>2, <2>4, <1>1 DEF IsInjective
    <3>. QED  BY <3>1, <1>3
  <2>. QED  BY <2>3, <2>4
<1>5. ASSUME NEW c \in Businesses \ {b}
      PROVE  (\E k \in DOMAIN q : q[k] = c) <=> \E k \in DOMAIN rest : rest[k] = c
  <2>1. ASSUME NEW k \in DOMAIN rest, rest[k] = c  PROVE \E m \in DOMAIN q : q[m] = c
    <3>1. k + 1 \in DOMAIN q /\ q[k + 1] = rest[k]
      BY <1>1, <1>3
    <3>. QED  BY <3>1, <2>1
  <2>2. ASSUME NEW k \in DOMAIN q, q[k] = c  PROVE \E m \in DOMAIN rest : rest[m] = c
    <3>1. k # 1 /\ k - 1 \in DOMAIN rest /\ rest[k - 1] = c
      BY <2>2, <1>1, <1>3
    <3>. QED  BY <3>1
  <2>. QED  BY <2>1, <2>2
<1>6. \E k \in DOMAIN q : q[k] = b
  BY <1>1, <1>3
<1>. QED
  BY <1>1, <1>2, <1>3, <1>4, <1>5, <1>6 DEF q

------------------------------------------------------------------------------
(* The initial state, and what no step takes back.                          *)

LEMMA InitInv == Init => IInv
<1>. SUFFICES ASSUME Init  PROVE IInv
  OBVIOUS
<1>1. TypeOK
  BY BillingAssumption DEF Init, TypeOK, IsInjective, Transactions
<1>2. Sessions /\ EventsAreTrue /\ RowsArePaid /\ ListIsPaid /\ CompletedIffPaid
  BY DEF Init, Sessions, EventsAreTrue, RowsArePaid, ListIsPaid, CompletedIffPaid
<1>3. RequestsArePaid /\ SessionsOfRequests /\ KeysInserted /\ LockedRowIsRead /\ EventsWereSent
  BY DEF Init, Idle, RequestsArePaid, RequestIsPaid, SessionsOfRequests, KeysInserted, LockedRowIsRead,
         EventsWereSent, Writing
<1>4. AnnouncedIsCurrent
  BY DEF Init, AnnouncedIsCurrent, GetSubscription, GetEntitlements
<1>5. LastPending
  BY DEF Init, LastPending
<1>. QED  BY <1>1, <1>2, <1>3, <1>4, <1>5 DEF IInv

\* Sessions have and keep their metadata, what is paid stays paid, what is
\* expired stays expired, neither a row of checkout_sessions nor an event
\* disappears, and only the request that has made a session adds its row.
LEMMA Progress ==
  ASSUME IInv, [Next]_vars
  PROVE  /\ \A i \in Subs :
              /\ stripe[i] # "none" => stripe'[i] # "none" /\ deal'[i] = deal[i]
              /\ stripe[i] \in {"active", "past_due", "canceled"} =>
                   stripe'[i] \in {"active", "past_due", "canceled"}
              /\ stripe[i] = "expired" => stripe'[i] = "expired"
              /\ checkout[i] # "none" => checkout'[i] # "none"
              /\ stripe[i] = "none" /\ stripe'[i] # "none" =>
                   deal'[i] \in [biz: Businesses, tier: Tiers]
              /\ checkout[i] = "none" /\ checkout'[i] # "none" =>
                   \E p \in Processes : tx[p].phase = "checkout" /\ tx[p].id = i
         /\ sent \subseteq sent'
<1>. stripe \in [Subs -> {"none", "open", "expired", "active", "past_due", "canceled"}]
     /\ checkout \in [Subs -> {"none", "created", "completed", "expired", "canceled"}]
     /\ DOMAIN deal = Subs
  BY DEF IInv, TypeOK
<1>1. ASSUME NEW i \in Subs, Provider(i)  PROVE UNCHANGED <<checkout, deal>>
  BY <1>1 DEF Provider, Pays, Expires, Lapses, Ends, rowVars
<1>2. ASSUME NEW i \in Subs, Provider(i)
      PROVE  /\ sent \subseteq sent'
             /\ stripe[i] \in {"open", "active", "past_due"}
             /\ \E v \in {"expired", "active", "past_due", "canceled"} :
                  /\ stripe' = [stripe EXCEPT ![i] = v]
                  /\ v = "expired" => stripe[i] = "open"
  BY <1>2 DEF Provider, Pays, Expires, Lapses, Ends, Send
<1>3. CASE \E i \in Subs : Provider(i)
  BY <1>1, <1>2, <1>3
<1>4. CASE \E i \in Subs, result \in {"success", "cancel"} : AckCheckoutReturn(i, result)
  BY <1>4 DEF AckCheckoutReturn, stripeVars
<1>5. CASE \E e \in sent : StripeNotice(e)
  BY <1>5 DEF StripeNotice, stripeVars
<1>6. ASSUME NEW p \in Requests, NEW b \in Businesses, NEW t \in Tiers, CheckoutStub(p, b, t)
      PROVE  /\ UNCHANGED <<checkout, sent>>
             /\ \E i \in Subs, d \in [biz: Businesses, tier: Tiers] :
                  /\ stripe[i] = "none"
                  /\ stripe' = [stripe EXCEPT ![i] = "open"]
                  /\ deal' = [deal EXCEPT ![i] = d]
  <2>1. [biz |-> b, tier |-> t] \in [biz: Businesses, tier: Tiers]
    OBVIOUS
  <2>2. PICK i \in Subs : /\ stripe[i] = "none"
                          /\ stripe' = [stripe EXCEPT ![i] = "open"]
                          /\ deal' = [deal EXCEPT ![i] = [biz |-> b, tier |-> t]]
    BY <1>6, Zenon DEF CheckoutStub
  <2>3. UNCHANGED <<checkout, sent>>
    BY <1>6 DEF CheckoutStub, rowVars
  <2>. QED  BY <2>1, <2>2, <2>3
<1>7. ASSUME NEW p \in Requests, CommitCheckout(p)
      PROVE  /\ UNCHANGED <<stripe, deal, sent>> /\ tx[p].phase = "checkout" /\ p \in Processes
             /\ checkout' = [checkout EXCEPT ![tx[p].id] = "created"]
  BY <1>7 DEF CommitCheckout, stripeVars, Processes
<1>8. ASSUME NEW p \in Requests, CancelAtStripe(p)
      PROVE  /\ UNCHANGED <<checkout, deal>> /\ sent \subseteq sent'
             /\ \/ stripe' = stripe
                \/ /\ stripe[tx[p].id] \in {"active", "past_due"}
                   /\ stripe' = [stripe EXCEPT ![tx[p].id] = "canceled"]
  BY <1>8 DEF CancelAtStripe, rowVars, Send
<1>9. ASSUME NEW p \in Requests, Webhook(p) \/ CancelRefused(p) \/ CancelSubscription(p)
                                  \/ \E b \in Businesses : CancelReadsRow(p, b)
      PROVE  UNCHANGED <<stripe, deal, sent, checkout>>
  BY <1>9 DEF Webhook, StripeWebhook, LocalWebhook, CancelRefused, CancelSubscription,
              CancelReadsRow, stripeVars, rowVars
<1>10. CASE \E p \in Requests : Customer(p) \/ Webhook(p)
  <2>1. PICK p \in Requests : Customer(p) \/ Webhook(p)
    BY <1>10
  <2>2. CASE \E b \in Businesses, t \in Tiers : CheckoutStub(p, b, t)
    BY <1>6, <2>2
  <2>3. CASE CommitCheckout(p)
    BY <1>7, <2>3
  <2>4. CASE CancelAtStripe(p)
    BY <1>8, <2>4
  <2>. QED  BY <1>9, <2>1, <2>2, <2>3, <2>4 DEF Customer
<1>11. CASE \E p \in Processes : CommitSubscription(p) \/ Fails(p)
  BY <1>11 DEF CommitSubscription, CompletesSession, Fails, stripeVars, rowVars
<1>12. CASE Reconcile \/ (\E n \in DOMAIN pending : UpsertBusinessEntitlements(n)) \/ UNCHANGED vars
  BY <1>12 DEF Reconcile, ReconcileList, ReconcileGet, ReconcileApply, UpsertBusinessEntitlements,
               vars, stripeVars, rowVars
<1>. QED  BY <1>3, <1>4, <1>5, <1>10, <1>11, <1>12 DEF Next

\* So what a row, a request or the list stands for stays paid.
LEMMA PaidStays ==
  ASSUME IInv, [Next]_vars, NEW i, NEW b, Paid(i, b)
  PROVE  Paid(i, b)'
  BY Progress DEF Paid

LEMMA RowForStays ==
  ASSUME IInv, [Next]_vars, NEW r, NEW b, RowFor(r, b)
  PROVE  RowFor(r, b)'
<1>1. r.provider = "stripe" => Paid(r.sub, b) /\ Paid(r.sub, b)' /\ deal'[r.sub] = deal[r.sub]
  BY Progress, PaidStays DEF RowFor, Paid
<1>. QED  BY <1>1 DEF RowFor

LEMMA SessionsStep ==
  ASSUME IInv, [Next]_vars
  PROVE  Sessions'
  BY Progress DEF IInv, Sessions, SessionsOfRequests

\* What the provider sends is true when it is sent, and a payment is of a
\* session that the checkout has recorded.
LEMMA EventsAreTrueStep ==
  ASSUME IInv, [Next]_vars
  PROVE  EventsAreTrue' /\ sent' \subseteq StripeEvents
<1>. sent \subseteq StripeEvents /\ EventsAreTrue
     /\ stripe \in [Subs -> {"none", "open", "expired", "active", "past_due", "canceled"}]
  BY DEF IInv, TypeOK
<1>. DEFINE True(e) == /\ e.type = "expired" => stripe'[e.id] = "expired"
                       /\ e.type # "expired" => stripe'[e.id] \in {"active", "past_due", "canceled"}
                       /\ e.type = "completed" => checkout'[e.id] # "none"
<1>1. ASSUME NEW e \in sent  PROVE True(e)
  BY Progress DEF EventsAreTrue, StripeEvents
<1>2. ASSUME NEW i \in Subs, Provider(i)
      PROVE  \A e \in sent' \ sent : e \in StripeEvents /\ True(e)
  <2>1. CASE Pays(i)
    BY <2>1 DEF Pays, Send, StripeEvents, EventTypes, rowVars
  <2>2. CASE Expires(i)
    BY <2>2 DEF Expires, Send, StripeEvents, EventTypes
  <2>3. CASE Lapses(i)
    BY <2>3 DEF Lapses, Send, StripeEvents, EventTypes
  <2>4. CASE Ends(i)
    BY <2>4 DEF Ends, Send, StripeEvents, EventTypes
  <2>. QED  BY <1>2, <2>1, <2>2, <2>3, <2>4 DEF Provider
<1>3. ASSUME NEW p \in Processes, CancelAtStripe(p)
      PROVE  \A e \in sent' \ sent : e \in StripeEvents /\ True(e)
  <2>1. tx[p].id \in Subs
    BY <1>3, Phases DEF IInv, TypeOK, CancelAtStripe
  <2>. QED  BY <1>3, <2>1 DEF CancelAtStripe, Send, StripeEvents, EventTypes
<1>4. CASE \/ \E i \in Subs, result \in {"success", "cancel"} : AckCheckoutReturn(i, result)
           \/ \E e \in sent : StripeNotice(e)
           \/ \E p \in Processes : CommitSubscription(p) \/ Fails(p)
           \/ Reconcile
           \/ \E n \in DOMAIN pending : UpsertBusinessEntitlements(n)
           \/ UNCHANGED vars
  <2>. sent' = sent
    BY <1>4 DEF AckCheckoutReturn, StripeNotice, CommitSubscription, Fails, Reconcile, ReconcileList,
                ReconcileGet, ReconcileApply, UpsertBusinessEntitlements, vars, stripeVars
  <2>. QED  BY <1>1 DEF EventsAreTrue
<1>5. CASE \E p \in Requests : Customer(p) \/ Webhook(p)
  <2>1. PICK p \in Requests : Customer(p) \/ Webhook(p)
    BY <1>5
  <2>2. CASE CancelAtStripe(p)
    BY <1>1, <1>3, <2>2 DEF EventsAreTrue, Processes
  <2>3. CASE ~CancelAtStripe(p)
    <3>. sent' = sent
      BY <2>1, <2>3 DEF Customer, CheckoutStub, CommitCheckout, CancelReadsRow, CancelRefused,
                        CancelSubscription, Webhook, StripeWebhook, LocalWebhook, stripeVars
    <3>. QED  BY <1>1 DEF EventsAreTrue
  <2>. QED  BY <2>2, <2>3
<1>6. CASE \E i \in Subs : Provider(i)
  BY <1>1, <1>2, <1>6 DEF EventsAreTrue
<1>. QED  BY <1>4, <1>5, <1>6 DEF Next

------------------------------------------------------------------------------
(* What a step does to the transactions: nothing, or one process leaves what *)
(* it was doing, begins a transaction, makes a session or commits.           *)

Quiet ==
  /\ UNCHANGED <<tx, row>>
  /\ \E S \in SUBSET sent :
       providerEvents' = providerEvents \union S /\ \A e \in S : ~KeyHeld(e)
Leaves(p) == \E v \in Transactions :
  /\ v.phase \notin {"checkout", "write"}
  /\ v.phase \in {"call", "begin"} => Paid(v.id, v.biz)
  /\ v.phase = "got" => RowFor(v.row, v.biz)
  /\ tx' = [tx EXCEPT ![p] = v]
  /\ UNCHANGED <<row, providerEvents>>
Begins(p) == \E k \in Keys \union {NoKey}, b \in Businesses, r \in Row :
  /\ k # NoKey => NewEvent(k)
  /\ k \in StripeEvents => k \in sent
  /\ ~RowHeld(b) /\ RowFor(r, b)
  /\ tx' = [tx EXCEPT ![p] = Apply(k, b, r)]
  /\ UNCHANGED <<row, providerEvents>>
Makes(p) == \E i \in Subs :
  /\ stripe[i] = "none" /\ stripe'[i] # "none"
  /\ tx' = [tx EXCEPT ![p] = [phase |-> "checkout", id |-> i]]
  /\ UNCHANGED <<row, providerEvents, checkout>>

LEMMA WebhookBegins ==
  ASSUME IInv, NEW p \in Requests, NEW e \in sent, StripeWebhook(p, e)
  PROVE  Begins(p)
<1>. DEFINE d == deal[e.id]
<1>1. e \in StripeEvents /\ e \in Keys /\ e.type \in {"completed", "updated", "deleted"}
  BY DEF IInv, TypeOK, StripeWebhook, Keys
<1>2. e.id \in Subs /\ stripe[e.id] \in {"active", "past_due", "canceled"}
  BY <1>1 DEF IInv, EventsAreTrue, StripeEvents
<1>3. d.biz \in Businesses /\ d.tier \in Tiers /\ d \in [biz: Businesses, tier: Tiers]
  BY <1>2 DEF IInv, Sessions
<1>4. Paid(e.id, d.biz)
  BY <1>2, <1>3 DEF Paid
<1>5. StripeChange(e) \in Row /\ RowFor(StripeChange(e), d.biz)
  BY <1>2, <1>3, <1>4, BillingAssumption
     DEF StripeChange, Canceled, Activated, Row, AllTiers, RowFor
<1>6. /\ NewEvent(e) /\ ~RowHeld(d.biz)
      /\ tx' = [tx EXCEPT ![p] = Apply(e, d.biz, StripeChange(e))]
      /\ UNCHANGED <<row, providerEvents>>
  BY DEF StripeWebhook, GetSubscriptionForUpdate, rowVars
<1>. QED  BY <1>1, <1>3, <1>5, <1>6 DEF Begins

LEMMA LocalWebhookBegins ==
  ASSUME NEW p \in Requests, NEW e \in LocalEvents, LocalWebhook(p, e)
  PROVE  Begins(p)
<1>. DEFINE r == IF e.status = "active" THEN Activated(e.tier, "local", NoSub)
                 ELSE Canceled("local", NoSub)
<1>1. e \in Keys /\ e \notin StripeEvents /\ e.biz \in Businesses
  BY BillingAssumption DEF Keys, StripeEvents, EventTypes
<1>2. r \in Row /\ RowFor(r, e.biz)
  BY DEF Row, AllTiers, Activated, Canceled, RowFor
<1>3. NewEvent(e) /\ ~RowHeld(e.biz) /\ tx' = [tx EXCEPT ![p] = Apply(e, e.biz, r)]
      /\ UNCHANGED <<row, providerEvents>>
  BY DEF LocalWebhook, GetSubscriptionForUpdate, rowVars
<1>. QED  BY <1>1, <1>2, <1>3 DEF Begins

\* A cancellation, or the loop, writes that a subscription has ended.
LEMMA CanceledIsRow ==
  ASSUME NEW i, NEW b, Paid(i, b)
  PROVE  Canceled("stripe", i) \in Row /\ RowFor(Canceled("stripe", i), b)
  BY DEF Canceled, Paid, RowFor, Row, AllTiers

LEMMA CancelBeginsOrLeaves ==
  ASSUME IInv, NEW p \in Requests, CancelSubscription(p)
  PROVE  Begins(p) \/ Leaves(p)
<1>. DEFINE i == tx[p].id  b == tx[p].biz  k == CancelKey(i)
<1>1. p \in Processes /\ tx[p] \in Transactions /\ tx[p].phase = "begin"
  BY DEF IInv, TypeOK, CancelSubscription, Processes
<1>2. i \in Subs /\ b \in Businesses /\ Paid(i, b)
  BY <1>1, Phases DEF IInv, RequestsArePaid, RequestIsPaid
<1>3. k \in Keys /\ k \notin StripeEvents
  BY <1>2 DEF Keys, CancelKey, StripeEvents, EventTypes
<1>4. UNCHANGED <<row, providerEvents>>
  BY DEF CancelSubscription, rowVars
<1>5. CASE k \in providerEvents
  <2>1. tx' = [tx EXCEPT ![p] = Idle]
    BY <1>5 DEF CancelSubscription
  <2>. QED  BY <1>4, <2>1 DEF Leaves, Idle, Transactions
<1>6. CASE k \notin providerEvents
  <2>1. /\ NewEvent(k) /\ ~RowHeld(b)
        /\ tx' = [tx EXCEPT ![p] = Apply(k, b, Canceled("stripe", i))]
    BY <1>6 DEF CancelSubscription, NewEvent, GetSubscriptionForUpdate
  <2>. QED  BY <1>2, <1>3, <1>4, <2>1, CanceledIsRow DEF Begins
<1>. QED  BY <1>5, <1>6

LEMMA ReconcileApplyBegins ==
  ASSUME IInv, ReconcileApply
  PROVE  Begins(Reconciler)
<1>. DEFINE t == tx[Reconciler]
<1>1. Reconciler \in Processes /\ t \in Transactions /\ t.phase = "got"
  BY DEF IInv, TypeOK, ReconcileApply, Processes
<1>2. t.biz \in Businesses /\ t.row \in Row /\ RowFor(t.row, t.biz)
  BY <1>1, Phases DEF IInv, RequestsArePaid, RequestIsPaid
<1>3. ~RowHeld(t.biz) /\ tx' = [tx EXCEPT ![Reconciler] = Apply(NoKey, t.biz, t.row)]
      /\ UNCHANGED <<row, providerEvents>>
  BY DEF ReconcileApply, GetSubscriptionForUpdate, rowVars
<1>4. NoKey \notin StripeEvents
  BY BillingAssumption DEF Keys
<1>. QED  BY <1>2, <1>3, <1>4 DEF Begins

LEMMA ReconcileGetLeaves ==
  ASSUME IInv, ReconcileGet
  PROVE  Leaves(Reconciler)
<1>1. PICK s \in todo :
        tx' = [tx EXCEPT ![Reconciler] = [phase |-> "got", biz |-> s.biz, row |->
            IF Entitled(s.sub) THEN Activated(deal[s.sub].tier, "stripe", s.sub)
            ELSE Canceled("stripe", s.sub)]]
  BY DEF ReconcileGet
<1>. DEFINE r == IF Entitled(s.sub) THEN Activated(deal[s.sub].tier, "stripe", s.sub)
                 ELSE Canceled("stripe", s.sub)
            v == [phase |-> "got", biz |-> s.biz, row |-> r]
<1>2. s.biz \in Businesses /\ s.sub \in Subs /\ Paid(s.sub, s.biz)
  BY DEF IInv, TypeOK, ListIsPaid
<1>3. r \in Row /\ RowFor(r, s.biz)
  <2>1. CASE Entitled(s.sub)
    BY <2>1, <1>2, BillingAssumption DEF Activated, Paid, RowFor, Row, AllTiers
  <2>2. CASE ~Entitled(s.sub)
    BY <2>2, <1>2, CanceledIsRow
  <2>. QED  BY <2>1, <2>2
<1>. HIDE DEF r
<1>4. v \in Transactions
  BY <1>2, <1>3 DEF Transactions
<1>5. UNCHANGED <<row, providerEvents>> /\ tx' = [tx EXCEPT ![Reconciler] = v]
  BY <1>1 DEF ReconcileGet, rowVars, r
<1>6. v.phase = "got" /\ v.row = r /\ v.biz = s.biz
  OBVIOUS
<1>. HIDE DEF v
<1>. QED  BY <1>3, <1>4, <1>5, <1>6 DEF Leaves

LEMMA CustomerKinds ==
  ASSUME IInv, [Next]_vars, NEW p \in Requests, Customer(p)
  PROVE  Leaves(p) \/ Begins(p) \/ Makes(p)
<1>0. p \in Processes /\ tx[p] \in Transactions
  BY DEF IInv, TypeOK, Processes
<1>1. ASSUME NEW b \in Businesses, NEW t \in Tiers, CheckoutStub(p, b, t)
      PROVE  Makes(p)
  <2>1. PICK i \in Subs : /\ stripe[i] = "none"
                          /\ stripe' = [stripe EXCEPT ![i] = "open"]
                          /\ tx' = [tx EXCEPT ![p] = [phase |-> "checkout", id |-> i]]
    BY <1>1, Zenon DEF CheckoutStub
  <2>2. stripe'[i] # "none"
    BY <2>1 DEF IInv, TypeOK
  <2>3. UNCHANGED <<row, providerEvents, checkout>>
    BY <1>1 DEF CheckoutStub, rowVars
  <2>. QED  BY <2>1, <2>2, <2>3 DEF Makes
<1>2. CASE CommitCheckout(p) \/ CancelRefused(p)
  BY <1>2 DEF CommitCheckout, CancelRefused, Leaves, Idle, Transactions, rowVars
<1>3. ASSUME NEW b \in Businesses, CancelReadsRow(p, b)
      PROVE  Leaves(p)
  <2>. DEFINE v == [phase |-> "call", biz |-> b, id |-> row[b].sub]
  <2>1. row[b] \in Row /\ row[b].sub # NoSub /\ RowFor(row[b], b)
    BY <1>3 DEF CancelReadsRow, IInv, TypeOK, RowsArePaid
  <2>2. Paid(row[b].sub, b) /\ row[b].sub \in Subs
    BY <2>1 DEF RowFor, Row, Paid
  <2>3. tx' = [tx EXCEPT ![p] = v] /\ UNCHANGED <<row, providerEvents>>
    BY <1>3 DEF CancelReadsRow, rowVars
  <2>4. v \in Transactions /\ v.phase = "call" /\ v.id = row[b].sub /\ v.biz = b
    BY <2>2 DEF Transactions
  <2>. HIDE DEF v
  <2>. QED  BY <2>2, <2>3, <2>4 DEF Leaves
<1>4. CASE CancelAtStripe(p)
  <2>. DEFINE v == [tx[p] EXCEPT !.phase = "begin"]
  <2>1. tx[p].phase = "call" /\ tx[p] \in [phase: {"call", "begin"}, biz: Businesses, id: Subs]
    BY <1>0, <1>4 DEF CancelAtStripe, Transactions, Idle
  <2>2. Paid(tx[p].id, tx[p].biz)
    BY <1>0, <2>1 DEF IInv, RequestsArePaid, RequestIsPaid
  <2>3. tx' = [tx EXCEPT ![p] = v] /\ UNCHANGED <<row, providerEvents>>
    BY <1>4 DEF CancelAtStripe, rowVars
  <2>4. v \in Transactions /\ v.phase = "begin" /\ v.id = tx[p].id /\ v.biz = tx[p].biz
    BY <2>1 DEF Transactions
  <2>. HIDE DEF v
  <2>. QED  BY <2>2, <2>3, <2>4 DEF Leaves
<1>5. CASE CancelSubscription(p)
  BY <1>5, CancelBeginsOrLeaves
<1>. QED  BY <1>1, <1>2, <1>3, <1>4, <1>5 DEF Customer

LEMMA StepKinds ==
  ASSUME IInv, [Next]_vars
  PROVE  \/ Quiet
         \/ \E p \in Processes : Leaves(p) \/ Begins(p) \/ Makes(p) \/ CommitSubscription(p)
<1>0. Requests \subseteq Processes /\ Reconciler \in Processes
  BY DEF Processes
<1>1. CASE \/ \E i \in Subs : Provider(i)
           \/ \E i \in Subs, result \in {"success", "cancel"} : AckCheckoutReturn(i, result)
           \/ ReconcileList
           \/ \E n \in DOMAIN pending : UpsertBusinessEntitlements(n)
           \/ UNCHANGED vars
  <2>1. UNCHANGED <<tx, row, providerEvents>>
    BY <1>1 DEF Provider, Pays, Expires, Lapses, Ends, AckCheckoutReturn, ReconcileList,
                UpsertBusinessEntitlements, rowVars, vars
  <2>2. {} \in SUBSET sent /\ providerEvents' = providerEvents \union {}
    BY <2>1
  <2>. QED  BY <2>1, <2>2 DEF Quiet
<1>2. ASSUME NEW e \in sent, StripeNotice(e)
      PROVE  Quiet
  <2>1. /\ UNCHANGED <<tx, row>> /\ {e} \in SUBSET sent
        /\ providerEvents' = providerEvents \union {e} /\ ~KeyHeld(e)
    BY <1>2 DEF StripeNotice, NewEvent
  <2>. QED  BY <2>1 DEF Quiet
<1>3. ASSUME NEW p \in Requests, Customer(p) \/ Webhook(p)
      PROVE  Leaves(p) \/ Begins(p) \/ Makes(p)
  BY <1>3, CustomerKinds, WebhookBegins, LocalWebhookBegins DEF Webhook
<1>4. ASSUME NEW p \in Processes, Fails(p)
      PROVE  Leaves(p)
  BY <1>4 DEF Fails, Leaves, Idle, Transactions, rowVars
<1>5. CASE Reconcile
  BY <1>0, <1>1, <1>5, ReconcileGetLeaves, ReconcileApplyBegins DEF Reconcile
<1>. QED  BY <1>0, <1>1, <1>2, <1>3, <1>4, <1>5 DEF Next

------------------------------------------------------------------------------
(* The invariants of the transactions.                                      *)

LEMMA RequestIsPaidStays ==
  ASSUME IInv, [Next]_vars, NEW t, RequestIsPaid(t)
  PROVE  RequestIsPaid(t)'
  BY PaidStays, RowForStays DEF RequestIsPaid

LEMMA RequestsArePaidStep ==
  ASSUME IInv, [Next]_vars
  PROVE  RequestsArePaid'
<1>. tx \in [Processes -> Transactions] /\ RequestsArePaid
  BY DEF IInv, TypeOK
<1>1. SUFFICES ASSUME NEW q \in Processes
               PROVE  \E w : w = tx'[q] /\ RequestIsPaid(w)
  <2>1. ASSUME NEW q \in Processes  PROVE RequestIsPaid(tx[q])'
    <3>1. PICK w : w = tx'[q] /\ RequestIsPaid(w)
      BY <1>1
    <3>2. RequestIsPaid(w)'
      BY <3>1, RequestIsPaidStays
    <3>. QED  BY <3>1, <3>2 DEF RequestIsPaid, RowFor, Paid
  <2>. QED  BY <2>1 DEF RequestsArePaid
<1>2. RequestIsPaid(tx[q])
  BY DEF RequestsArePaid
<1>3. CASE Quiet
  BY <1>2, <1>3 DEF Quiet
<1>4. ASSUME NEW p \in Processes, Leaves(p)
      PROVE  \E w : w = tx'[q] /\ RequestIsPaid(w)
  BY <1>2, <1>4 DEF Leaves, RequestIsPaid
<1>5. ASSUME NEW p \in Processes, Begins(p)
      PROVE  \E w : w = tx'[q] /\ RequestIsPaid(w)
  <2>1. PICK k, b, r : RowFor(r, b) /\ tx' = [tx EXCEPT ![p] = Apply(k, b, r)]
    BY <1>5 DEF Begins
  <2>. QED  BY <1>2, <2>1 DEF Apply, RequestIsPaid
<1>6. ASSUME NEW p \in Processes, Makes(p)
      PROVE  \E w : w = tx'[q] /\ RequestIsPaid(w)
  BY <1>2, <1>6 DEF Makes, RequestIsPaid
<1>7. ASSUME NEW p \in Processes, CommitSubscription(p)
      PROVE  \E w : w = tx'[q] /\ RequestIsPaid(w)
  BY <1>2, <1>7 DEF CommitSubscription, Idle, RequestIsPaid
<1>. QED  BY <1>3, <1>4, <1>5, <1>6, <1>7, StepKinds

\* Transactions that write, before and after a step: the ones that were there,
\* and the one that begins.
LEMMA WritersStep ==
  ASSUME IInv, NEW p \in Processes, NEW v, tx' = [tx EXCEPT ![p] = v]
  PROVE  tx'[p] = v /\ \A q \in Processes \ {p} : tx'[q] = tx[q]
  BY DEF IInv, TypeOK

LEMMA EventsWereSentStep ==
  ASSUME IInv, [Next]_vars
  PROVE  EventsWereSent'
<1>. EventsWereSent /\ sent \subseteq sent'
  BY Progress DEF IInv
<1>1. CASE Quiet
  BY <1>1 DEF Quiet, EventsWereSent, Writing
<1>2. ASSUME NEW p \in Processes, Leaves(p)  PROVE EventsWereSent'
  BY <1>2, WritersStep DEF Leaves, EventsWereSent, Writing
<1>3. ASSUME NEW p \in Processes, Begins(p)  PROVE EventsWereSent'
  <2>1. PICK k, b, r : /\ k \in StripeEvents => k \in sent
                       /\ tx' = [tx EXCEPT ![p] = Apply(k, b, r)] /\ providerEvents' = providerEvents
    BY <1>3 DEF Begins
  <2>. QED  BY <2>1, WritersStep DEF Apply, EventsWereSent, Writing
<1>4. ASSUME NEW p \in Processes, Makes(p)  PROVE EventsWereSent'
  BY <1>4, WritersStep DEF Makes, EventsWereSent, Writing
<1>5. ASSUME NEW p \in Processes, CommitSubscription(p)  PROVE EventsWereSent'
  <2>1. /\ tx' = [tx EXCEPT ![p] = Idle] /\ Writing(p)
        /\ providerEvents' = providerEvents \union ({tx[p].key} \ {NoKey})
    BY <1>5 DEF CommitSubscription, Writing
  <2>. QED  BY <2>1, WritersStep DEF EventsWereSent, Writing, Idle
<1>. QED  BY <1>1, <1>2, <1>3, <1>4, <1>5, StepKinds

LEMMA KeysInsertedStep ==
  ASSUME IInv, [Next]_vars
  PROVE  KeysInserted'
<1>. KeysInserted /\ sent \subseteq StripeEvents
  BY DEF IInv, TypeOK
<1>1. CASE Quiet
  <2>1. PICK S \in SUBSET sent :
          providerEvents' = providerEvents \union S /\ \A e \in S : ~KeyHeld(e)
    BY <1>1 DEF Quiet
  <2>2. tx' = tx
    BY <1>1 DEF Quiet
  <2>. QED  BY <2>1, <2>2 DEF KeysInserted, Writing, KeyHeld
<1>2. ASSUME NEW p \in Processes, Leaves(p)  PROVE KeysInserted'
  BY <1>2, WritersStep DEF Leaves, KeysInserted, Writing
<1>3. ASSUME NEW p \in Processes, Begins(p)  PROVE KeysInserted'
  <2>1. PICK k, b, r : /\ k # NoKey => NewEvent(k)
                       /\ tx' = [tx EXCEPT ![p] = Apply(k, b, r)] /\ providerEvents' = providerEvents
    BY <1>3 DEF Begins
  <2>2. tx'[p].key = k /\ \A q \in Processes \ {p} : tx'[q] = tx[q]
    <3>1. tx'[p] = Apply(k, b, r) /\ \A q \in Processes \ {p} : tx'[q] = tx[q]
      BY <2>1, WritersStep
    <3>. QED  BY <3>1 DEF Apply
  <2>3. k # NoKey =>
          k \notin providerEvents /\ \A q \in Processes : ~(Writing(q) /\ tx[q].key = k)
    BY <2>1 DEF NewEvent, KeyHeld, Writing
  <2>. QED  BY <2>1, <2>2, <2>3 DEF KeysInserted, Writing
<1>4. ASSUME NEW p \in Processes, Makes(p)  PROVE KeysInserted'
  BY <1>4, WritersStep DEF Makes, KeysInserted, Writing
<1>5. ASSUME NEW p \in Processes, CommitSubscription(p)  PROVE KeysInserted'
  <2>1. /\ tx' = [tx EXCEPT ![p] = Idle] /\ Writing(p)
        /\ providerEvents' = providerEvents \union ({tx[p].key} \ {NoKey})
    BY <1>5 DEF CommitSubscription, Writing
  <2>2. tx'[p] = Idle /\ \A q \in Processes \ {p} : tx'[q] = tx[q]
    BY <2>1, WritersStep
  <2>. QED  BY <2>1, <2>2 DEF KeysInserted, Writing, Idle
<1>. QED  BY <1>1, <1>2, <1>3, <1>4, <1>5, StepKinds

\* The row that a transaction has locked is written by nobody else: another
\* one that has read it would hold it, and one that found none waits.
LEMMA LockedRowIsReadStep ==
  ASSUME IInv, [Next]_vars
  PROVE  LockedRowIsRead'
<1>. LockedRowIsRead
  BY DEF IInv
<1>1. CASE Quiet
  BY <1>1 DEF Quiet, LockedRowIsRead, Writing
<1>2. ASSUME NEW p \in Processes, Leaves(p)  PROVE LockedRowIsRead'
  BY <1>2, WritersStep DEF Leaves, LockedRowIsRead, Writing
<1>3. ASSUME NEW p \in Processes, Begins(p)  PROVE LockedRowIsRead'
  <2>1. PICK k, b, r : ~RowHeld(b) /\ tx' = [tx EXCEPT ![p] = Apply(k, b, r)] /\ row' = row
    BY <1>3 DEF Begins
  <2>2. /\ tx'[p].biz = b /\ tx'[p].read = row[b]
        /\ \A q \in Processes \ {p} : tx'[q] = tx[q]
    <3>1. tx'[p] = Apply(k, b, r) /\ \A q \in Processes \ {p} : tx'[q] = tx[q]
      BY <2>1, WritersStep
    <3>. QED  BY <3>1 DEF Apply
  <2>3. \A q \in Processes : ~(Writing(q) /\ tx[q].biz = b /\ tx[q].read # NoRow)
    BY <2>1 DEF RowHeld, Writing
  <2>. QED  BY <2>1, <2>2, <2>3 DEF LockedRowIsRead, Writing
<1>4. ASSUME NEW p \in Processes, Makes(p)  PROVE LockedRowIsRead'
  BY <1>4, WritersStep DEF Makes, LockedRowIsRead, Writing
<1>5. ASSUME NEW p \in Processes, CommitSubscription(p)  PROVE LockedRowIsRead'
  <2>. DEFINE b == tx[p].biz
  <2>1. /\ tx' = [tx EXCEPT ![p] = Idle] /\ Writing(p)
        /\ tx[p].read = NoRow => ~RowHeld(b)
        /\ row' = [row EXCEPT ![b] = tx[p].row]
    BY <1>5 DEF CommitSubscription, Writing
  <2>2. ~Writing(p)' /\ \A q \in Processes \ {p} : tx'[q] = tx[q]
    <3>1. tx'[p] = Idle /\ \A q \in Processes \ {p} : tx'[q] = tx[q]
      BY <2>1, WritersStep
    <3>. QED  BY <3>1 DEF Writing, Idle
  <2>3. ASSUME NEW q \in Processes \ {p}, Writing(q), tx[q].read # NoRow
        PROVE  tx[q].biz # b
    BY <2>1, <2>3 DEF RowHeld, Writing, LockedRowIsRead
  <2>4. \A c \in Businesses : c # b => row'[c] = row[c]
    BY <2>1 DEF IInv, TypeOK
  <2>5. \A q \in Processes : Writing(q) => tx[q].biz \in Businesses
    BY Phases DEF IInv, TypeOK, Writing
  <2>. QED  BY <2>2, <2>3, <2>4, <2>5 DEF LockedRowIsRead, Writing
<1>. QED  BY <1>1, <1>2, <1>3, <1>4, <1>5, StepKinds

LEMMA RowsArePaidStep ==
  ASSUME IInv, [Next]_vars
  PROVE  RowsArePaid'
<1>1. SUFFICES ASSUME NEW b \in Businesses
               PROVE  \E r : r = row'[b] /\ (r # NoRow => RowFor(r, b))
  <2>1. ASSUME NEW b \in Businesses, row'[b] # NoRow  PROVE RowFor(row[b], b)'
    <3>1. PICK r : r = row'[b] /\ RowFor(r, b)
      BY <1>1, <2>1
    <3>2. RowFor(r, b)'
      BY <3>1, RowForStays
    <3>. QED  BY <3>1, <3>2 DEF RowFor, Paid
  <2>. QED  BY <2>1 DEF RowsArePaid
<1>2. row[b] # NoRow => RowFor(row[b], b)
  BY DEF IInv, RowsArePaid
<1>3. ASSUME NEW p \in Processes, CommitSubscription(p)
      PROVE  \E r : r = row'[b] /\ (r # NoRow => RowFor(r, b))
  <2>1. RowFor(tx[p].row, tx[p].biz) /\ row' = [row EXCEPT ![tx[p].biz] = tx[p].row]
    BY <1>3 DEF CommitSubscription, IInv, RequestsArePaid, RequestIsPaid
  <2>. QED  BY <1>2, <2>1 DEF IInv, TypeOK
<1>4. CASE row' = row
  BY <1>2, <1>4
<1>. QED  BY <1>3, <1>4, StepKinds DEF Quiet, Leaves, Begins, Makes

\* What the list of the loop is made of.
LEMMA ListedFacts ==
  ASSUME IInv, NEW s \in ListForReconcile
  PROVE  /\ s \in [at: Nat, biz: Businesses, sub: Subs]
         /\ Paid(s.sub, s.biz)
<1>1. PICK k \in DOMAIN recency :
        s = [at |-> k, biz |-> recency[k], sub |-> row[recency[k]].sub] /\ Stripe(recency[k])
  BY DEF ListForReconcile
<1>. DEFINE b == recency[k]
<1>2. k \in Nat /\ b \in Businesses /\ row[b] \in Row /\ row[b] # NoRow
  BY DEF IInv, TypeOK
<1>3. Paid(row[b].sub, b)
  BY <1>1, <1>2 DEF IInv, RowsArePaid, RowFor, Stripe
<1>. QED  BY <1>1, <1>2, <1>3 DEF Paid

LEMMA ListIsPaidStep ==
  ASSUME IInv, [Next]_vars
  PROVE  ListIsPaid'
<1>1. SUFFICES \A s \in todo' : Paid(s.sub, s.biz)
  <2>1. ASSUME NEW s \in todo'  PROVE Paid(s.sub, s.biz)'
    BY <1>1, PaidStays
  <2>. QED  BY <2>1 DEF ListIsPaid, Paid
<1>2. CASE ReconcileList
  BY <1>2, ListedFacts DEF ReconcileList
<1>3. CASE ReconcileGet
  BY <1>3 DEF ReconcileGet, IInv, ListIsPaid
<1>4. CASE ~ReconcileList /\ ~ReconcileGet
  <2>. todo' = todo
    BY <1>4 DEF Next, Provider, Pays, Expires, Lapses, Ends, AckCheckoutReturn, StripeNotice, Customer,
         CheckoutStub, CommitCheckout, CancelReadsRow, CancelAtStripe, CancelRefused, CancelSubscription,
         Webhook, StripeWebhook, LocalWebhook, CommitSubscription, Fails, Reconcile, ReconcileApply,
         UpsertBusinessEntitlements, vars
  <2>. QED  BY DEF IInv, ListIsPaid
<1>. QED  BY <1>2, <1>3, <1>4

------------------------------------------------------------------------------
(* Checkout sessions.                                                       *)

LEMMA SessionsOfRequestsStep ==
  ASSUME IInv, [Next]_vars
  PROVE  SessionsOfRequests'
<1>. SessionsOfRequests /\ tx \in [Processes -> Transactions]
  BY DEF IInv, TypeOK
<1>0. \A p \in Processes : tx[p].phase = "checkout" => tx[p].id \in Subs
  BY Phases DEF IInv, TypeOK
\* A session without a row gets one only from the request that has made it.
<1>1. SUFFICES ASSUME NEW p \in Processes, tx'[p].phase = "checkout"
      PROVE  /\ stripe'[tx'[p].id] # "none" /\ checkout'[tx'[p].id] = "none"
             /\ \A q \in Processes : tx'[q].phase = "checkout" /\ tx'[q].id = tx'[p].id => q = p
  BY DEF SessionsOfRequests
<1>2. CASE tx'[p] = tx[p] /\ \A q \in Processes : tx'[q] = tx[q] \/ tx'[q].phase # "checkout"
  <2>. DEFINE i == tx[p].id
  <2>1. i \in Subs /\ stripe[i] # "none" /\ checkout[i] = "none" /\ stripe'[i] # "none"
    BY <1>0, <1>1, <1>2, Progress DEF SessionsOfRequests
  <2>2. checkout'[i] = "none"
    <3>1. SUFFICES ASSUME checkout'[i] # "none"  PROVE FALSE
      OBVIOUS
    <3>2. ASSUME NEW q \in Requests, CommitCheckout(q)  PROVE FALSE
      <4>1. q = p
        BY <3>2, <3>1, <2>1, <1>0, <1>1, <1>2 DEF CommitCheckout, SessionsOfRequests, Processes, IInv, TypeOK
      <4>2. tx'[q] = Idle
        BY <3>2 DEF CommitCheckout, Processes
      <4>. QED  BY <4>1, <4>2, <1>1 DEF Idle
    <3>3. ASSUME NEW j \in Subs, NEW result, AckCheckoutReturn(j, result)  PROVE FALSE
      BY <3>1, <3>3, <2>1 DEF AckCheckoutReturn, IInv, TypeOK
    <3>4. ASSUME NEW e \in sent, StripeNotice(e)  PROVE FALSE
      BY <3>1, <3>4, <2>1 DEF StripeNotice, IInv, TypeOK
    <3>5. ASSUME NEW q \in Processes, CommitSubscription(q)  PROVE FALSE
      BY <3>1, <3>5, <2>1 DEF CommitSubscription, CompletesSession, IInv, TypeOK
    <3>6. checkout' # checkout
      BY <3>1, <2>1
    <3>. QED
      BY <3>2, <3>3, <3>4, <3>5, <3>6
      DEF Next, Provider, Pays, Expires, Lapses, Ends, Customer, CheckoutStub, CancelReadsRow,
          CancelAtStripe, CancelRefused, CancelSubscription, Webhook, StripeWebhook, LocalWebhook, Fails,
          Reconcile, ReconcileList, ReconcileGet, ReconcileApply, UpsertBusinessEntitlements, vars, rowVars
  <2>. QED  BY <1>1, <1>2, <2>1, <2>2 DEF SessionsOfRequests
<1>3. ASSUME NEW m \in Processes, Makes(m)
      PROVE  /\ stripe'[tx'[p].id] # "none" /\ checkout'[tx'[p].id] = "none"
             /\ \A q \in Processes : tx'[q].phase = "checkout" /\ tx'[q].id = tx'[p].id => q = p
  <2>1. PICK i \in Subs : /\ stripe[i] = "none" /\ stripe'[i] # "none"
                          /\ tx' = [tx EXCEPT ![m] = [phase |-> "checkout", id |-> i]]
                          /\ checkout' = checkout
    BY <1>3 DEF Makes
  <2>2. tx'[m].id = i /\ \A q \in Processes \ {m} : tx'[q] = tx[q]
    BY <2>1
  <2>3. \A q \in Processes : tx[q].phase = "checkout" => tx[q].id # i
    BY <2>1 DEF SessionsOfRequests
  <2>4. checkout[i] = "none"
    BY <2>1 DEF IInv, Sessions
  <2>5. \A j \in Subs : stripe[j] # "none" => stripe'[j] # "none"
    BY Progress
  <2>. QED  BY <1>0, <1>1, <2>1, <2>2, <2>3, <2>4, <2>5 DEF SessionsOfRequests
<1>4. CASE Quiet
  BY <1>2, <1>4 DEF Quiet
<1>5. ASSUME NEW m \in Processes, Leaves(m)
      PROVE  tx'[p] = tx[p] /\ \A q \in Processes : tx'[q] = tx[q] \/ tx'[q].phase # "checkout"
  BY <1>1, <1>5 DEF Leaves
<1>6. ASSUME NEW m \in Processes, Begins(m)
      PROVE  tx'[p] = tx[p] /\ \A q \in Processes : tx'[q] = tx[q] \/ tx'[q].phase # "checkout"
  BY <1>1, <1>6 DEF Begins, Apply
<1>7. ASSUME NEW m \in Processes, CommitSubscription(m)
      PROVE  tx'[p] = tx[p] /\ \A q \in Processes : tx'[q] = tx[q] \/ tx'[q].phase # "checkout"
  BY <1>1, <1>7 DEF CommitSubscription, Idle
<1>. QED  BY <1>2, <1>3, <1>4, <1>5, <1>6, <1>7, StepKinds

LEMMA CompletedIffPaidStep ==
  ASSUME IInv, [Next]_vars
  PROVE  CompletedIffPaid'
<1>. DEFINE C(i) == [type |-> "completed", id |-> i]
<1>. CompletedIffPaid
     /\ checkout \in [Subs -> {"none", "created", "completed", "expired", "canceled"}]
  BY DEF IInv, TypeOK
<1>1. \A i \in Subs : C(i) \in StripeEvents /\ C(i) \in Keys
  BY DEF StripeEvents, EventTypes, Keys
<1>2. \A i \in Subs : C(i) \in sent => checkout[i] # "none"
  BY DEF IInv, EventsAreTrue
<1>3. \A i \in Subs : C(i) \in providerEvents => C(i) \in sent
  BY <1>1 DEF IInv, EventsWereSent
<1>. SUFFICES ASSUME NEW i \in Subs, checkout'[i] # "none"
              PROVE  checkout'[i] = "completed" <=> C(i) \in providerEvents'
  BY DEF CompletedIffPaid
<1>4. CASE \E p \in Requests : CommitCheckout(p)
  <2>1. PICK p \in Requests : CommitCheckout(p)
    BY <1>4
  <2>2. /\ checkout[tx[p].id] = "none" /\ providerEvents' = providerEvents
        /\ checkout' = [checkout EXCEPT ![tx[p].id] = "created"]
    BY <2>1 DEF CommitCheckout, IInv, SessionsOfRequests, Processes
  <2>. QED  BY <2>2, <1>2, <1>3 DEF CompletedIffPaid
<1>5. CASE \E j \in Subs, result \in {"success", "cancel"} : AckCheckoutReturn(j, result)
  BY <1>5 DEF AckCheckoutReturn, CompletedIffPaid
<1>6. CASE \E e \in sent : StripeNotice(e)
  BY <1>6 DEF StripeNotice, CompletedIffPaid
<1>7. CASE \E p \in Processes : CommitSubscription(p)
  <2>1. PICK p \in Processes : CommitSubscription(p)
    BY <1>7
  <2>. DEFINE k == tx[p].key
  <2>2. /\ providerEvents' = providerEvents \union ({k} \ {NoKey})
        /\ checkout' = IF CompletesSession(tx[p]) THEN [checkout EXCEPT ![k.id] = "completed"]
                       ELSE checkout
        /\ Writing(p)
    BY <2>1 DEF CommitSubscription, Writing
  <2>3. k \in Keys \union {NoKey}
    BY <2>2, Phases DEF Writing, IInv, TypeOK
  <2>4. CASE k = C(i)
    <3>1. k # NoKey /\ k \in sent /\ checkout[i] # "none"
      BY <2>2, <2>4, <1>1, <1>2, BillingAssumption DEF IInv, EventsWereSent
    <3>. QED  BY <3>1, <2>2, <2>4 DEF CompletesSession
  <2>5. CASE k # C(i)
    <3>1. ASSUME k # NoKey, k.type = "completed"  PROVE k.id # i
      <4>1. k \in StripeEvents
        BY <2>3, <3>1, BillingAssumption DEF Keys, CancelKey
      <4>. QED  BY <4>1, <3>1, <2>5 DEF StripeEvents
    <3>. QED  BY <3>1, <2>2, <2>5 DEF CompletesSession, CompletedIffPaid
  <2>. QED  BY <2>4, <2>5
<1>8. CASE UNCHANGED <<checkout, providerEvents>>
  BY <1>8 DEF CompletedIffPaid
<1>. QED
  BY <1>4, <1>5, <1>6, <1>7, <1>8
  DEF Next, Provider, Pays, Expires, Lapses, Ends, Customer, CheckoutStub, CancelReadsRow,
      CancelAtStripe, CancelRefused, CancelSubscription, Webhook, StripeWebhook, LocalWebhook, Fails,
      Reconcile, ReconcileList, ReconcileGet, ReconcileApply, UpsertBusinessEntitlements, vars, rowVars

------------------------------------------------------------------------------
(* Announcements and the cache.                                             *)

\* Rows, announcements and events change when a transaction commits; events
\* and the cache also when booking-service handles one.
LEMMA WhoAnnounces ==
  ASSUME [Next]_vars
  PROVE  \/ UNCHANGED <<row, recency, announced, pending, cap, overtaken>>
         \/ \E p \in Processes : CommitSubscription(p)
         \/ \E n \in DOMAIN pending : UpsertBusinessEntitlements(n)
  BY DEF Next, Provider, Pays, Expires, Lapses, Ends, AckCheckoutReturn, StripeNotice, Customer,
         CheckoutStub, CommitCheckout, CancelReadsRow, CancelAtStripe, CancelRefused, CancelSubscription,
         Webhook, StripeWebhook, LocalWebhook, Fails, Reconcile, ReconcileList, ReconcileGet,
         ReconcileApply, vars, rowVars, cacheVars

\* What a transaction writes, and whether it announces it.
LEMMA CommitFacts ==
  ASSUME IInv, NEW p \in Processes, CommitSubscription(p)
  PROVE  \E b \in Businesses, r \in Row, e \in Event :
           /\ RowFor(r, b)
           /\ e = [biz |-> b, status |-> r.status, cap |-> LimitsForTier(r.tier)]
           /\ row' = [row EXCEPT ![b] = r] /\ recency' = Touched(b)
           /\ UNCHANGED <<cap, overtaken>>
           /\ \/ /\ UNCHANGED <<announced, pending>>
                 /\ row[b] # NoRow /\ row[b].status = r.status /\ row[b].tier = r.tier
              \/ /\ announced' = [announced EXCEPT ![b] = e]
                 /\ pending' = Append(pending, e)
<1>. DEFINE t == tx[p]
            e == [biz |-> t.biz, status |-> t.row.status, cap |-> LimitsForTier(t.row.tier)]
<1>1. Writing(p) /\ t.biz \in Businesses /\ t.row \in Row /\ RowFor(t.row, t.biz)
  BY Phases DEF CommitSubscription, Writing, IInv, TypeOK, RequestsArePaid, RequestIsPaid
<1>2. e \in Event
  BY <1>1, LimitIsNat DEF Event, Row
<1>3. /\ row' = [row EXCEPT ![t.biz] = t.row] /\ recency' = Touched(t.biz)
      /\ UNCHANGED <<cap, overtaken>>
  BY DEF CommitSubscription
<1>4. CASE SameEntitlement(t)
  <2>1. row[t.biz] = t.read /\ t.read # NoRow
    BY <1>1, <1>4 DEF SameEntitlement, IInv, LockedRowIsRead
  <2>2. row[t.biz].status = t.row.status /\ row[t.biz].tier = t.row.tier
    BY <1>4, <2>1 DEF SameEntitlement
  <2>3. UNCHANGED <<announced, pending>>
    BY <1>4 DEF CommitSubscription
  <2>. QED  BY <1>1, <1>2, <1>3, <2>1, <2>2, <2>3
<1>5. CASE ~SameEntitlement(t)
  <2>1. announced' = [announced EXCEPT ![t.biz] = e] /\ pending' = Append(pending, e)
    BY <1>5 DEF CommitSubscription
  <2>. QED  BY <1>1, <1>2, <1>3, <2>1
<1>. QED  BY <1>4, <1>5

\* A canceled row has the tier without a price, so that its limit is the free one.
LEMMA AnnouncedIsCurrentStep ==
  ASSUME IInv, [Next]_vars
  PROVE  AnnouncedIsCurrent'
<1>. AnnouncedIsCurrent
  BY DEF IInv
<1>1. CASE UNCHANGED <<row, announced>>
  BY <1>1 DEF AnnouncedIsCurrent, GetEntitlements, GetSubscription
<1>2. ASSUME NEW p \in Processes, CommitSubscription(p)
      PROVE  AnnouncedIsCurrent'
  <2>1. PICK b \in Businesses, r \in Row, e \in Event :
           /\ RowFor(r, b)
           /\ e = [biz |-> b, status |-> r.status, cap |-> LimitsForTier(r.tier)]
           /\ row' = [row EXCEPT ![b] = r]
           /\ \/ /\ UNCHANGED <<announced, pending>>
                 /\ row[b] # NoRow /\ row[b].status = r.status /\ row[b].tier = r.tier
              \/ announced' = [announced EXCEPT ![b] = e]
    BY <1>2, CommitFacts
  <2>2. \A c \in Businesses : row'[c] = IF c = b THEN r ELSE row[c]
    BY <2>1 DEF IInv, TypeOK
  <2>3. r # NoRow /\ e # NoRow
    BY BillingAssumption
  <2>4. r.status \in {"active", "canceled"} /\ (r.status = "canceled" => r.tier = "free")
    BY <2>1 DEF Row, RowFor
  <2>5. /\ announced'[b] # NoRow /\ announced'[b].status = r.status
        /\ announced'[b].cap = LimitsForTier(r.tier)
    <3>1. CASE announced' = [announced EXCEPT ![b] = e]
      BY <2>1, <2>3, <3>1 DEF IInv, TypeOK
    <3>2. CASE /\ UNCHANGED announced
               /\ row[b] # NoRow /\ row[b].status = r.status /\ row[b].tier = r.tier
      BY <2>4, <3>2 DEF AnnouncedIsCurrent, GetEntitlements
    <3>. QED  BY <2>1, <3>1, <3>2
  <2>6. \A c \in Businesses \ {b} : announced'[c] = announced[c]
    BY <2>1 DEF IInv, TypeOK
  <2>. QED  BY <2>2, <2>3, <2>4, <2>5, <2>6 DEF AnnouncedIsCurrent, GetEntitlements, GetSubscription
<1>3. ASSUME NEW n \in DOMAIN pending, UpsertBusinessEntitlements(n)
      PROVE  UNCHANGED <<row, announced>>
  BY <1>3 DEF UpsertBusinessEntitlements, rowVars
<1>. QED  BY <1>1, <1>2, <1>3, WhoAnnounces

\* An event handled in its turn is the first one of its business: whichever
\* was the last stays the last.
LEMMA LastPendingStep ==
  ASSUME IInv, [Next]_vars
  PROVE  LastPending'
<1>. LastPending /\ pending \in Seq(Event) /\ cap \in [Businesses -> Nat \union {NoRow}]
     /\ announced \in [Businesses -> Event \union {NoRow}]
  BY DEF IInv, TypeOK
<1>1. CASE UNCHANGED <<announced, pending, cap, overtaken>>
  BY <1>1 DEF LastPending
<1>2. ASSUME NEW p \in Processes, CommitSubscription(p)
      PROVE  LastPending'
  <2>1. PICK b \in Businesses, r \in Row, e \in Event :
           /\ e = [biz |-> b, status |-> r.status, cap |-> LimitsForTier(r.tier)]
           /\ UNCHANGED <<cap, overtaken>>
           /\ \/ UNCHANGED <<announced, pending>>
              \/ announced' = [announced EXCEPT ![b] = e] /\ pending' = Append(pending, e)
    BY <1>2, CommitFacts
  <2>2. CASE announced' = [announced EXCEPT ![b] = e] /\ pending' = Append(pending, e)
    <3>1. /\ DOMAIN pending' = 1..(Len(pending) + 1) /\ pending'[Len(pending) + 1] = e
          /\ \A n \in DOMAIN pending : n \in DOMAIN pending' /\ pending'[n] = pending[n]
          /\ DOMAIN pending = 1..Len(pending) /\ Len(pending) \in Nat
      BY <2>2
    <3>2. e.biz = b
      BY <2>1
    <3>3. announced'[b] = e /\ \A c \in Businesses \ {b} : announced'[c] = announced[c]
      BY <2>2
    <3>4. SUFFICES ASSUME NEW c \in Businesses \ overtaken
          PROVE  /\ \A n \in DOMAIN pending' :
                      (pending'[n].biz = c /\ \A m \in DOMAIN pending' : m > n => pending'[m].biz # c)
                        => pending'[n] = announced'[c]
                 /\ (announced'[c] # NoRow /\ \A n \in DOMAIN pending' : pending'[n].biz # c)
                      => cap[c] = announced'[c].cap
      BY <2>1 DEF LastPending
    <3>5. CASE c = b
      BY <3>1, <3>2, <3>3, <3>5
    <3>6. CASE c # b
      <4>1. announced'[c] = announced[c]
        BY <3>3, <3>6
      <4>2. ASSUME NEW n \in DOMAIN pending', pending'[n].biz = c,
                   \A m \in DOMAIN pending' : m > n => pending'[m].biz # c
            PROVE  pending'[n] = announced[c]
        <5>1. n \in DOMAIN pending /\ pending'[n] = pending[n]
          BY <4>2, <3>1, <3>2, <3>6
        <5>2. \A m \in DOMAIN pending : m > n => pending[m].biz # c
          BY <4>2, <3>1
        <5>. QED  BY <4>2, <5>1, <5>2 DEF LastPending
      <4>3. (\A n \in DOMAIN pending' : pending'[n].biz # c) => \A n \in DOMAIN pending : pending[n].biz # c
        BY <3>1
      <4>. QED  BY <4>1, <4>2, <4>3 DEF LastPending
    <3>. QED  BY <3>5, <3>6
  <2>. QED  BY <1>1, <2>1, <2>2
<1>3. ASSUME NEW n \in DOMAIN pending, UpsertBusinessEntitlements(n)
      PROVE  LastPending'
  <2>. DEFINE e == pending[n]
  <2>1. /\ cap' = [cap EXCEPT ![e.biz] = e.cap] /\ pending' = RemoveAt(pending, n)
        /\ announced' = announced /\ overtaken \subseteq overtaken' /\ NextOfItsTopic(n)
        /\ (\E m \in 1..(n - 1) : pending[m].biz = e.biz /\ pending[m].status # e.status)
             => e.biz \in overtaken'
    BY <1>3 DEF UpsertBusinessEntitlements, rowVars
  <2>2. e \in Event /\ e.biz \in Businesses
    <3>1. e \in Event
      OBVIOUS
    <3>. QED  BY <3>1 DEF Event
  <2>3. /\ pending' \in Seq(Event) /\ Len(pending') = Len(pending) - 1
        /\ \A m \in 1..(Len(pending) - 1) : pending'[m] = IF m < n THEN pending[m] ELSE pending[m + 1]
    BY <2>1, RemoveAtFacts
  <2>4. e.biz \notin overtaken' => \A m \in DOMAIN pending : m < n => pending[m].biz # e.biz
    BY <2>1 DEF NextOfItsTopic
  <2>5. SUFFICES ASSUME NEW c \in Businesses \ overtaken'
        PROVE  /\ \A k \in DOMAIN pending' :
                    (pending'[k].biz = c /\ \A m \in DOMAIN pending' : m > k => pending'[m].biz # c)
                      => pending'[k] = announced[c]
               /\ (announced[c] # NoRow /\ \A k \in DOMAIN pending' : pending'[k].biz # c)
                    => cap'[c] = announced[c].cap
    BY <2>1 DEF LastPending
  <2>6. c \in Businesses \ overtaken
    BY <2>1
  <2>. DEFINE Old(k) == IF k < n THEN k ELSE k + 1
  <2>7. \A k \in DOMAIN pending' : Old(k) \in DOMAIN pending /\ pending'[k] = pending[Old(k)] /\ Old(k) # n
    BY <2>3
  <2>8. ASSUME NEW m \in DOMAIN pending, m # n  PROVE \E k \in DOMAIN pending' : Old(k) = m
    <3>1. CASE m < n
      BY <2>3, <3>1
    <3>2. CASE m > n
      <4>1. m - 1 \in DOMAIN pending' /\ Old(m - 1) = m
        BY <2>3, <3>2
      <4>. QED  BY <4>1
    <3>. QED  BY <2>8, <3>1, <3>2
  <2>9. \A k, l \in DOMAIN pending' : Old(k) > Old(l) => k > l
    BY <2>3
  <2>10. ASSUME NEW k \in DOMAIN pending', pending'[k].biz = c,
                \A m \in DOMAIN pending' : m > k => pending'[m].biz # c
         PROVE  pending'[k] = announced[c]
    <3>1. ASSUME NEW m \in DOMAIN pending, m > Old(k)  PROVE pending[m].biz # c
      <4>1. CASE m = n
        <5>1. Old(k) < n /\ pending[Old(k)].biz = c
          BY <2>7, <2>10, <3>1, <4>1
        <5>. QED  BY <5>1, <2>4, <2>7, <4>1
      <4>2. CASE m # n
        <5>1. PICK l \in DOMAIN pending' : Old(l) = m
          BY <2>8, <4>2
        <5>2. l > k
          BY <2>9, <3>1, <5>1
        <5>. QED  BY <2>7, <2>10, <5>1, <5>2
      <4>. QED  BY <4>1, <4>2
    <3>. HIDE DEF Old
    <3>. QED  BY <2>6, <2>7, <2>10, <3>1 DEF LastPending
  <2>11. ASSUME announced[c] # NoRow, \A k \in DOMAIN pending' : pending'[k].biz # c
         PROVE  cap'[c] = announced[c].cap
    <3>1. \A m \in DOMAIN pending : m # n => pending[m].biz # c
      BY <2>7, <2>8, <2>11
    <3>2. CASE e.biz = c
      <4>1. \A m \in DOMAIN pending : m > n => pending[m].biz # c
        BY <3>1
      <4>2. e = announced[c]
        BY <2>6, <3>2, <4>1 DEF LastPending
      <4>. QED  BY <2>1, <3>2, <4>2
    <3>3. CASE e.biz # c
      <4>1. cap'[c] = cap[c]
        BY <2>1, <3>3
      <4>2. \A m \in DOMAIN pending : pending[m].biz # c
        BY <3>1, <3>3
      <4>. QED  BY <2>6, <2>11, <4>1, <4>2 DEF LastPending
    <3>. QED  BY <3>2, <3>3
  <2>. QED  BY <2>10, <2>11
<1>. QED  BY <1>1, <1>2, <1>3, WhoAnnounces

------------------------------------------------------------------------------
(* Types.                                                                   *)

LEMMA StripeTypes ==
  ASSUME IInv, [Next]_vars
  PROVE  /\ stripe' \in [Subs -> {"none", "open", "expired", "active", "past_due", "canceled"}]
         /\ deal' \in [Subs -> [biz: Businesses, tier: Tiers] \union {NoRow}]
         /\ stripeCancels' \subseteq Subs
         /\ inputs' \in 0..MaxInputs
<1>. /\ stripe \in [Subs -> {"none", "open", "expired", "active", "past_due", "canceled"}]
     /\ deal \in [Subs -> [biz: Businesses, tier: Tiers] \union {NoRow}]
     /\ stripeCancels \subseteq Subs /\ inputs \in 0..MaxInputs
     /\ \A p \in Processes : tx[p].phase = "call" => tx[p].id \in Subs
  BY Phases DEF IInv, TypeOK
<1>1. inputs' \in 0..MaxInputs
  <2>1. UNCHANGED inputs \/ Input
    BY DEF Next, Provider, Pays, Expires, Lapses, Ends, AckCheckoutReturn, StripeNotice, Customer,
         CheckoutStub, CommitCheckout, CancelReadsRow, CancelAtStripe, CancelRefused, CancelSubscription,
         Webhook, StripeWebhook, LocalWebhook, CommitSubscription, Fails, Reconcile, ReconcileList,
         ReconcileGet, ReconcileApply, UpsertBusinessEntitlements, vars
  <2>. QED  BY <2>1, BillingAssumption DEF Input
<1>2. CASE UNCHANGED stripeVars
  BY <1>1, <1>2 DEF stripeVars
<1>3. ASSUME NEW i \in Subs, Provider(i)
      PROVE  /\ stripe' \in [Subs -> {"none", "open", "expired", "active", "past_due", "canceled"}]
             /\ UNCHANGED <<deal, stripeCancels>>
  BY <1>3 DEF Provider, Pays, Expires, Lapses, Ends
<1>4. ASSUME NEW p \in Requests, CancelAtStripe(p)
      PROVE  /\ stripe' \in [Subs -> {"none", "open", "expired", "active", "past_due", "canceled"}]
             /\ UNCHANGED deal /\ stripeCancels' \subseteq Subs
  BY <1>4 DEF CancelAtStripe, Processes
<1>5. ASSUME NEW p \in Requests, NEW b \in Businesses, NEW t \in Tiers, CheckoutStub(p, b, t)
      PROVE  /\ stripe' \in [Subs -> {"none", "open", "expired", "active", "past_due", "canceled"}]
             /\ deal' \in [Subs -> [biz: Businesses, tier: Tiers] \union {NoRow}]
             /\ UNCHANGED stripeCancels
  <2>1. PICK i \in Subs : /\ stripe' = [stripe EXCEPT ![i] = "open"]
                          /\ deal' = [deal EXCEPT ![i] = [biz |-> b, tier |-> t]]
    BY <1>5, Zenon DEF CheckoutStub
  <2>2. [biz |-> b, tier |-> t] \in [biz: Businesses, tier: Tiers]
    OBVIOUS
  <2>3. UNCHANGED stripeCancels
    BY <1>5 DEF CheckoutStub
  <2>. QED  BY <2>1, <2>2, <2>3
<1>. QED
  BY <1>1, <1>2, <1>3, <1>4, <1>5
  DEF Next, AckCheckoutReturn, StripeNotice, Customer, CommitCheckout, CancelReadsRow, CancelRefused,
      CancelSubscription, Webhook, StripeWebhook, LocalWebhook, CommitSubscription, Fails, Reconcile,
      ReconcileList, ReconcileGet, ReconcileApply, UpsertBusinessEntitlements, vars

LEMMA TransactionTypes ==
  ASSUME IInv, [Next]_vars
  PROVE  tx' \in [Processes -> Transactions] /\ providerEvents' \subseteq Keys
<1>. tx \in [Processes -> Transactions] /\ providerEvents \subseteq Keys /\ sent \subseteq Keys
     /\ row \in [Businesses -> Row \union {NoRow}]
  BY DEF IInv, TypeOK, Keys
<1>1. CASE Quiet
  BY <1>1 DEF Quiet
<1>2. ASSUME NEW p \in Processes, Leaves(p)
      PROVE  tx' \in [Processes -> Transactions] /\ providerEvents' \subseteq Keys
  BY <1>2 DEF Leaves
<1>3. ASSUME NEW p \in Processes, Begins(p)
      PROVE  tx' \in [Processes -> Transactions] /\ providerEvents' \subseteq Keys
  <2>1. PICK k \in Keys \union {NoKey}, b \in Businesses, r \in Row :
          tx' = [tx EXCEPT ![p] = Apply(k, b, r)] /\ providerEvents' = providerEvents
    BY <1>3 DEF Begins
  <2>2. Apply(k, b, r) \in Transactions
    BY DEF Apply, Transactions
  <2>. QED  BY <2>1, <2>2
<1>4. ASSUME NEW p \in Processes, Makes(p)
      PROVE  tx' \in [Processes -> Transactions] /\ providerEvents' \subseteq Keys
  <2>1. PICK i \in Subs : /\ tx' = [tx EXCEPT ![p] = [phase |-> "checkout", id |-> i]]
                          /\ providerEvents' = providerEvents
    BY <1>4 DEF Makes
  <2>2. [phase |-> "checkout", id |-> i] \in Transactions
    BY DEF Transactions
  <2>. QED  BY <2>1, <2>2
<1>5. ASSUME NEW p \in Processes, CommitSubscription(p)
      PROVE  tx' \in [Processes -> Transactions] /\ providerEvents' \subseteq Keys
  <2>1. /\ tx' = [tx EXCEPT ![p] = Idle] /\ tx[p].phase = "write"
        /\ providerEvents' = providerEvents \union ({tx[p].key} \ {NoKey})
    BY <1>5 DEF CommitSubscription
  <2>2. tx[p].key \in Keys \union {NoKey} /\ Idle \in Transactions
    BY <2>1, Phases DEF Transactions
  <2>. QED  BY <2>1, <2>2
<1>. QED  BY <1>1, <1>2, <1>3, <1>4, <1>5, StepKinds

LEMMA RowTypes ==
  ASSUME IInv, [Next]_vars
  PROVE  /\ row' \in [Businesses -> Row \union {NoRow}]
         /\ recency' \in Seq(Businesses) /\ IsInjective(recency')
         /\ \A b \in Businesses : row'[b] # NoRow <=> \E k \in DOMAIN recency' : recency'[k] = b
         /\ announced' \in [Businesses -> Event \union {NoRow}]
         /\ pending' \in Seq(Event)
         /\ cap' \in [Businesses -> Nat \union {NoRow}]
         /\ overtaken' \subseteq Businesses
<1>0. /\ row \in [Businesses -> Row \union {NoRow}]
      /\ recency \in Seq(Businesses) /\ IsInjective(recency)
      /\ \A b \in Businesses : row[b] # NoRow <=> \E k \in DOMAIN recency : recency[k] = b
      /\ announced \in [Businesses -> Event \union {NoRow}]
      /\ pending \in Seq(Event)
      /\ cap \in [Businesses -> Nat \union {NoRow}]
      /\ overtaken \subseteq Businesses
  BY DEF IInv, TypeOK
<1>1. CASE UNCHANGED <<row, recency, announced, pending, cap, overtaken>>
  BY <1>0, <1>1
<1>2. CASE \E p \in Processes : CommitSubscription(p)
  <2>1. PICK b \in Businesses, r \in Row, e \in Event :
           /\ row' = [row EXCEPT ![b] = r] /\ recency' = Touched(b)
           /\ UNCHANGED <<cap, overtaken>>
           /\ \/ UNCHANGED <<announced, pending>>
              \/ announced' = [announced EXCEPT ![b] = e] /\ pending' = Append(pending, e)
    BY <1>2, CommitFacts
  <2>2. announced' \in [Businesses -> Event \union {NoRow}] /\ pending' \in Seq(Event)
    <3>1. [announced EXCEPT ![b] = e] \in [Businesses -> Event \union {NoRow}]
      BY <1>0
    <3>2. Append(pending, e) \in Seq(Event)
      BY <1>0
    <3>. QED  BY <1>0, <2>1, <3>1, <3>2
  <2>3. /\ recency' \in Seq(Businesses) /\ IsInjective(recency')
        /\ \A c \in Businesses :
              (\E k \in DOMAIN recency' : recency'[k] = c)
                <=> (c = b \/ \E k \in DOMAIN recency : recency[k] = c)
    BY <1>0, <2>1, TouchedFacts
  <2>4. \A c \in Businesses : row'[c] = IF c = b THEN r ELSE row[c]
    BY <1>0, <2>1
  <2>5. r # NoRow
    BY BillingAssumption
  <2>6. \A c \in Businesses : row'[c] # NoRow <=> \E k \in DOMAIN recency' : recency'[k] = c
    BY <1>0, <2>3, <2>4, <2>5
  <2>. QED  BY <1>0, <2>1, <2>2, <2>3, <2>6
<1>3. CASE \E n \in DOMAIN pending : UpsertBusinessEntitlements(n)
  <2>1. PICK n \in DOMAIN pending : UpsertBusinessEntitlements(n)
    BY <1>3
  <2>. DEFINE e == pending[n]
  <2>2. e \in Event
    BY <1>0
  <2>3. e.biz \in Businesses /\ e.cap \in Nat
    BY <2>2 DEF Event
  <2>4. /\ UNCHANGED <<row, recency, announced>>
        /\ cap' = [cap EXCEPT ![e.biz] = e.cap] /\ pending' = RemoveAt(pending, n)
        /\ overtaken' \subseteq overtaken \union {e.biz}
    BY <2>1 DEF UpsertBusinessEntitlements, rowVars
  <2>5. pending' \in Seq(Event)
    BY <1>0, <2>4, RemoveAtFacts
  <2>. QED  BY <1>0, <2>3, <2>4, <2>5
<1>. QED  BY <1>1, <1>2, <1>3, WhoAnnounces

LEMMA CheckoutAndListTypes ==
  ASSUME IInv, [Next]_vars
  PROVE  /\ checkout' \in [Subs -> {"none", "created", "completed", "expired", "canceled"}]
         /\ todo' \subseteq [at: Nat, biz: Businesses, sub: Subs]
<1>. /\ checkout \in [Subs -> {"none", "created", "completed", "expired", "canceled"}]
     /\ todo \subseteq [at: Nat, biz: Businesses, sub: Subs]
  BY DEF IInv, TypeOK
<1>1. checkout' \in [Subs -> {"none", "created", "completed", "expired", "canceled"}]
  BY DEF Next, Provider, Pays, Expires, Lapses, Ends, AckCheckoutReturn, StripeNotice, Customer,
         CheckoutStub, CommitCheckout, CancelReadsRow, CancelAtStripe, CancelRefused, CancelSubscription,
         Webhook, StripeWebhook, LocalWebhook, CommitSubscription, Fails, Reconcile, ReconcileList,
         ReconcileGet, ReconcileApply, UpsertBusinessEntitlements, vars, rowVars
<1>2. todo' = todo \/ ReconcileList \/ ReconcileGet
  BY DEF Next, Provider, Pays, Expires, Lapses, Ends, AckCheckoutReturn, StripeNotice, Customer,
         CheckoutStub, CommitCheckout, CancelReadsRow, CancelAtStripe, CancelRefused, CancelSubscription,
         Webhook, StripeWebhook, LocalWebhook, CommitSubscription, Fails, Reconcile, ReconcileApply,
         UpsertBusinessEntitlements, vars
<1>3. todo' \subseteq [at: Nat, biz: Businesses, sub: Subs]
  BY <1>2, ListedFacts DEF ReconcileList, ReconcileGet
<1>. QED  BY <1>1, <1>3

LEMMA TypeOKStep ==
  ASSUME IInv, [Next]_vars
  PROVE  TypeOK'
  BY StripeTypes, EventsAreTrueStep, CheckoutAndListTypes, RowTypes, TransactionTypes DEF TypeOK

------------------------------------------------------------------------------
(* The theorems.                                                            *)

\* The inductive invariant.
THEOREM Inductive == Spec => []IInv
<1>1. IInv /\ [Next]_vars => IInv'
  BY TypeOKStep, SessionsStep, EventsAreTrueStep, RowsArePaidStep, RequestsArePaidStep, ListIsPaidStep,
     EventsWereSentStep, KeysInsertedStep, LockedRowIsReadStep, SessionsOfRequestsStep,
     CompletedIffPaidStep, AnnouncedIsCurrentStep, LastPendingStep
  DEF IInv
<1>. QED  BY InitInv, <1>1, PTL DEF Spec

\* Every variable has values of its type, and the order of updated_at holds the
\* businesses with a row, each once.
THEOREM TypeCorrect == Spec => []TypeOK
<1>1. IInv => TypeOK
  BY DEF IInv
<1>. QED  BY Inductive, <1>1, PTL

\* What the outbox has announced last, the row and both read interfaces agree,
\* although four kinds of transaction write the row from what they have read.
THEOREM AnnouncedStaysCurrent == Spec => []AnnouncedIsCurrent
<1>1. IInv => AnnouncedIsCurrent
  BY DEF IInv
<1>. QED  BY Inductive, <1>1, PTL

\* booking-service's copy of the limit follows the row as long as the events
\* of a business are handled in their order.
THEOREM CacheFollows == Spec => []CacheFollowsRow
<1>1. IInv => CacheFollowsRow
  <2>. SUFFICES ASSUME IInv, NEW b \in Businesses \ overtaken, row[b] # NoRow,
                       \A n \in DOMAIN pending : pending[n].biz # b
                PROVE  cap[b] = GetEntitlements(b)
    BY DEF CacheFollowsRow
  <2>1. announced[b] # NoRow /\ announced[b].cap = GetEntitlements(b)
    BY DEF IInv, AnnouncedIsCurrent
  <2>. QED  BY <2>1 DEF IInv, LastPending
<1>. QED  BY Inductive, <1>1, PTL

\* A session is completed if and only if its payment has been recorded,
\* in whatever order payment, expiry and return are seen.
THEOREM CompletedOnlyIfPaid == Spec => []CompletedIffPaid
<1>1. IInv => CompletedIffPaid
  BY DEF IInv
<1>. QED  BY Inductive, <1>1, PTL

\* No interleaving of webhooks, cancellations and reconciliation entitles a
\* business to a tier it has not paid for.
THEOREM EntitledOnlyByPayment == Spec => []EntitledByPayment
<1>1. IInv => EntitledByPayment
  BY DEF IInv, TypeOK, RowsArePaid, RowFor, Paid, Stripe, EntitledByPayment, Row
<1>. QED  BY Inductive, <1>1, PTL

\* A delivery of an event that is recorded already changes nothing: a
\* transaction that has inserted the event is the only one.
THEOREM ReplaysChangeNothing == Spec => ReplayChangesNothing
<1>. DEFINE Replay == \A p \in Processes :
              (tx[p].phase = "write" /\ tx[p].key \in providerEvents /\ tx'[p] = Idle)
                => UNCHANGED <<row, checkout, announced, pending>>
<1>1. IInv => \A p \in Processes : ~(tx[p].phase = "write" /\ tx[p].key \in providerEvents)
  BY BillingAssumption DEF IInv, TypeOK, KeysInserted, Writing
<1>2. IInv /\ [Next]_vars => [Replay]_vars
  BY <1>1
<1>. HIDE DEF Replay
<1>3. Spec => [][Replay]_vars
  BY Inductive, <1>2, PTL DEF Spec
<1>. QED  BY <1>3 DEF ReplayChangesNothing, Replay
==============================================================================
