------------------------- MODULE EventDeliveryProofs -------------------------
(***************************************************************************)
(* What holds of EventDelivery for every set of events and replicas, every *)
(* batch size and any number of faults: its safety properties, and that it *)
(* implements Delivery.                                                    *)
(*                                                                         *)
(* On the producing side the argument is about ownership: a locked row is  *)
(* unpublished and in the batch of one publisher, which has written it or  *)
(* has still to.  On the consuming side it is about the inbox: whoever     *)
(* handles an event has recorded it, and nobody else handles it; so a      *)
(* duplicate may be dropped, because its event is handled or will be.      *)
(***************************************************************************)
EXTENDS EventDelivery, WellFoundedInduction, TLAPS

Written(e) == \E i \in DOMAIN log : log[i] = e

\* A publisher holds the locks of exactly the rows of its batch.
Owned ==
  /\ \A p \in Publishers : \A e \in Events : e \in batch[p] <=> rowLock[e] = p
  /\ \A e \in Events : rowLock[e] # Nobody => rows[e] = "unpublished"

SentIsWritten ==
  /\ \A p \in Publishers : \A e \in batch[p] \ unsent[p] : Written(e)
  /\ \A i \in DOMAIN log : rows[log[i]] # "none"

\* What is in the log and not published is in a batch, and not to be written again.
NoRewrites ==
  faults = 0 =>
    \A i \in DOMAIN log :
      rows[log[i]] # "published" => \E p \in Publishers : log[i] \in batch[p] \ unsent[p]

\* Who handles an event has recorded it, and is the only one.
OneHandler ==
  /\ \A e \in Events : effects[e] > 0 => effects[e] = 1 /\ e \in inbox
  /\ \A c \in Consumers : cpc[c] = "handle" => log[cur[c]] \in inbox /\ effects[log[cur[c]]] = 0
  /\ \A c, d \in Consumers :
       cpc[c] = "handle" /\ cpc[d] = "handle" /\ log[cur[c]] = log[cur[d]] => c = d
  /\ \A e \in inbox : rows[e] # "none"

\* Without a skipped message, what the inbox knows and what the offsets have
\* passed is handled, or will be.
NothingSkipped ==
  struck \intersect Skipping = {} =>
    /\ \A e \in inbox :
         effects[e] > 0 \/ \E c \in Consumers : cpc[c] = "handle" /\ log[cur[c]] = e
    /\ \A i \in 1..committed : i \in DOMAIN log /\ Served(i)
    /\ \A c \in Consumers : cpc[c] = "fetched" => \A i \in 1..(cur[c] - 1) : Served(i)
    /\ \A c \in Consumers : owner = c =>
         \A i \in 1..(next - 1) :
           i \in DOMAIN log /\ (Served(i) \/ (cpc[c] = "fetched" /\ i = cur[c]))

OutboxInv == Owned /\ SentIsWritten /\ PublishedReachedKafka /\ NoRewrites /\ FaultFreeOnce
InboxInv == OneHandler /\ NothingSkipped
IInv == TypeOK /\ OutboxInv /\ InboxInv

------------------------------------------------------------------------------
(* Lemmas about the data.                                                   *)

LEMMA MinIsMember ==
  ASSUME NEW S, S \subseteq Nat, S # {}
  PROVE  Min(S) \in S
  <1> DEFINE R == OpToRel(<, Nat)
  <1>1. IsWellFoundedOn(R, Nat)
    BY NatLessThanWellFounded
  <1> HIDE DEF R
  <1>2. PICK x \in S : \A y \in S : ~ (<<y, x>> \in R)
    BY <1>1, WFMin
  <1>3. ASSUME NEW y \in S PROVE x <= y
    <2>1. <<y, x>> \notin R
      BY <1>2
    <2>2. x \in Nat /\ y \in Nat
      OBVIOUS
    <2>3. ~ (y < x)
      BY <2>1, <2>2 DEF R, OpToRel
    <2> QED BY <2>2, <2>3
  <1> QED BY <1>3 DEF Min

\* The message a publisher writes next is one of its batch.
LEMMA NextUnsent ==
  ASSUME TypeOK, NEW p \in Publishers, unsent[p] # {}
  PROVE  Min(unsent[p]) \in unsent[p] /\ Min(unsent[p]) \in batch[p] /\ Min(unsent[p]) \in Events
  <1>1. unsent[p] \subseteq Nat /\ unsent[p] \subseteq batch[p] /\ unsent[p] \subseteq Events
    BY DeliveryAssumption DEF TypeOK
  <1> QED BY <1>1, MinIsMember

LogGrows == log' = log \/ \E e \in Events : log' = Append(log, e)

LEMMA GrowthKeeps ==
  ASSUME log \in Seq(Events), LogGrows
  PROVE  /\ log' \in Seq(Events)
         /\ \A i \in DOMAIN log : i \in DOMAIN log' /\ log'[i] = log[i]
  BY DEF LogGrows

LEMMA AppendIsLast ==
  ASSUME log \in Seq(Events), NEW e \in Events, log' = Append(log, e)
  PROVE  /\ DOMAIN log' = DOMAIN log \union {Len(log) + 1}
         /\ Len(log) + 1 \notin DOMAIN log
         /\ log'[Len(log) + 1] = e
  OBVIOUS

LEMMA OffsetsBefore ==
  ASSUME log \in Seq(Events), NEW n \in DOMAIN log
  PROVE  1..(n - 1) \subseteq DOMAIN log
  OBVIOUS

LEMMA InHand ==
  ASSUME TypeOK, NEW c \in Consumers, cpc[c] # "read"
  PROVE  cur[c] \in DOMAIN log /\ log[cur[c]] \in Events
  <1>1. log \in Seq(Events) /\ cur[c] \in DOMAIN log
    BY DEF TypeOK
  <1> QED BY <1>1

LEMMA HandleEffect ==
  ASSUME TypeOK, NEW c \in Consumers, Handle(c)
  PROVE  \E e \in Events : /\ e = log[cur[c]]
                          /\ effects' = [effects EXCEPT ![e] = @ + 1]
  <1> DEFINE e == log[cur[c]]
  <1>1. e \in Events
    BY InHand DEF Handle
  <1>2. effects' = [effects EXCEPT ![e] = @ + 1]
    BY DEF Handle
  <1> HIDE DEF e
  <1>3. \E d \in Events : d = e /\ effects' = [effects EXCEPT ![d] = @ + 1]
    BY <1>1, <1>2
  <1> QED BY <1>3 DEF e

\* The steps of the producing service, and what they all do.
Producing ==
  \/ \E e \in Events : CommitRow(e)
  \/ \E p \in Publishers : PublisherStep(p) \/ PublishFails(p)
Consuming ==
  \/ \E c \in Consumers :
       \/ Assign(c) \/ ConsumerStep(c)
       \/ CommitFails(c) \/ RecordFails(c) \/ HandleFails(c) \/ ConsumerCrash(c)
  \/ Rebalance

LEMMA StepCases == [Next]_vars => Producing \/ Consuming \/ UNCHANGED vars
  BY DEF Next, Producing, Consuming

LEMMA FaultType ==
  ASSUME TypeOK, NEW f, Fault(f)
  PROVE  faults' \in 1..MaxFaults /\ struck' \subseteq Faulty /\ f \in struck'
  BY DeliveryAssumption DEF TypeOK, Fault

LEMMA ProducingEffect ==
  ASSUME TypeOK, Producing
  PROVE  /\ LogGrows
         /\ UNCHANGED consumerVars
         /\ struck \subseteq struck' /\ faults' \in Nat /\ (faults' = 0 => faults = 0)
  <1>1. ASSUME NEW e \in Events, CommitRow(e)
        PROVE LogGrows /\ UNCHANGED consumerVars /\ UNCHANGED faultVars
    BY <1>1 DEF CommitRow, LogGrows
  <1>2. ASSUME NEW p \in Publishers, PublisherStep(p)
        PROVE LogGrows /\ UNCHANGED consumerVars /\ UNCHANGED faultVars
    BY <1>2, NextUnsent DEF PublisherStep, FetchUnpublished, WriteMessage, MarkPublished, LogGrows
  <1>3. ASSUME NEW p \in Publishers, PublishFails(p)
        PROVE LogGrows /\ UNCHANGED consumerVars /\ struck \subseteq struck' /\ faults' \in 1..MaxFaults
    BY <1>3, NextUnsent, FaultType DEF PublishFails, LogGrows, Fault
  <1> QED BY <1>1, <1>2, <1>3, DeliveryAssumption DEF Producing, faultVars, TypeOK

LEMMA ConsumingEffect ==
  ASSUME TypeOK, Consuming
  PROVE  /\ UNCHANGED outboxVars
         /\ struck \subseteq struck' /\ (faults' = 0 => faults = 0)
  <1>1. ASSUME NEW c \in Consumers, Assign(c) \/ ConsumerStep(c)
        PROVE UNCHANGED outboxVars /\ UNCHANGED faultVars
    BY <1>1 DEF Assign, ConsumerStep, Fetch, CommitOffset, CommitRefused, Record, Handle
  <1>2. ASSUME NEW c \in Consumers,
               CommitFails(c) \/ RecordFails(c) \/ HandleFails(c) \/ ConsumerCrash(c)
        PROVE UNCHANGED outboxVars /\ \E f \in FaultKinds : Fault(f)
    BY <1>2 DEF CommitFails, RecordFails, HandleFails, ConsumerCrash, FaultKinds
  <1>3. ASSUME Rebalance
        PROVE UNCHANGED outboxVars /\ \E f \in FaultKinds : Fault(f)
    BY <1>3 DEF Rebalance, FaultKinds
  <1>4. ASSUME NEW f \in FaultKinds, Fault(f) PROVE struck \subseteq struck' /\ faults' # 0
    BY <1>4, FaultType DEF Fault
  <1> QED BY <1>1, <1>2, <1>3, <1>4 DEF Consuming, faultVars

------------------------------------------------------------------------------
LEMMA InitIInv == Init => IInv
  <1> SUFFICES ASSUME Init PROVE IInv
    OBVIOUS
  <1> USE DeliveryAssumption
  <1>1. TypeOK
    BY DEF Init, TypeOK
  <1>2. OutboxInv
    BY DEF Init, OutboxInv, Owned, SentIsWritten, PublishedReachedKafka, NoRewrites, FaultFreeOnce
  <1>3. InboxInv
    BY DEF Init, InboxInv, OneHandler, NothingSkipped
  <1> QED BY <1>1, <1>2, <1>3 DEF IInv

ConsumerTypes ==
  /\ owner \in Consumers \union {Nobody}
  /\ next \in Nat \ {0} /\ committed \in Nat
  /\ cpc \in [Consumers -> {"read", "fetched", "record", "handle"}]
  /\ cur \in [Consumers -> Nat]
  /\ \A c \in Consumers : cpc[c] # "read" => cur[c] \in DOMAIN log
  /\ inbox \in SUBSET Events
  /\ effects \in [Events -> Nat]

LEMMA TypeStep ==
  ASSUME TypeOK, [Next]_vars
  PROVE  TypeOK'
  <1> USE DeliveryAssumption
  <1>1. CASE Producing
    <2>1. log' \in Seq(Events) /\ \A i \in DOMAIN log : i \in DOMAIN log'
      BY <1>1, ProducingEffect, GrowthKeeps DEF TypeOK
    <2>2. UNCHANGED consumerVars
      BY <1>1, ProducingEffect
    <2>3. ASSUME NEW e \in Events, CommitRow(e) PROVE TypeOK'
      BY <2>3 DEF TypeOK, CommitRow, consumerVars, faultVars
    <2>4. ASSUME NEW p \in Publishers, FetchUnpublished(p) PROVE TypeOK'
      BY <2>4 DEF TypeOK, FetchUnpublished, consumerVars, faultVars, FirstRows, FreeRows
    <2>5. ASSUME NEW p \in Publishers, WriteMessage(p) PROVE TypeOK'
      BY <2>5, <2>1 DEF TypeOK, WriteMessage, consumerVars, faultVars
    <2>6. ASSUME NEW p \in Publishers, MarkPublished(p) PROVE TypeOK'
      BY <2>6 DEF TypeOK, MarkPublished, EndTx, consumerVars, faultVars
    <2>7. ASSUME NEW p \in Publishers, PublishFails(p) PROVE TypeOK'
      BY <2>7, <2>1, <2>2, FaultType DEF TypeOK, PublishFails, EndTx, consumerVars
    <2> QED BY <1>1, <2>3, <2>4, <2>5, <2>6, <2>7 DEF Producing, PublisherStep
  <1>2. CASE Consuming
    <2>1. UNCHANGED outboxVars /\ faults' \in 0..MaxFaults /\ struck' \subseteq Faulty
      <3>1. ASSUME NEW c \in Consumers, Assign(c) \/ ConsumerStep(c) PROVE UNCHANGED faultVars
        BY <3>1 DEF Assign, ConsumerStep, Fetch, CommitOffset, CommitRefused, Record, Handle
      <3>2. ASSUME NEW c \in Consumers,
                   CommitFails(c) \/ RecordFails(c) \/ HandleFails(c) \/ ConsumerCrash(c)
            PROVE \E f \in FaultKinds : Fault(f)
        BY <3>2 DEF CommitFails, RecordFails, HandleFails, ConsumerCrash, FaultKinds
      <3>3. ASSUME Rebalance PROVE \E f \in FaultKinds : Fault(f)
        BY <3>3 DEF Rebalance, FaultKinds
      <3> QED BY <1>2, <3>1, <3>2, <3>3, FaultType, ConsumingEffect DEF Consuming, faultVars, TypeOK
    <2> SUFFICES ConsumerTypes'
      BY <2>1 DEF TypeOK, ConsumerTypes, outboxVars
    <2> USE <2>1 DEF TypeOK, ConsumerTypes, outboxVars, ToRead
    <2>2. ASSUME NEW c \in Consumers, Assign(c) PROVE ConsumerTypes'
      BY <2>2 DEF Assign
    <2>3. ASSUME NEW c \in Consumers, Fetch(c) PROVE ConsumerTypes'
      BY <2>3 DEF Fetch
    <2>4. ASSUME NEW c \in Consumers, CommitOffset(c) PROVE ConsumerTypes'
      BY <2>4 DEF CommitOffset
    <2>5. ASSUME NEW c \in Consumers, CommitRefused(c) \/ CommitFails(c)
          PROVE ConsumerTypes'
      BY <2>5 DEF CommitRefused, CommitFails
    <2>6. ASSUME NEW c \in Consumers, Record(c) PROVE ConsumerTypes'
      <3>1. log[cur[c]] \in Events
        BY <2>6, InHand DEF Record
      <3> QED BY <2>6, <3>1 DEF Record
    <2>7. ASSUME NEW c \in Consumers, Handle(c) PROVE ConsumerTypes'
      <3> PICK e \in Events : effects' = [effects EXCEPT ![e] = @ + 1]
        BY <2>7, HandleEffect
      <3>1. effects' \in [Events -> Nat]
        OBVIOUS
      <3> QED BY <2>7, <3>1 DEF Handle
    <2>8. ASSUME NEW c \in Consumers, RecordFails(c) \/ HandleFails(c) PROVE ConsumerTypes'
      BY <2>8 DEF RecordFails, HandleFails
    <2>9. ASSUME NEW c \in Consumers, ConsumerCrash(c) PROVE ConsumerTypes'
      BY <2>9 DEF ConsumerCrash
    <2>10. CASE Rebalance
      BY <2>10 DEF Rebalance
    <2> QED BY <1>2, <2>2, <2>3, <2>4, <2>5, <2>6, <2>7, <2>8, <2>9, <2>10 DEF Consuming, ConsumerStep
  <1>3. CASE UNCHANGED vars
    BY <1>3 DEF vars, outboxVars, consumerVars, faultVars, TypeOK
  <1> QED BY <1>1, <1>2, <1>3, StepCases
------------------------------------------------------------------------------
(* The producing side.                                                      *)

LEMMA EndTxOwned ==
  ASSUME TypeOK, Owned, NEW p \in Publishers, EndTx(p),
         \A e \in Events : rowLock[e] # p => rows'[e] = rows[e]
  PROVE  Owned'
  BY DeliveryAssumption DEF TypeOK, Owned, EndTx

LEMMA BatchUnpublished ==
  ASSUME TypeOK, Owned, NEW p \in Publishers, NEW e \in batch[p]
  PROVE  e \in Events /\ rows[e] = "unpublished"
  BY DeliveryAssumption DEF TypeOK, Owned

LEMMA OwnedStep ==
  ASSUME TypeOK, Owned, Producing
  PROVE  Owned'
  <1> USE DeliveryAssumption
  <1>1. ASSUME NEW e \in Events, CommitRow(e) PROVE Owned'
    BY <1>1 DEF Owned, TypeOK, CommitRow
  <1>2. ASSUME NEW p \in Publishers, FetchUnpublished(p) PROVE Owned'
    <2> DEFINE F == FirstRows(FreeRows)
    <2>1. \A e \in F : e \in Events /\ rows[e] = "unpublished" /\ rowLock[e] = Nobody
      BY DEF FirstRows, FreeRows
    <2>2. /\ batch[p] = {} /\ rows' = rows
          /\ batch' = [batch EXCEPT ![p] = F]
          /\ rowLock' = [e \in Events |-> IF e \in F THEN p ELSE rowLock[e]]
      BY <1>2 DEF FetchUnpublished
    <2> HIDE DEF F
    <2> QED BY <2>1, <2>2 DEF Owned, TypeOK
  <1>3. ASSUME NEW p \in Publishers, WriteMessage(p) PROVE Owned'
    BY <1>3 DEF Owned, WriteMessage
  <1>4. ASSUME NEW p \in Publishers, MarkPublished(p) PROVE Owned'
    <2>1. \A e \in Events : rowLock[e] # p => rows'[e] = rows[e]
      BY <1>4 DEF MarkPublished, Owned, TypeOK
    <2> QED BY <1>4, <2>1, EndTxOwned DEF MarkPublished
  <1>5. ASSUME NEW p \in Publishers, PublishFails(p) PROVE Owned'
    BY <1>5, EndTxOwned DEF PublishFails
  <1> QED BY <1>1, <1>2, <1>3, <1>4, <1>5 DEF Producing, PublisherStep

\* A message once in the log stays in it.
LEMMA WrittenStays ==
  ASSUME TypeOK, LogGrows, NEW e, Written(e)
  PROVE  Written(e)'
  BY GrowthKeeps DEF Written, TypeOK

LEMMA WrittenStep ==
  ASSUME TypeOK, Owned, SentIsWritten, PublishedReachedKafka, Producing
  PROVE  SentIsWritten' /\ PublishedReachedKafka'
  <1> USE DeliveryAssumption
  <1>1. /\ LogGrows
        /\ \A e \in Events : Written(e) => Written(e)'
        /\ log \in Seq(Events)
        /\ \A i \in DOMAIN log : log[i] \in Events
    BY ProducingEffect, WrittenStays DEF TypeOK
  <1>2. PublishedReachedKafka <=> \A e \in Events : rows[e] = "published" => Written(e)
    BY DEF PublishedReachedKafka, Written
  <1>3. PublishedReachedKafka' <=> \A e \in Events : rows'[e] = "published" => Written(e)'
    BY DEF PublishedReachedKafka, Written
  <1>4. ASSUME NEW e \in Events, CommitRow(e) PROVE SentIsWritten' /\ PublishedReachedKafka'
    <2>1. /\ log' = log /\ batch' = batch /\ unsent' = unsent
          /\ \A d \in Events : rows'[d] = "published" => rows[d] = "published"
          /\ \A d \in Events : rows[d] # "none" => rows'[d] # "none"
      BY <1>4 DEF CommitRow, TypeOK
    <2>2. PublishedReachedKafka'
      BY <2>1, <1>1, <1>2, <1>3
    <2>3. \A p \in Publishers : \A d \in batch'[p] \ unsent'[p] : Written(d)'
      BY <2>1, <1>1 DEF SentIsWritten, TypeOK
    <2>4. \A i \in DOMAIN log' : rows'[log'[i]] # "none"
      BY <2>1, <1>1 DEF SentIsWritten
    <2> QED BY <2>2, <2>3, <2>4 DEF SentIsWritten
  <1>5. ASSUME NEW p \in Publishers, FetchUnpublished(p)
        PROVE SentIsWritten' /\ PublishedReachedKafka'
    <2>1. log' = log /\ rows' = rows
          /\ \A q \in Publishers : batch'[q] \ unsent'[q] \subseteq batch[q] \ unsent[q]
      BY <1>5 DEF FetchUnpublished, TypeOK
    <2> QED BY <2>1, <1>1, <1>2, <1>3 DEF SentIsWritten, Written, TypeOK
  <1>6. ASSUME NEW p \in Publishers, WriteMessage(p)
        PROVE SentIsWritten' /\ PublishedReachedKafka'
    <2> PICK m \in batch[p] : /\ m \in Events /\ log' = Append(log, m)
                              /\ unsent' = [unsent EXCEPT ![p] = @ \ {m}]
      BY <1>6, NextUnsent DEF WriteMessage
    <2>1. rows' = rows /\ batch' = batch
      BY <1>6 DEF WriteMessage
    <2>2. Written(m)' /\ \A i \in DOMAIN log' : log'[i] = m \/ (i \in DOMAIN log /\ log'[i] = log[i])
      BY <1>1, AppendIsLast, GrowthKeeps DEF Written
    <2>3. \A q \in Publishers : \A e \in batch'[q] \ unsent'[q] : Written(e)'
      BY <2>1, <2>2, <1>1 DEF SentIsWritten, TypeOK
    <2>4. rows[m] # "none"
      BY BatchUnpublished
    <2> QED BY <2>1, <2>2, <2>3, <2>4, <1>1, <1>2, <1>3 DEF SentIsWritten
  <1>7. ASSUME NEW p \in Publishers, MarkPublished(p)
        PROVE SentIsWritten' /\ PublishedReachedKafka'
    <2>1. /\ log' = log /\ unsent[p] = {}
          /\ rows' = [e \in Events |-> IF e \in batch[p] THEN "published" ELSE rows[e]]
          /\ \A q \in Publishers : batch'[q] \ unsent'[q] \subseteq batch[q] \ unsent[q]
      BY <1>7 DEF MarkPublished, EndTx, TypeOK
    <2>2. \A e \in batch[p] : Written(e)
      BY <2>1 DEF SentIsWritten
    <2>3. PublishedReachedKafka'
      BY <2>1, <2>2, <1>1, <1>2, <1>3
    <2> QED BY <2>1, <2>3, <1>1 DEF SentIsWritten, Written, TypeOK
  <1>8. ASSUME NEW p \in Publishers, PublishFails(p)
        PROVE SentIsWritten' /\ PublishedReachedKafka'
    <2>1. /\ rows' = rows
          /\ \A q \in Publishers : batch'[q] \ unsent'[q] \subseteq batch[q] \ unsent[q]
      BY <1>8 DEF PublishFails, EndTx, TypeOK
    <2>2. \A i \in DOMAIN log' : rows[log'[i]] # "none"
      <3>1. CASE log' = log
        BY <3>1 DEF SentIsWritten
      <3>2. CASE log' # log
        <4> PICK m \in batch[p] : m \in Events /\ log' = Append(log, m)
          BY <1>8, <3>2, NextUnsent DEF PublishFails
        <4>1. rows[m] # "none"
          BY BatchUnpublished
        <4>2. \A i \in DOMAIN log' : log'[i] = m \/ (i \in DOMAIN log /\ log'[i] = log[i])
          BY <1>1, AppendIsLast, GrowthKeeps
        <4> QED BY <4>1, <4>2 DEF SentIsWritten
      <3> QED BY <3>1, <3>2
    <2>3. \A q \in Publishers : \A e \in batch'[q] \ unsent'[q] : Written(e)'
      BY <2>1, <1>1 DEF SentIsWritten, TypeOK
    <2> QED BY <2>1, <2>2, <2>3, <1>1, <1>2, <1>3 DEF SentIsWritten
  <1> QED BY <1>4, <1>5, <1>6, <1>7, <1>8 DEF Producing, PublisherStep

LEMMA OnceStep ==
  ASSUME TypeOK, Owned, SentIsWritten, NoRewrites, FaultFreeOnce, Producing
  PROVE  NoRewrites' /\ FaultFreeOnce'
  <1> SUFFICES ASSUME faults' = 0
               PROVE  NoRewrites' /\ FaultFreeOnce'
    BY DEF NoRewrites, FaultFreeOnce
  <1> USE DeliveryAssumption
  <1>1. /\ faults = 0 /\ log \in Seq(Events)
        /\ \A i, j \in DOMAIN log : log[i] = log[j] => i = j
        /\ \A i \in DOMAIN log : log[i] \in Events /\ rows[log[i]] # "none"
        /\ \A i \in DOMAIN log : rows[log[i]] # "published" =>
               \E p \in Publishers : log[i] \in batch[p] \ unsent[p]
    BY ProducingEffect DEF NoRewrites, FaultFreeOnce, SentIsWritten, TypeOK
  <1>2. ASSUME NEW e \in Events, CommitRow(e) PROVE NoRewrites' /\ FaultFreeOnce'
    <2>1. log' = log /\ batch' = batch /\ unsent' = unsent
          /\ \A d \in Events : rows[d] # "none" => rows'[d] = rows[d]
      BY <1>2 DEF CommitRow, TypeOK
    <2> QED BY <2>1, <1>1 DEF NoRewrites, FaultFreeOnce
  <1>3. ASSUME NEW p \in Publishers, FetchUnpublished(p) PROVE NoRewrites' /\ FaultFreeOnce'
    <2>1. log' = log /\ rows' = rows
          /\ \A q \in Publishers : batch[q] \ unsent[q] \subseteq batch'[q] \ unsent'[q]
      BY <1>3 DEF FetchUnpublished, TypeOK
    <2> QED BY <2>1, <1>1 DEF NoRewrites, FaultFreeOnce
  <1>4. ASSUME NEW p \in Publishers, WriteMessage(p) PROVE NoRewrites' /\ FaultFreeOnce'
    <2> PICK m \in unsent[p] : /\ m \in Events /\ m \in batch[p] /\ log' = Append(log, m)
                               /\ unsent' = [unsent EXCEPT ![p] = @ \ {m}]
      BY <1>4, NextUnsent DEF WriteMessage
    <2>1. rows' = rows /\ batch' = batch
      BY <1>4 DEF WriteMessage
    <2>2. rows[m] = "unpublished" /\ \A q \in Publishers : m \notin batch[q] \ unsent[q]
      BY DEF Owned
    <2>3. \A i \in DOMAIN log : log[i] # m
      BY <1>1, <2>2
    <2>4. /\ DOMAIN log' = DOMAIN log \union {Len(log) + 1}
          /\ log'[Len(log) + 1] = m
          /\ \A i \in DOMAIN log : log'[i] = log[i]
      BY <1>1, AppendIsLast, GrowthKeeps DEF LogGrows
    <2>5. FaultFreeOnce'
      BY <1>1, <2>3, <2>4 DEF FaultFreeOnce
    <2>6. m \in batch'[p] \ unsent'[p]
          /\ \A q \in Publishers : batch[q] \ unsent[q] \subseteq batch'[q] \ unsent'[q]
      BY <2>1 DEF TypeOK
    <2> QED BY <1>1, <2>1, <2>4, <2>5, <2>6 DEF NoRewrites
  <1>5. ASSUME NEW p \in Publishers, MarkPublished(p) PROVE NoRewrites' /\ FaultFreeOnce'
    <2>1. /\ log' = log
          /\ rows' = [e \in Events |-> IF e \in batch[p] THEN "published" ELSE rows[e]]
          /\ \A q \in Publishers \ {p} : batch'[q] = batch[q] /\ unsent'[q] = unsent[q]
      BY <1>5 DEF MarkPublished, EndTx, TypeOK
    <2> QED BY <2>1, <1>1 DEF NoRewrites, FaultFreeOnce
  <1>6. ASSUME NEW p \in Publishers, PublishFails(p) PROVE FALSE
    BY <1>6, FaultType DEF PublishFails
  <1> QED BY <1>2, <1>3, <1>4, <1>5, <1>6 DEF Producing, PublisherStep

LEMMA OutboxStep ==
  ASSUME TypeOK, OutboxInv, [Next]_vars
  PROVE  OutboxInv'
  <1>1. CASE Producing
    BY <1>1, OwnedStep, WrittenStep, OnceStep DEF OutboxInv
  <1>2. CASE UNCHANGED outboxVars /\ (faults' = 0 => faults = 0)
    BY <1>2 DEF outboxVars, OutboxInv, Owned, SentIsWritten, Written, PublishedReachedKafka,
                NoRewrites, FaultFreeOnce
  <1> QED BY <1>1, <1>2, StepCases, ConsumingEffect DEF vars, faultVars
------------------------------------------------------------------------------
(* The consuming side.                                                      *)

LEMMA ServedStays ==
  ASSUME TypeOK, LogGrows, NEW i \in DOMAIN log, Served(i),
         \A e \in Events : effects[e] > 0 => effects'[e] > 0,
         \A c \in Consumers : cpc[c] \in {"record", "handle"} =>
            \/ cur'[c] = cur[c] /\ cpc'[c] \in {"record", "handle"}
            \/ effects'[log[cur[c]]] > 0
            \/ \E d \in Consumers : /\ cpc'[d] = "handle" /\ cur'[d] \in DOMAIN log
                                    /\ log[cur'[d]] = log[cur[c]]
  PROVE  Served(i)'
  <1>1. /\ \A j \in DOMAIN log : j \in DOMAIN log' /\ log'[j] = log[j]
        /\ log[i] \in Events
        /\ \A c \in Consumers : cpc[c] # "read" => cur[c] \in DOMAIN log
    BY GrowthKeeps DEF TypeOK
  <1>2. CASE effects[log[i]] > 0
    BY <1>1, <1>2 DEF Served
  <1>3. ASSUME NEW c \in Consumers, cpc[c] \in {"record", "handle"}, log[cur[c]] = log[i]
        PROVE  Served(i)'
    <2>1. cur[c] \in DOMAIN log
      BY <1>1, <1>3
    <2>2. CASE cur'[c] = cur[c] /\ cpc'[c] \in {"record", "handle"}
      BY <1>1, <1>3, <2>1, <2>2 DEF Served
    <2>3. CASE effects'[log[cur[c]]] > 0
      BY <1>1, <1>3, <2>3 DEF Served
    <2>4. ASSUME NEW d \in Consumers, cpc'[d] = "handle", cur'[d] \in DOMAIN log,
                 log[cur'[d]] = log[cur[c]]
          PROVE  Served(i)'
      BY <1>1, <1>3, <2>4 DEF Served
    <2> QED BY <1>3, <2>2, <2>3, <2>4
  <1> QED BY <1>2, <1>3 DEF Served

LEMMA ProducingKeepsInbox ==
  ASSUME TypeOK, InboxInv, Producing
  PROVE  InboxInv'
  <1>1. /\ LogGrows /\ log \in Seq(Events) /\ struck \subseteq struck'
        /\ \A i \in DOMAIN log : i \in DOMAIN log' /\ log'[i] = log[i]
    BY ProducingEffect, GrowthKeeps DEF TypeOK
  <1>2. UNCHANGED <<owner, next, committed, cpc, cur, inbox, effects>>
    BY ProducingEffect DEF consumerVars
  <1>3. \A c \in Consumers : cpc[c] # "read" => cur[c] \in DOMAIN log /\ log'[cur[c]] = log[cur[c]]
    BY <1>1 DEF TypeOK
  <1>4. \A e \in Events : rows[e] # "none" => rows'[e] # "none"
    <2>1. ASSUME NEW e \in Events, CommitRow(e)
          PROVE \A d \in Events : rows[d] # "none" => rows'[d] # "none"
      BY <2>1 DEF CommitRow, TypeOK
    <2>2. ASSUME NEW p \in Publishers, PublisherStep(p) \/ PublishFails(p)
          PROVE \A d \in Events : rows[d] # "none" => rows'[d] # "none"
      BY <2>2 DEF PublisherStep, FetchUnpublished, WriteMessage, MarkPublished, PublishFails, TypeOK
    <2> QED BY <2>1, <2>2 DEF Producing
  <1>5. OneHandler'
    <2>1. \A e \in inbox : rows'[e] # "none"
      BY <1>4 DEF InboxInv, OneHandler, TypeOK
    <2>2. \A c \in Consumers : cpc[c] = "handle" =>
             log'[cur[c]] \in inbox /\ effects[log'[cur[c]]] = 0
      BY <1>3 DEF InboxInv, OneHandler
    <2>3. \A c, d \in Consumers :
             cpc[c] = "handle" /\ cpc[d] = "handle" /\ log'[cur[c]] = log'[cur[d]] => c = d
      BY <1>3 DEF InboxInv, OneHandler
    <2> QED BY <1>2, <2>1, <2>2, <2>3 DEF InboxInv, OneHandler
  <1>6. \A i \in DOMAIN log : Served(i) => Served(i)'
    BY <1>1, <1>2, ServedStays
  <1>7. NothingSkipped'
    <2> SUFFICES ASSUME struck' \intersect Skipping = {} PROVE NothingSkipped'
      BY DEF NothingSkipped
    <2> USE <1>1, <1>2, <1>3, <1>6 DEF InboxInv, NothingSkipped
    <2>1. \A e \in inbox :
             effects[e] > 0 \/ \E c \in Consumers : cpc[c] = "handle" /\ log'[cur[c]] = e
      OBVIOUS
    <2>2. \A i \in 1..committed : i \in DOMAIN log' /\ Served(i)'
      OBVIOUS
    <2>3. \A c \in Consumers : cpc[c] = "fetched" => \A i \in 1..(cur[c] - 1) : Served(i)'
      <3>1. \A c \in Consumers : cpc[c] = "fetched" => 1..(cur[c] - 1) \subseteq DOMAIN log
        BY OffsetsBefore
      <3> QED BY <3>1
    <2>4. \A c \in Consumers : owner = c => \A i \in 1..(next - 1) :
             i \in DOMAIN log' /\ (Served(i)' \/ (cpc[c] = "fetched" /\ i = cur[c]))
      OBVIOUS
    <2> QED BY <2>1, <2>2, <2>3, <2>4
  <1> QED BY <1>5, <1>7 DEF InboxInv

\* What a step of a consumer that skips nothing has to keep, once the log stays.
LEMMA NothingSkippedKept ==
  ASSUME TypeOK, NothingSkipped, struck' = struck, log' = log,
         struck \intersect Skipping = {} =>
           /\ \A e \in inbox' : effects'[e] > 0 \/
                \E c \in Consumers : cpc'[c] = "handle" /\ log[cur'[c]] = e
           /\ \A i \in 1..committed' : i \in DOMAIN log /\ Served(i)'
           /\ \A c \in Consumers : cpc'[c] = "fetched" => \A i \in 1..(cur'[c] - 1) : Served(i)'
           /\ \A c \in Consumers : owner' = c => \A i \in 1..(next' - 1) :
                i \in DOMAIN log /\ (Served(i)' \/ (cpc'[c] = "fetched" /\ i = cur'[c]))
  PROVE  NothingSkipped'
  BY DEF NothingSkipped

LEMMA OwnershipKeepsInbox ==
  ASSUME TypeOK, InboxInv,
         Rebalance \/ \E c \in Consumers : Assign(c)
  PROVE  InboxInv'
  <1> USE DeliveryAssumption
  <1>1. /\ UNCHANGED <<rows, log, committed, cpc, cur, inbox, effects>>
        /\ struck \subseteq struck'
        /\ \A c \in Consumers : owner' = c => next' = committed + 1
        /\ committed \in Nat
    BY DEF TypeOK, Rebalance, Assign, outboxVars, faultVars, Fault
  <1>2. \A i : Served(i)' <=> Served(i)
    BY <1>1 DEF Served
  <1>3. OneHandler'
    BY <1>1 DEF InboxInv, OneHandler
  <1>4. \A c \in Consumers : owner' = c => next' - 1 = committed
    BY <1>1
  <1>5. NothingSkipped'
    <2> SUFFICES ASSUME struck' \intersect Skipping = {} PROVE NothingSkipped'
      BY DEF NothingSkipped
    <2>1. /\ \A e \in inbox : effects[e] > 0 \/ \E c \in Consumers : cpc[c] = "handle" /\ log[cur[c]] = e
          /\ \A i \in 1..committed : i \in DOMAIN log /\ Served(i)
          /\ \A c \in Consumers : cpc[c] = "fetched" => \A i \in 1..(cur[c] - 1) : Served(i)
      BY <1>1 DEF InboxInv, NothingSkipped
    <2>2. \A c \in Consumers : owner' = c => 1..(next' - 1) = 1..committed
      BY <1>1, <1>4
    <2>3. \A i \in 1..committed' : i \in DOMAIN log' /\ Served(i)'
      BY <1>1, <1>2, <2>1
    <2>4. \A c \in Consumers : cpc'[c] = "fetched" => \A i \in 1..(cur'[c] - 1) : Served(i)'
      BY <1>1, <1>2, <2>1
    <2>5. \A c \in Consumers : owner' = c => \A i \in 1..(next' - 1) : i \in DOMAIN log' /\ Served(i)'
      BY <1>1, <2>2, <2>3
    <2> QED BY <1>1, <2>1, <2>3, <2>4, <2>5 DEF NothingSkipped
  <1> QED BY <1>3, <1>5 DEF InboxInv

LEMMA FaultKeepsInbox ==
  ASSUME TypeOK, InboxInv, NEW c \in Consumers,
         CommitFails(c) \/ RecordFails(c) \/ HandleFails(c) \/ ConsumerCrash(c)
  PROVE  InboxInv'
  <1>1. /\ UNCHANGED <<rows, log, cur, inbox, effects>>
        /\ cpc' = [cpc EXCEPT ![c] = "read"]
        /\ struck' \intersect Skipping # {}
    BY FaultType DEF CommitFails, RecordFails, HandleFails, ConsumerCrash, ToRead, Skipping, outboxVars
  <1>2. OneHandler'
    BY <1>1 DEF InboxInv, OneHandler, TypeOK
  <1> QED BY <1>1, <1>2 DEF InboxInv, NothingSkipped

LEMMA FetchKeepsInbox ==
  ASSUME TypeOK, InboxInv, NEW c \in Consumers, Fetch(c)
  PROVE  InboxInv'
  <1>1. /\ UNCHANGED <<rows, log, owner, committed, inbox, effects, struck>>
        /\ cpc[c] = "read" /\ owner = c /\ next \in DOMAIN log /\ next' = next + 1
        /\ cpc' = [cpc EXCEPT ![c] = "fetched"] /\ cur' = [cur EXCEPT ![c] = next]
    BY DEF Fetch, outboxVars, faultVars
  <1>2. \A d \in Consumers \ {c} : cpc'[d] = cpc[d] /\ cur'[d] = cur[d]
    BY <1>1 DEF TypeOK
  <1>3. cpc'[c] = "fetched" /\ cur'[c] = next
    BY <1>1 DEF TypeOK
  <1>4. OneHandler'
    BY <1>1, <1>2, <1>3 DEF InboxInv, OneHandler
  <1>5. \A i \in DOMAIN log : Served(i) => Served(i)'
    BY <1>1, <1>2, ServedStays DEF LogGrows
  <1>6. ASSUME struck \intersect Skipping = {}
        PROVE /\ \A e \in inbox' : effects'[e] > 0 \/
                   \E d \in Consumers : cpc'[d] = "handle" /\ log[cur'[d]] = e
              /\ \A i \in 1..committed' : i \in DOMAIN log /\ Served(i)'
              /\ \A d \in Consumers : cpc'[d] = "fetched" => \A i \in 1..(cur'[d] - 1) : Served(i)'
              /\ \A d \in Consumers : owner' = d => \A i \in 1..(next' - 1) :
                   i \in DOMAIN log /\ (Served(i)' \/ (cpc'[d] = "fetched" /\ i = cur'[d]))
    <2> USE <1>6 DEF InboxInv, NothingSkipped
    <2>1. \A e \in inbox' : effects'[e] > 0 \/
             \E d \in Consumers : cpc'[d] = "handle" /\ log[cur'[d]] = e
      BY <1>1, <1>2
    <2>2. \A i \in 1..committed' : i \in DOMAIN log /\ Served(i)'
      BY <1>1, <1>5
    <2>3. \A i \in 1..(next - 1) : i \in DOMAIN log /\ Served(i)'
      BY <1>1, <1>5
    <2>4. \A d \in Consumers \ {c} : cpc[d] = "fetched" =>
             \A i \in 1..(cur[d] - 1) : i \in DOMAIN log /\ Served(i)'
      BY <1>5, InHand, OffsetsBefore DEF TypeOK
    <2>5. 1..(next' - 1) = 1..(next - 1) \union {next}
      BY <1>1 DEF TypeOK
    <2> QED BY <1>1, <1>2, <1>3, <2>1, <2>2, <2>3, <2>4, <2>5
  <1>7. NothingSkipped'
    BY <1>1, <1>6, NothingSkippedKept DEF InboxInv
  <1> QED BY <1>4, <1>7 DEF InboxInv

LEMMA CommitKeepsInbox ==
  ASSUME TypeOK, InboxInv, NEW c \in Consumers, CommitOffset(c) \/ CommitRefused(c)
  PROVE  InboxInv'
  <1>1. /\ UNCHANGED <<rows, log, owner, next, cur, inbox, effects, struck>>
        /\ cpc[c] = "fetched"
        /\ \/ owner = c /\ committed' = cur[c] /\ cpc' = [cpc EXCEPT ![c] = "record"]
           \/ owner # c /\ committed' = committed /\ cpc' = [cpc EXCEPT ![c] = "read"]
    BY DEF CommitOffset, CommitRefused, ToRead, outboxVars, faultVars
  <1>2. /\ \A d \in Consumers \ {c} : cpc'[d] = cpc[d]
        /\ cpc'[c] \in {"record", "read"}
        /\ cpc'[c] = "record" => owner = c /\ committed' = cur[c]
        /\ cpc'[c] = "read" => owner # c /\ committed' = committed
    BY <1>1 DEF TypeOK
  <1>3. OneHandler'
    BY <1>1, <1>2 DEF InboxInv, OneHandler
  <1>4. \A i \in DOMAIN log : Served(i) => Served(i)'
    BY <1>1, <1>2, ServedStays DEF LogGrows
  <1>5. cur[c] \in DOMAIN log /\ cur[c] \in Nat \ {0} /\ cur' = cur
    <2>1. cur[c] \in DOMAIN log /\ log \in Seq(Events)
      BY <1>1, InHand DEF TypeOK
    <2> QED BY <2>1, <1>1
  <1>6. cpc'[c] = "record" => Served(cur[c])'
    BY <1>1 DEF Served
  <1>7. ASSUME struck \intersect Skipping = {}
        PROVE /\ \A e \in inbox' : effects'[e] > 0 \/
                   \E d \in Consumers : cpc'[d] = "handle" /\ log[cur'[d]] = e
              /\ \A i \in 1..committed' : i \in DOMAIN log /\ Served(i)'
              /\ \A d \in Consumers : cpc'[d] = "fetched" => \A i \in 1..(cur'[d] - 1) : Served(i)'
              /\ \A d \in Consumers : owner' = d => \A i \in 1..(next' - 1) :
                   i \in DOMAIN log /\ (Served(i)' \/ (cpc'[d] = "fetched" /\ i = cur'[d]))
    <2> USE <1>7 DEF InboxInv, NothingSkipped
    <2>1. \A e \in inbox' : effects'[e] > 0 \/
             \E d \in Consumers : cpc'[d] = "handle" /\ log[cur'[d]] = e
      BY <1>1, <1>2
    <2>2. \A d \in Consumers : cpc[d] = "fetched" =>
             \A i \in 1..(cur[d] - 1) : i \in DOMAIN log /\ Served(i)'
      BY <1>4, InHand, OffsetsBefore DEF TypeOK
    <2>3. \A i \in 1..committed' : i \in DOMAIN log /\ Served(i)'
      <3>1. CASE cpc'[c] = "record"
        <4>1. 1..committed' = 1..(cur[c] - 1) \union {cur[c]}
          BY <1>2, <1>5, <3>1
        <4>2. \A i \in 1..(cur[c] - 1) : i \in DOMAIN log /\ Served(i)'
          BY <1>1, <2>2
        <4>3. \A i \in {cur[c]} : i \in DOMAIN log /\ Served(i)'
          BY <1>5, <1>6, <3>1
        <4> QED BY <4>1, <4>2, <4>3
      <3>2. CASE cpc'[c] = "read"
        BY <1>2, <1>4, <3>2
      <3> QED BY <3>1, <3>2, <1>2
    <2>4. \A d \in Consumers : owner = d => \A i \in 1..(next - 1) :
             i \in DOMAIN log /\ (Served(i)' \/ (cpc'[d] = "fetched" /\ i = cur[d]))
      <3> SUFFICES ASSUME NEW d \in Consumers, owner = d, NEW i \in 1..(next - 1)
                   PROVE i \in DOMAIN log /\ (Served(i)' \/ (cpc'[d] = "fetched" /\ i = cur[d]))
        OBVIOUS
      <3>1. CASE Served(i)
        BY <3>1, <1>4
      <3>2. CASE ~Served(i)
        BY <3>2, <1>1, <1>2, <1>6
      <3> QED BY <3>1, <3>2
    <2> QED BY <1>1, <1>2, <2>1, <2>2, <2>3, <2>4
  <1>8. NothingSkipped'
    BY <1>1, <1>7, NothingSkippedKept DEF InboxInv
  <1> QED BY <1>3, <1>8 DEF InboxInv

\* A duplicate is dropped only because its event is handled or will be; a new
\* event is recorded by the one that will handle it.
LEMMA RecordKeepsInbox ==
  ASSUME TypeOK, SentIsWritten, InboxInv, NEW c \in Consumers, Record(c)
  PROVE  InboxInv'
  <1> PICK e \in Events : e = log[cur[c]] /\ rows[e] # "none"
    BY InHand DEF Record, SentIsWritten
  <1>1. /\ UNCHANGED <<rows, log, owner, next, committed, cur, effects, struck>>
        /\ cpc[c] = "record" /\ inbox' = inbox \union {e}
        /\ cpc' = [cpc EXCEPT ![c] = IF e \in inbox THEN "read" ELSE "handle"]
    BY DEF Record, ToRead, outboxVars, faultVars
  <1>2. /\ \A d \in Consumers \ {c} : cpc'[d] = cpc[d]
        /\ cpc'[c] = IF e \in inbox THEN "read" ELSE "handle"
    BY <1>1 DEF TypeOK
  <1>3. OneHandler'
    <2> USE DEF InboxInv, OneHandler
    <2>1. \A d \in Events : effects[d] > 0 => effects[d] = 1 /\ d \in inbox'
      BY <1>1
    <2>2. \A d \in inbox' : rows[d] # "none"
      BY <1>1
    <2>3. e \notin inbox => effects[e] = 0
      BY DEF TypeOK
    <2>4. \A d \in Consumers : cpc'[d] = "handle" => log[cur[d]] \in inbox' /\ effects[log[cur[d]]] = 0
      BY <1>1, <1>2, <2>3
    <2>5. \A d \in Consumers \ {c} : cpc'[d] = "handle" => log[cur[d]] \in inbox
      BY <1>2
    <2>6. \A d, b \in Consumers :
             cpc'[d] = "handle" /\ cpc'[b] = "handle" /\ log[cur[d]] = log[cur[b]] => d = b
      BY <1>2, <2>5
    <2> QED BY <1>1, <2>1, <2>2, <2>4, <2>6
  <1>4. ASSUME struck \intersect Skipping = {}
        PROVE \A d \in inbox' : effects[d] > 0 \/
                \E b \in Consumers : cpc'[b] = "handle" /\ log[cur[b]] = d
    <2>1. \A d \in inbox : effects[d] > 0 \/
             \E b \in Consumers : cpc[b] = "handle" /\ log[cur[b]] = d
      BY <1>4 DEF InboxInv, NothingSkipped
    <2>2. \A b \in Consumers : cpc[b] = "handle" => cpc'[b] = "handle"
      BY <1>1, <1>2
    <2> QED BY <1>1, <1>2, <2>1, <2>2
  <1>5. ASSUME struck \intersect Skipping = {}
        PROVE \A i \in DOMAIN log : Served(i) => Served(i)'
    <2>1. ASSUME NEW d \in Consumers, cpc[d] \in {"record", "handle"}
          PROVE \/ cur'[d] = cur[d] /\ cpc'[d] \in {"record", "handle"}
                \/ effects'[log[cur[d]]] > 0
                \/ \E b \in Consumers : /\ cpc'[b] = "handle" /\ cur'[b] \in DOMAIN log
                                        /\ log[cur'[b]] = log[cur[d]]
      <3>1. CASE d # c \/ e \notin inbox
        BY <1>1, <1>2, <2>1, <3>1
      <3>2. CASE d = c /\ e \in inbox
        <4>1. e \in inbox'
          BY <1>1
        <4>2. \A b \in Consumers : cpc'[b] = "handle" => cur[b] \in DOMAIN log
          BY <1>1, <1>2, InHand
        <4> QED BY <1>1, <1>4, <1>5, <3>2, <4>1, <4>2
      <3> QED BY <3>1, <3>2
    <2> QED BY <1>1, <2>1, ServedStays DEF LogGrows
  <1>6. NothingSkipped'
    <2> SUFFICES ASSUME struck \intersect Skipping = {} PROVE NothingSkipped'
      BY <1>1 DEF NothingSkipped
    <2> USE DEF InboxInv, NothingSkipped
    <2>1. \A i \in 1..committed : i \in DOMAIN log /\ Served(i)'
      BY <1>5
    <2>2. \A d \in Consumers : cpc'[d] = "fetched" =>
             \A i \in 1..(cur[d] - 1) : i \in DOMAIN log /\ Served(i)'
      <3>1. \A d \in Consumers : cpc'[d] = "fetched" => cpc[d] = "fetched"
        BY <1>1, <1>2
      <3> QED BY <3>1, <1>5, InHand, OffsetsBefore DEF TypeOK
    <2>3. \A d \in Consumers : owner = d => \A i \in 1..(next - 1) :
             i \in DOMAIN log /\ (Served(i)' \/ (cpc'[d] = "fetched" /\ i = cur[d]))
      BY <1>1, <1>2, <1>5
    <2> QED BY <1>1, <1>4, <2>1, <2>2, <2>3, NothingSkippedKept
  <1> QED BY <1>3, <1>6 DEF InboxInv

LEMMA HandleKeepsInbox ==
  ASSUME TypeOK, InboxInv, NEW c \in Consumers, Handle(c)
  PROVE  InboxInv'
  <1> PICK e \in Events : e = log[cur[c]] /\ effects' = [effects EXCEPT ![e] = @ + 1]
    BY HandleEffect
  <1>1. /\ UNCHANGED <<rows, log, owner, next, committed, cur, inbox, struck>>
        /\ cpc[c] = "handle" /\ cpc' = [cpc EXCEPT ![c] = "read"]
    BY DEF Handle, ToRead, outboxVars, faultVars
  <1>2. /\ \A d \in Consumers \ {c} : cpc'[d] = cpc[d]
        /\ cpc'[c] = "read"
    BY <1>1 DEF TypeOK
  <1>3. /\ e \in inbox /\ effects'[e] = 1
        /\ \A d \in Events \ {e} : effects'[d] = effects[d]
    BY <1>1 DEF InboxInv, OneHandler, TypeOK
  <1>4. OneHandler'
    <2>1. \A d \in Consumers : cpc'[d] = "handle" =>
             d # c /\ cpc[d] = "handle" /\ log[cur[d]] # e /\ log[cur[d]] \in Events
      BY <1>1, <1>2, InHand DEF InboxInv, OneHandler
    <2> QED BY <1>1, <1>3, <2>1 DEF InboxInv, OneHandler
  <1>5. \A i \in DOMAIN log : Served(i) => Served(i)'
    <2>1. \A d \in Events : effects[d] > 0 => effects'[d] > 0
      BY <1>3
    <2>2. \A d \in Consumers : cpc[d] \in {"record", "handle"} =>
             (cur'[d] = cur[d] /\ cpc'[d] \in {"record", "handle"}) \/ effects'[log[cur[d]]] > 0
      BY <1>1, <1>2, <1>3
    <2> QED BY <1>1, <2>1, <2>2, ServedStays DEF LogGrows
  <1>6. NothingSkipped'
    <2> SUFFICES ASSUME struck \intersect Skipping = {} PROVE NothingSkipped'
      BY <1>1 DEF NothingSkipped
    <2> USE DEF InboxInv, NothingSkipped
    <2>1. \A d \in inbox : effects'[d] > 0 \/
             \E b \in Consumers : cpc'[b] = "handle" /\ log[cur[b]] = d
      BY <1>1, <1>2, <1>3 DEF TypeOK
    <2>2. \A i \in 1..committed : i \in DOMAIN log /\ Served(i)'
      BY <1>5
    <2>3. \A d \in Consumers : cpc'[d] = "fetched" =>
             \A i \in 1..(cur[d] - 1) : i \in DOMAIN log /\ Served(i)'
      <3>1. \A d \in Consumers : cpc'[d] = "fetched" => cpc[d] = "fetched"
        BY <1>1, <1>2
      <3> QED BY <3>1, <1>5, InHand, OffsetsBefore DEF TypeOK
    <2>4. \A d \in Consumers : owner = d => \A i \in 1..(next - 1) :
             i \in DOMAIN log /\ (Served(i)' \/ (cpc'[d] = "fetched" /\ i = cur[d]))
      BY <1>1, <1>2, <1>5
    <2> QED BY <1>1, <2>1, <2>2, <2>3, <2>4, NothingSkippedKept
  <1> QED BY <1>4, <1>6 DEF InboxInv

LEMMA InboxStep ==
  ASSUME TypeOK, OutboxInv, InboxInv, [Next]_vars
  PROVE  InboxInv'
  <1>1. CASE Producing
    BY <1>1, ProducingKeepsInbox
  <1>2. CASE Consuming
    BY <1>2, OwnershipKeepsInbox, FaultKeepsInbox, FetchKeepsInbox, CommitKeepsInbox,
       RecordKeepsInbox, HandleKeepsInbox DEF Consuming, ConsumerStep, OutboxInv
  <1>3. CASE UNCHANGED vars
    BY <1>3 DEF vars, outboxVars, consumerVars, faultVars, InboxInv, OneHandler, NothingSkipped, Served
  <1> QED BY <1>1, <1>2, <1>3, StepCases

------------------------------------------------------------------------------
LEMMA Inductive == Spec => []IInv
  <1>1. IInv /\ [Next]_vars => IInv'
    BY TypeStep, OutboxStep, InboxStep DEF IInv
  <1> QED BY InitIInv, <1>1, PTL DEF Spec

\* The variables of the outbox, the group and the inbox keep their types: a
\* publisher has only rows of its batch left to write, and a consumer with a
\* message in hand holds an offset of the log.
THEOREM DeliveryTypes == Spec => []TypeOK
  BY Inductive, PTL DEF IInv

\* MarkPublished marks no row whose message is not in Kafka, whatever fails.
THEOREM PublishedAreWritten == Spec => []PublishedReachedKafka
  BY Inductive, PTL DEF IInv, OutboxInv

\* FetchUnpublished's SKIP LOCKED: without faults, no row is written twice, by
\* however many replicas.
THEOREM WrittenOnce == Spec => []FaultFreeOnce
  BY Inductive, PTL DEF IInv, OutboxInv

\* Consumer.Run and inbox.Record lose a message only where Run skips one.
THEOREM NothingElseLoses == Spec => []LostByFaultsOnly
  <1>1. IInv => LostByFaultsOnly
    BY DEF IInv, InboxInv, NothingSkipped, LostByFaultsOnly, CommittedIsServed
  <1> QED BY <1>1, Inductive, PTL

------------------------------------------------------------------------------
(* EventDelivery implements Delivery.                                       *)

LEMMA InitDelivery == Init => Bus!Init
  BY DEF Init, Bus!Init

LEMMA NextDelivery == IInv /\ [Next]_vars => [Bus!Next]_(Bus!deliveryVars)
  <1> SUFFICES ASSUME IInv, [Next]_vars PROVE Bus!Next \/ UNCHANGED Bus!deliveryVars
    OBVIOUS
  <1>1. ASSUME NEW e \in Events, CommitRow(e) PROVE Bus!Announce(e)
    BY <1>1 DEF CommitRow, Bus!Announce, consumerVars, IInv, TypeOK
  <1>2. ASSUME NEW p \in Publishers, PublisherStep(p) \/ PublishFails(p)
        PROVE UNCHANGED Bus!deliveryVars
    <2>1. effects' = effects
      BY <1>2 DEF PublisherStep, FetchUnpublished, WriteMessage, MarkPublished, PublishFails, consumerVars
    <2>2. \A e \in Events : rows'[e] # "none" <=> rows[e] # "none"
      <3>1. CASE MarkPublished(p)
        <4>1. \A e \in batch[p] : rows[e] = "unpublished"
          BY BatchUnpublished DEF IInv, OutboxInv
        <4> QED BY <3>1, <4>1 DEF MarkPublished
      <3>2. CASE ~MarkPublished(p)
        BY <1>2, <3>2 DEF PublisherStep, FetchUnpublished, WriteMessage, PublishFails
      <3> QED BY <3>1, <3>2
    <2> QED BY <2>1, <2>2 DEF Bus!deliveryVars
  <1>3. ASSUME NEW c \in Consumers, Handle(c) PROVE \E e \in Events : Bus!Apply(e)
    <2> PICK e \in Events : e = log[cur[c]] /\ effects' = [effects EXCEPT ![e] = @ + 1]
      BY <1>3, HandleEffect DEF IInv
    <2>1. effects[e] = 0 /\ rows[e] # "none" /\ rows' = rows
      BY <1>3 DEF Handle, IInv, InboxInv, OneHandler, outboxVars
    <2>2. effects' = [effects EXCEPT ![e] = 1]
      BY <2>1
    <2> QED BY <2>1, <2>2 DEF Bus!Apply
  <1>4. CASE Rebalance \/ \E c \in Consumers :
               \/ Assign(c) \/ Fetch(c) \/ CommitOffset(c) \/ CommitRefused(c) \/ Record(c)
               \/ CommitFails(c) \/ RecordFails(c) \/ HandleFails(c) \/ ConsumerCrash(c)
    BY <1>4 DEF Rebalance, Assign, Fetch, CommitOffset, CommitRefused, Record, CommitFails,
                RecordFails, HandleFails, ConsumerCrash, outboxVars, Bus!deliveryVars
  <1>5. CASE UNCHANGED vars
    BY <1>5 DEF vars, outboxVars, consumerVars, Bus!deliveryVars
  <1> QED BY <1>1, <1>2, <1>3, <1>4, <1>5 DEF Next, ConsumerStep, Bus!Next

\* Outbox, consumer group and inbox together give an event's effect after its
\* transaction has committed, and once: duplicates never reach a handler.
THEOREM DeliveryImplemented == Spec => ImplementsDelivery
  BY InitDelivery, Inductive, NextDelivery, PTL DEF Spec, ImplementsDelivery, Bus!Spec
==============================================================================
