---------------------------- MODULE EventDelivery ----------------------------
(***************************************************************************)
(* How an event gets from a transaction of one service to the handler of   *)
(* another: the outbox table, the Publisher of every replica of the        *)
(* producing service, one Kafka topic partition, and the Consumer and the  *)
(* inbox table of every replica of the consuming service.  The packages    *)
(* internal/outbox and internal/consumer, internal/inbox are the same code *)
(* in every service; the lines are those of booking-service.               *)
(*                                                                         *)
(* An event is the id of its outbox row, the order of the BIGSERIAL; rows  *)
(* become visible when their transaction commits, in any order.  Faults    *)
(* (failed statements, writes and commits, crashes, rebalances) may strike *)
(* at any step, MaxFaults of them in a behaviour, of the kinds in Faulty.  *)
(***************************************************************************)
EXTENDS Integers, Sequences, FiniteSets, FiniteSetsExt

CONSTANTS
  Events,      \* ids of the outbox rows, an interval 1..n
  Publishers,  \* replicas of the producing service
  Consumers,   \* replicas of the consuming service, one consumer group
  Nobody,      \* no publisher holds the row, no consumer owns the partition
  BatchSize,   \* LIMIT of FetchUnpublished
  Faulty,      \* the kinds of faults that may happen
  MaxFaults    \* bound: how many of them in one behaviour

FaultKinds == {"publisher", "offset", "inbox", "handler", "consumer", "rebalance"}

ASSUME DeliveryAssumption ==
  /\ Events \subseteq Nat /\ IsFiniteSet(Events)
  /\ Nobody \notin Publishers \union Consumers
  /\ BatchSize \in Nat \ {0}
  /\ Faulty \subseteq FaultKinds
  /\ MaxFaults \in Nat

VARIABLES
  rows,        \* rows[e]: "none", "unpublished" or "published" (published_at)
  rowLock,     \* rowLock[e]: the publisher whose transaction holds the row
  batch,       \* batch[p]: the records publishBatch fetched
  unsent,      \* unsent[p]: those it has still to write to Kafka
  log,         \* the messages of the partition, by offset
  owner,       \* the consumer the group has assigned the partition to
  next,        \* offset the owner's reader fetches next
  committed,   \* offset the group has committed (0: none)
  cpc,         \* cpc[c]: where Run stands in its loop
  cur,         \* cur[c]: offset of the message in hand
  inbox,       \* inbox_events
  effects,     \* effects[e]: how often the handler has applied e
  faults,      \* faults so far
  struck       \* the kinds of them

outboxVars == <<rows, rowLock, batch, unsent, log>>
consumerVars == <<owner, next, committed, cpc, cur, inbox, effects>>
faultVars == <<faults, struck>>
vars == <<outboxVars, consumerVars, faultVars>>

TypeOK ==
  /\ rows \in [Events -> {"none", "unpublished", "published"}]
  /\ rowLock \in [Events -> Publishers \union {Nobody}]
  /\ batch \in [Publishers -> SUBSET Events]
  /\ unsent \in [Publishers -> SUBSET Events]
  /\ \A p \in Publishers : unsent[p] \subseteq batch[p]
  /\ log \in Seq(Events)
  /\ owner \in Consumers \union {Nobody}
  /\ next \in Nat \ {0} /\ committed \in Nat
  /\ cpc \in [Consumers -> {"read", "fetched", "record", "handle"}]
  /\ cur \in [Consumers -> Nat]
  /\ \A c \in Consumers : cpc[c] # "read" => cur[c] \in DOMAIN log
  /\ inbox \in SUBSET Events
  /\ effects \in [Events -> Nat]
  /\ faults \in 0..MaxFaults
  /\ struck \subseteq Faulty

\* A fault of kind f happens in this step.
Fault(f) ==
  /\ f \in Faulty /\ faults < MaxFaults
  /\ faults' = faults + 1
  /\ struck' = struck \union {f}

------------------------------------------------------------------------------
(* The producing service.                                                   *)

\* A handler's transaction commits with its outbox row.
CommitRow(e) ==
  /\ rows[e] = "none"
  /\ rows' = [rows EXCEPT ![e] = "unpublished"]
  /\ UNCHANGED <<rowLock, batch, unsent, log, consumerVars, faultVars>>

LockedRowsTaken == {e \in Events : rows[e] = "unpublished"}
\* WHERE published_at IS NULL ... FOR UPDATE SKIP LOCKED
FreeRows == {e \in Events : rows[e] = "unpublished" /\ rowLock[e] = Nobody}

\* ORDER BY id LIMIT BatchSize
FirstRows(S) == {e \in S : Cardinality({d \in S : d < e}) < BatchSize}

\* The start of publishBatch; with no records it has nothing to do.
FetchUnpublished(p) ==
  /\ batch[p] = {} /\ FreeRows # {}
  /\ batch' = [batch EXCEPT ![p] = FirstRows(FreeRows)]
  /\ unsent' = [unsent EXCEPT ![p] = FirstRows(FreeRows)]
  /\ rowLock' = [e \in Events |-> IF e \in FirstRows(FreeRows) THEN p ELSE rowLock[e]]
  /\ UNCHANGED <<rows, log, consumerVars, faultVars>>

\* WriteMessages succeeds for the next record of the batch.
WriteMessage(p) ==
  /\ unsent[p] # {}
  /\ log' = Append(log, Min(unsent[p]))
  /\ unsent' = [unsent EXCEPT ![p] = @ \ {Min(unsent[p])}]
  /\ UNCHANGED <<rows, rowLock, batch, consumerVars, faultVars>>

TxEndsLocksStay(p) ==
  /\ batch' = [batch EXCEPT ![p] = {}]
  /\ unsent' = [unsent EXCEPT ![p] = {}]
  /\ UNCHANGED rowLock
\* The end of p's transaction: its rows are no longer locked.
EndTx(p) ==
  /\ batch' = [batch EXCEPT ![p] = {}]
  /\ unsent' = [unsent EXCEPT ![p] = {}]
  /\ rowLock' = [e \in Events |-> IF rowLock[e] = p THEN Nobody ELSE rowLock[e]]

MarkPublishedEarly(p) ==
  /\ batch[p] # {}
  /\ rows' = [e \in Events |-> IF e \in batch[p] THEN "published" ELSE rows[e]]
  /\ EndTx(p)
  /\ UNCHANGED <<log, consumerVars, faultVars>>
\* MarkPublished for the whole batch, and the commit.
MarkPublished(p) ==
  /\ batch[p] # {} /\ unsent[p] = {}
  /\ rows' = [e \in Events |-> IF e \in batch[p] THEN "published" ELSE rows[e]]
  /\ EndTx(p)
  /\ UNCHANGED <<log, consumerVars, faultVars>>

\* publishBatch returns an error, or the process dies: the transaction rolls
\* back.  A write that failed may have reached Kafka; the rows that did reach
\* it stay unpublished and will be written again.
PublishFails(p) ==
  /\ batch[p] # {}
  /\ Fault("publisher")
  /\ \/ log' = log
     \/ unsent[p] # {} /\ log' = Append(log, Min(unsent[p]))
  /\ EndTx(p)
  /\ UNCHANGED <<rows, consumerVars>>

------------------------------------------------------------------------------
(* Kafka's consumer group, as kafka.Reader uses it.                         *)

AssignAtTheEnd(c) ==
  /\ owner = Nobody
  /\ owner' = c /\ next' = Len(log) + 1
  /\ UNCHANGED <<outboxVars, committed, cpc, cur, inbox, effects, faultVars>>
\* The group assigns the partition; the reader starts at the committed offset.
Assign(c) ==
  /\ owner = Nobody
  /\ owner' = c /\ next' = committed + 1
  /\ UNCHANGED <<outboxVars, committed, cpc, cur, inbox, effects, faultVars>>

\* It takes the partition away from a consumer that is still working.
Rebalance ==
  /\ owner # Nobody
  /\ Fault("rebalance")
  /\ owner' = Nobody
  /\ UNCHANGED <<outboxVars, next, committed, cpc, cur, inbox, effects>>

\* ReadMessage, first half: the next message of the partition.
Fetch(c) ==
  /\ cpc[c] = "read" /\ owner = c /\ next \in DOMAIN log
  /\ cur' = [cur EXCEPT ![c] = next]
  /\ next' = next + 1
  /\ cpc' = [cpc EXCEPT ![c] = "fetched"]
  /\ UNCHANGED <<outboxVars, owner, committed, inbox, effects, faultVars>>

\* ReadMessage, second half: the offset is committed before Run gets the
\* message.
CommitOffset(c) ==
  /\ cpc[c] = "fetched" /\ owner = c
  /\ committed' = cur[c]
  /\ cpc' = [cpc EXCEPT ![c] = "record"]
  /\ UNCHANGED <<outboxVars, owner, next, cur, inbox, effects, faultVars>>

ToRead(c) == cpc' = [cpc EXCEPT ![c] = "read"]

\* The partition was taken away meanwhile: ReadMessage returns an error, the
\* loop goes on, and the next owner will fetch the message again.
CommitRefused(c) ==
  /\ cpc[c] = "fetched" /\ owner # c
  /\ ToRead(c)
  /\ UNCHANGED <<outboxVars, owner, next, committed, cur, inbox, effects, faultVars>>

\* The commit fails: ReadMessage returns an error, and the loop reads on after
\* a message nobody has seen.
CommitFails(c) ==
  /\ cpc[c] = "fetched" /\ owner = c
  /\ Fault("offset")
  /\ ToRead(c)
  /\ UNCHANGED <<outboxVars, owner, next, committed, cur, inbox, effects>>

------------------------------------------------------------------------------
(* Consumer.Run.                                                            *)

DuplicatesHandled(c) ==
  /\ cpc[c] = "record"
  /\ inbox' = inbox \union {log[cur[c]]}
  /\ cpc' = [cpc EXCEPT ![c] = "handle"]
  /\ UNCHANGED <<outboxVars, owner, next, committed, cur, effects, faultVars>>
\* inbox.Record: a transaction of its own, before the handler.  A unique
\* violation says the event is a duplicate, and the loop goes on.
Record(c) ==
  /\ cpc[c] = "record"
  /\ inbox' = inbox \union {log[cur[c]]}
  /\ IF log[cur[c]] \in inbox THEN ToRead(c)
                              ELSE cpc' = [cpc EXCEPT ![c] = "handle"]
  /\ UNCHANGED <<outboxVars, owner, next, committed, cur, effects, faultVars>>

\* Any other error: logged, on to the next message.
RecordFails(c) ==
  /\ cpc[c] = "record"
  /\ Fault("inbox")
  /\ ToRead(c)
  /\ UNCHANGED <<outboxVars, owner, next, committed, cur, inbox, effects>>

Handle(c) ==
  /\ cpc[c] = "handle"
  /\ effects' = [effects EXCEPT ![log[cur[c]]] = @ + 1]
  /\ ToRead(c)
  /\ UNCHANGED <<outboxVars, owner, next, committed, cur, inbox, faultVars>>

\* The handler returns an error: logged, on to the next message.
HandleFails(c) ==
  /\ cpc[c] = "handle"
  /\ Fault("handler")
  /\ ToRead(c)
  /\ UNCHANGED <<outboxVars, owner, next, committed, cur, inbox, effects>>

\* The process dies and starts again.
ConsumerCrash(c) ==
  /\ Fault("consumer")
  /\ ToRead(c)
  /\ owner' = IF owner = c THEN Nobody ELSE owner
  /\ UNCHANGED <<outboxVars, next, committed, cur, inbox, effects>>

------------------------------------------------------------------------------
Init ==
  /\ rows = [e \in Events |-> "none"]
  /\ rowLock = [e \in Events |-> Nobody]
  /\ batch = [p \in Publishers |-> {}]
  /\ unsent = [p \in Publishers |-> {}]
  /\ log = <<>>
  /\ owner = Nobody /\ next = 1 /\ committed = 0
  /\ cpc = [c \in Consumers |-> "read"]
  /\ cur = [c \in Consumers |-> 0]
  /\ inbox = {}
  /\ effects = [e \in Events |-> 0]
  /\ faults = 0 /\ struck = {}

PublisherStep(p) == FetchUnpublished(p) \/ WriteMessage(p) \/ MarkPublished(p)

ConsumerStep(c) ==
  Fetch(c) \/ CommitOffset(c) \/ CommitRefused(c) \/ Record(c) \/ Handle(c)

Next ==
  \/ \E e \in Events : CommitRow(e)
  \/ \E p \in Publishers : PublisherStep(p) \/ PublishFails(p)
  \/ \E c \in Consumers :
       \/ Assign(c) \/ ConsumerStep(c)
       \/ CommitFails(c) \/ RecordFails(c) \/ HandleFails(c) \/ ConsumerCrash(c)
  \/ Rebalance

Spec == Init /\ [][Next]_vars

\* The publisher's ticker and the consumer's loop run as long as the process
\* does, the group always finds an owner; nothing obliges a producer to commit
\* or a fault to happen.
Fairness ==
  /\ \A p \in Publishers : WF_vars(PublisherStep(p))
  /\ \A c \in Consumers : WF_vars(ConsumerStep(c))
  /\ WF_vars(\E c \in Consumers : Assign(c))

FairSpec == Spec /\ Fairness

------------------------------------------------------------------------------
(* Properties.                                                              *)

\* The outbox promise: a row is marked published only when its message is in
\* Kafka, whatever fails between the writes of a batch and the commit.
PublishedReachedKafka ==
  \A e \in Events : rows[e] = "published" => \E i \in DOMAIN log : log[i] = e

\* FOR UPDATE SKIP LOCKED divides the table between the replicas: as long as
\* nothing fails, no message is written twice.
FaultFreeOnce ==
  faults = 0 => \A i, j \in DOMAIN log : log[i] = log[j] => i = j

\* The handler of the message at offset i has run, or is going to.
Served(i) ==
  \/ effects[log[i]] > 0
  \/ \E c \in Consumers : cpc[c] \in {"record", "handle"} /\ log[cur[c]] = log[i]

\* "Consumers retry transient failures" (docs/system-design.md:53): an offset
\* is committed only for messages that are handled.
CommittedIsServed == \A i \in 1..committed : Served(i)

\* The faults after which Run reads on behind a message it has not handled.
Skipping == {"offset", "inbox", "handler", "consumer"}

\* Nothing but those loses a message: not the reassignment of a partition with
\* messages in hand, nor commits that are refused then, nor any publisher.
LostByFaultsOnly == struck \intersect Skipping = {} => CommittedIsServed

\* Publishing, duplicates, two owners of a partition at once: the effect of an
\* event happens after its transaction committed, and once.
Bus == INSTANCE Delivery
         WITH announced <- {e \in Events : rows[e] # "none"}

ImplementsDelivery == Bus!Spec

\* Every committed event takes effect, whatever fails on the way to Kafka and
\* whoever owns the partition, unless Run skips a message.
EveryEventTakesEffect ==
  \A e \in Events : rows[e] # "none" ~> (effects[e] = 1 \/ struck \intersect Skipping # {})
==============================================================================
