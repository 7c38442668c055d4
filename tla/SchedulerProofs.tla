--------------------------- MODULE SchedulerProofs ---------------------------
(***************************************************************************)
(* What holds of Scheduler for every set of requests, keys and workers and *)
(* every batch size: its invariants, and that it implements                *)
(* ReminderSchedule.                                                       *)
(*                                                                         *)
(* The argument is about ownership: a row in a worker's batch is locked by *)
(* that worker and pending, so a row is enqueued by one batch at a time;   *)
(* and a batch with a failed job is aborted, so nothing of it is kept.     *)
(***************************************************************************)
EXTENDS Scheduler, TLAPS

Batch(w) == tx[w].left \union tx[w].ids \union tx[w].failed

\* A worker holds the locks of exactly the rows of its batch, all of them due.
Owned ==
  /\ \A w \in Workers : \A r \in Requests : r \in Batch(w) <=> rowLock[r] = w
  /\ \A r \in Requests : rowLock[r] # Nobody => job[r] = "pending" /\ nextRun[r] <= now
  /\ \A w \in Workers : ~tx[w].running => tx[w] = Idle

OneJobPerKey ==
  \A r, q \in Requests : job[r] # "none" /\ job[q] # "none" /\ KeyOf[r] = KeyOf[q] => r = q

AtItsTime == \A r \in Requests : nextRun[r] = RemindAt[KeyOf[r]]
AtMostOnce == \A r \in Requests : due[r] <= 1

IInv ==
  /\ TypeOK
  /\ Owned
  /\ OneJobPerKey
  /\ AtItsTime
  /\ AtMostOnce
  /\ ProcessedIffAnnounced
  /\ NeverEarly
  /\ FailuresLeaveNoTrace

TxRecord == [running : BOOLEAN, left : SUBSET Requests, ids : SUBSET Requests,
             failed : SUBSET Requests, aborted : BOOLEAN]

LEMMA InitIInv == Init => IInv
  <1> SUFFICES ASSUME Init PROVE IInv
    OBVIOUS
  <1> USE SchedulerAssumption
  <1>1. TypeOK
    BY DEF Init, TypeOK, Idle
  <1>2. Owned
    BY DEF Init, Owned, Batch, Idle
  <1>3. OneJobPerKey
    BY DEF Init, OneJobPerKey
  <1>4. AtItsTime /\ AtMostOnce /\ ProcessedIffAnnounced /\ NeverEarly /\ FailuresLeaveNoTrace
    BY DEF Init, AtItsTime, AtMostOnce, ProcessedIffAnnounced, NeverEarly, FailuresLeaveNoTrace, Idle
  <1> QED BY <1>1, <1>2, <1>3, <1>4 DEF IInv

\* Giving the rows of a batch back keeps ownership exact.
LEMMA ReleaseOwned ==
  ASSUME IInv, NEW w \in Workers, Release(w),
         \A r \in Requests : rowLock[r] \notin {w, Nobody} =>
            job'[r] = "pending" /\ nextRun'[r] <= now',
         job' \in [Requests -> {"none", "pending", "processed", "failed"}],
         nextRun' \in [Requests -> Nat], now' \in Nat
  PROVE  /\ tx' \in [Workers -> TxRecord]
         /\ rowLock' \in [Requests -> Workers \union {Nobody}]
         /\ Owned'
         /\ \A v \in Workers : tx'[v].failed # {} => tx'[v].aborted
  <1> USE SchedulerAssumption DEF IInv, TypeOK, Release, Locked
  <1>1. tx' \in [Workers -> TxRecord]
    BY DEF TxRecord, Idle
  <1>2. rowLock' \in [Requests -> Workers \union {Nobody}]
    OBVIOUS
  <1>3. \A v \in Workers, r \in Requests : r \in Batch(v)' <=> rowLock'[r] = v
    BY DEF Owned, Batch, Idle
  <1>4. \A r \in Requests : rowLock'[r] # Nobody => job'[r] = "pending" /\ nextRun'[r] <= now'
    OBVIOUS
  <1>5. \A v \in Workers : ~tx'[v].running => tx'[v] = Idle
    BY DEF Owned
  <1>6. \A v \in Workers : tx'[v].failed # {} => tx'[v].aborted
    BY DEF FailuresLeaveNoTrace, Idle
  <1> QED BY <1>1, <1>2, <1>3, <1>4, <1>5, <1>6 DEF Owned

LEMMA TickInv == ASSUME IInv, Tick PROVE IInv'
  <1> USE DEF IInv, Tick, table
  <1>1. TypeOK'
    BY DEF TypeOK
  <1>2. Owned'
    BY DEF Owned, Batch, TypeOK
  <1>3. NeverEarly'
    BY SchedulerAssumption DEF NeverEarly, TypeOK
  <1> QED BY <1>1, <1>2, <1>3 DEF OneJobPerKey, AtItsTime, AtMostOnce,
                               ProcessedIffAnnounced, FailuresLeaveNoTrace

LEMMA HandleInv ==
  ASSUME IInv, NEW r \in Requests, HandleRequest(r) \/ HandleFails(r)
  PROVE  IInv'
  <1> USE SchedulerAssumption DEF IInv
  <1>1. CASE HandleRequest(r) /\ InsertJob(r)
    <2> USE <1>1 DEF HandleRequest, InsertJob, KeyTaken
    <2>1. TypeOK'
      BY DEF TypeOK
    <2>2. Owned'
      BY DEF Owned, Batch, TypeOK
    <2>3. OneJobPerKey'
      BY DEF OneJobPerKey, TypeOK
    <2>4. ProcessedIffAnnounced' /\ FailuresLeaveNoTrace'
      BY DEF ProcessedIffAnnounced, FailuresLeaveNoTrace, TypeOK
    <2> QED BY <2>1, <2>2, <2>3, <2>4 DEF AtItsTime, AtMostOnce, NeverEarly
  <1>2. CASE HandleFails(r) \/ (HandleRequest(r) /\ UNCHANGED job)
    <2>1. TypeOK'
      BY <1>2 DEF TypeOK, HandleFails, HandleRequest, Fail, table
    <2>2. UNCHANGED <<now, table, rowLock, tx>>
      BY <1>2 DEF HandleFails, HandleRequest, table
    <2> QED BY <2>1, <2>2 DEF table, Owned, Batch, OneJobPerKey, AtItsTime, AtMostOnce,
                 ProcessedIffAnnounced, NeverEarly, FailuresLeaveNoTrace
  <1> QED BY <1>1, <1>2 DEF HandleRequest

LEMMA FetchInv == ASSUME IInv, NEW w \in Workers, FetchDue(w) PROVE IInv'
  <1> USE SchedulerAssumption DEF IInv
  <1> PICK batch \in SUBSET Requests :
        /\ FirstDue(batch)
        /\ rowLock' = [r \in Requests |-> IF r \in batch THEN w ELSE rowLock[r]]
        /\ tx' = [tx EXCEPT ![w] = [Idle EXCEPT !.running = TRUE, !.left = batch]]
    BY DEF FetchDue
  <1>1. batch \subseteq Due /\ ~tx[w].running /\ UNCHANGED <<now, handled, table, failures>>
    BY DEF FetchDue, FirstDue
  <1>2. tx[w] = Idle /\ \A r \in Requests : rowLock[r] # w
    BY <1>1 DEF Owned, Batch, Idle
  <1>3. TypeOK'
    BY <1>1 DEF TypeOK, Idle, table
  <1>4. Owned'
    <2>1. \A v \in Workers, r \in Requests : r \in Batch(v)' <=> rowLock'[r] = v
      BY <1>1, <1>2 DEF Owned, Batch, Idle, TypeOK, Due
    <2>2. \A r \in Requests : rowLock'[r] # Nobody => job'[r] = "pending" /\ nextRun'[r] <= now'
      BY <1>1 DEF Owned, Due, table, TypeOK
    <2>3. ASSUME NEW v \in Workers, ~tx'[v].running PROVE tx'[v] = Idle
      <3>1. v # w
        BY <2>3 DEF TypeOK, Idle
      <3>2. tx'[v] = tx[v]
        BY <3>1 DEF TypeOK
      <3> QED BY <2>3, <3>2 DEF Owned
    <2> QED BY <2>1, <2>2, <2>3 DEF Owned
  <1>5. FailuresLeaveNoTrace'
    BY <1>1 DEF FailuresLeaveNoTrace, Idle, table, TypeOK
  <1> QED BY <1>1, <1>3, <1>4, <1>5 DEF table, OneJobPerKey, AtItsTime, AtMostOnce,
               ProcessedIffAnnounced, NeverEarly

LEMMA EnqueueInv ==
  ASSUME IInv, NEW w \in Workers, Enqueue(w) \/ EnqueueFails(w)
  PROVE  IInv'
  <1>1. /\ tx \in [Workers -> TxRecord]
        /\ failures \in 0..MaxFailures
        /\ Owned
        /\ \A v \in Workers : tx[v].failed # {} => tx[v].aborted
    BY DEF IInv, TypeOK, TxRecord, FailuresLeaveNoTrace
  <1>2. UNCHANGED <<now, handled, table, rowLock>>
    BY DEF Enqueue, EnqueueFails
  <1>3. PICK r \in tx[w].left :
        \/ tx' = [tx EXCEPT ![w].left = @ \ {r}, ![w].ids = @ \union {r}]
        \/ tx' = [tx EXCEPT ![w].left = @ \ {r}, ![w].failed = @ \union {r},
                            ![w].aborted = TRUE]
    BY DEF Enqueue, EnqueueFails
  <1>4. r \in Requests
    BY <1>1, <1>3 DEF TxRecord
  <1>5. /\ tx' \in [Workers -> TxRecord]
        /\ \A v \in Workers : tx'[v].failed # {} => tx'[v].aborted
    <2>1. CASE tx' = [tx EXCEPT ![w].left = @ \ {r}, ![w].ids = @ \union {r}]
      BY <1>1, <1>4, <2>1 DEF TxRecord
    <2>2. CASE tx' = [tx EXCEPT ![w].left = @ \ {r}, ![w].failed = @ \union {r},
                                ![w].aborted = TRUE]
      BY <1>1, <1>4, <2>2 DEF TxRecord
    <2> QED BY <1>3, <2>1, <2>2
  <1>6. failures' \in 0..MaxFailures
    <2>1. UNCHANGED failures \/ Fail
      BY DEF Enqueue, EnqueueFails
    <2>2. /\ failures \in 0..MaxFailures
          /\ MaxFailures \in Nat
      BY <1>1, SchedulerAssumption DEF SchedulerAssumption
    <2> QED BY <2>1, <2>2 DEF Fail
  <1>7. TypeOK'
    BY <1>2, <1>5, <1>6 DEF IInv, TypeOK, TxRecord, table
  <1>8. tx[w].running
    BY <1>1, <1>3 DEF Owned, Idle
  <1>9. \A v \in Workers : /\ Batch(v)' = Batch(v)
                           /\ tx'[v].running = tx[v].running
                           /\ v # w => tx'[v] = tx[v]
    BY <1>1, <1>3 DEF Batch, TxRecord
  <1>10. Owned'
    BY <1>1, <1>2, <1>8, <1>9 DEF Owned, table
  <1>11. FailuresLeaveNoTrace'
    BY <1>2, <1>5 DEF IInv, FailuresLeaveNoTrace, table
  <1> QED BY <1>2, <1>7, <1>10, <1>11 DEF IInv, table, OneJobPerKey, AtItsTime, AtMostOnce,
               ProcessedIffAnnounced, NeverEarly

\* What a commit does to the table: the rows of ids, nothing else.
LEMMA CommitEffect ==
  ASSUME IInv, NEW w \in Workers, CommitBatch(w)
  PROVE  /\ tx[w].ids \subseteq Requests
         /\ \A r \in tx[w].ids : rowLock[r] = w
         /\ job' = [r \in Requests |-> IF r \in tx[w].ids THEN "processed" ELSE job[r]]
         /\ due' = [r \in Requests |-> IF r \in tx[w].ids THEN due[r] + 1 ELSE due[r]]
         /\ UNCHANGED <<now, attempts, nextRun, dlq>>
  <1> USE DEF IInv, CommitBatch
  <1>1. tx[w].failed = {} /\ tx[w].ids \subseteq Requests
    BY DEF FailuresLeaveNoTrace, TypeOK
  <1>2. \A r \in tx[w].ids : rowLock[r] = w
    BY <1>1 DEF Owned, Batch
  <1>3. job' = [r \in Requests |-> IF r \in tx[w].ids THEN "processed" ELSE job[r]]
    BY <1>1 DEF StatusAfter
  <1>4. UNCHANGED <<attempts, nextRun, dlq>>
    BY <1>1 DEF TypeOK
  <1> QED BY <1>1, <1>2, <1>3, <1>4

LEMMA CommitInv == ASSUME IInv, NEW w \in Workers, CommitBatch(w) PROVE IInv'
  <1> USE SchedulerAssumption DEF IInv
  <1>1. /\ tx[w].ids \subseteq Requests
        /\ \A r \in tx[w].ids : rowLock[r] = w /\ rowLock[r] # Nobody
        /\ job' = [r \in Requests |-> IF r \in tx[w].ids THEN "processed" ELSE job[r]]
        /\ due' = [r \in Requests |-> IF r \in tx[w].ids THEN due[r] + 1 ELSE due[r]]
        /\ UNCHANGED <<now, attempts, nextRun, dlq>>
    BY CommitEffect
  <1>2. Release(w) /\ UNCHANGED <<handled, failures>>
    BY DEF CommitBatch
  <1>3. \A r \in tx[w].ids : job[r] = "pending" /\ due[r] = 0 /\ nextRun[r] <= now
    BY <1>1 DEF Owned, ProcessedIffAnnounced, TypeOK
  <1>4. /\ job' \in [Requests -> {"none", "pending", "processed", "failed"}]
        /\ nextRun' \in [Requests -> Nat] /\ now' \in Nat /\ due' \in [Requests -> Nat]
    BY <1>1 DEF TypeOK
  <1>5. \A r \in Requests : rowLock[r] \notin {w, Nobody} =>
           job'[r] = "pending" /\ nextRun'[r] <= now'
    BY <1>1 DEF Owned
  <1>6. /\ tx' \in [Workers -> TxRecord]
        /\ rowLock' \in [Requests -> Workers \union {Nobody}]
        /\ Owned'
        /\ \A v \in Workers : tx'[v].failed # {} => tx'[v].aborted
    BY <1>2, <1>4, <1>5, ReleaseOwned
  <1>7. TypeOK'
    BY <1>1, <1>2, <1>4, <1>6 DEF TypeOK, TxRecord
  <1>8. OneJobPerKey'
    BY <1>1, <1>3 DEF OneJobPerKey
  <1>9. AtMostOnce' /\ ProcessedIffAnnounced'
    BY <1>1, <1>3 DEF AtMostOnce, ProcessedIffAnnounced, TypeOK
  <1>10. NeverEarly' /\ AtItsTime'
    BY <1>1, <1>3 DEF NeverEarly, AtItsTime, TypeOK
  <1>11. FailuresLeaveNoTrace'
    BY <1>1, <1>3, <1>6 DEF FailuresLeaveNoTrace
  <1> QED BY <1>6, <1>7, <1>8, <1>9, <1>10, <1>11

LEMMA RollbackInv ==
  ASSUME IInv, NEW w \in Workers, AbandonBatch(w) \/ BreakOff(w)
  PROVE  IInv'
  <1> USE SchedulerAssumption DEF IInv
  <1>1. Release(w) /\ UNCHANGED <<now, handled, table>>
    BY DEF AbandonBatch, BreakOff
  <1>2. failures' \in 0..MaxFailures
    BY DEF AbandonBatch, BreakOff, Fail, TypeOK
  <1>3. \A r \in Requests : rowLock[r] \notin {w, Nobody} =>
           job'[r] = "pending" /\ nextRun'[r] <= now'
    BY <1>1 DEF Owned, table
  <1>4. /\ tx' \in [Workers -> TxRecord]
        /\ rowLock' \in [Requests -> Workers \union {Nobody}]
        /\ Owned'
        /\ \A v \in Workers : tx'[v].failed # {} => tx'[v].aborted
    <2>1. /\ job' \in [Requests -> {"none", "pending", "processed", "failed"}]
          /\ nextRun' \in [Requests -> Nat] /\ now' \in Nat
      BY <1>1 DEF TypeOK, table
    <2> QED BY <1>1, <1>3, <2>1, ReleaseOwned
  <1>5. TypeOK'
    BY <1>1, <1>2, <1>4 DEF TypeOK, TxRecord, table
  <1>6. FailuresLeaveNoTrace'
    BY <1>1, <1>4 DEF FailuresLeaveNoTrace, table
  <1> QED BY <1>1, <1>4, <1>5, <1>6 DEF table, OneJobPerKey, AtItsTime, AtMostOnce,
               ProcessedIffAnnounced, NeverEarly

LEMMA StutterInv == ASSUME IInv, UNCHANGED vars PROVE IInv'
  BY DEF IInv, vars, table, TypeOK, Owned, Batch, OneJobPerKey, AtItsTime, AtMostOnce,
         ProcessedIffAnnounced, NeverEarly, FailuresLeaveNoTrace

LEMMA NextIInv == IInv /\ [Next]_vars => IInv'
  <1> SUFFICES ASSUME IInv, [Next]_vars PROVE IInv'
    OBVIOUS
  <1>1. CASE Tick
    BY <1>1, TickInv
  <1>2. CASE \E r \in Requests : HandleRequest(r) \/ HandleFails(r)
    BY <1>2, HandleInv
  <1>3. ASSUME NEW w \in Workers, Step(w) \/ EnqueueFails(w) \/ BreakOff(w) PROVE IInv'
    BY <1>3, FetchInv, EnqueueInv, CommitInv, RollbackInv DEF Step
  <1>4. CASE UNCHANGED vars
    BY <1>4, StutterInv
  <1> QED BY <1>1, <1>2, <1>3, <1>4 DEF Next

LEMMA Inductive == Spec => []IInv
  BY InitIInv, NextIInv, PTL DEF Spec

\* The state of the scheduler is always of its type: the tables, the locks and
\* the batches of processBatch.
THEOREM SchedulerTypeOK == Spec => []TypeOK
  BY Inductive, PTL DEF IInv

\* One due event per appointment, time and channel, for any number of
\* requests, replicas and failures (Insert's ON CONFLICT, FetchDue's locks).
THEOREM SchedulerOneReminderPerKey == Spec => []OneReminderPerKey
  <1>1. IInv => OneReminderPerKey
    BY DEF IInv, OneReminderPerKey, OneJobPerKey, AtMostOnce, ProcessedIffAnnounced
  <1> QED BY <1>1, Inductive, PTL

\* The jobs table and the outbox never disagree (processBatch's transaction).
THEOREM SchedulerProcessedIffAnnounced == Spec => []ProcessedIffAnnounced
  BY Inductive, PTL DEF IInv

\* No due event is committed before remind_at (FetchDue).
THEOREM SchedulerNeverEarly == Spec => []NeverEarly
  BY Inductive, PTL DEF IInv

\* The failure path of processBatch (MarkFailed, enqueueDLQ) never commits
\* anything: the retry count and the dead letters of the code are unreachable.
THEOREM SchedulerFailuresLeaveNoTrace == Spec => []FailuresLeaveNoTrace
  BY Inductive, PTL DEF IInv

----------------------------------------------------------------------------
(* The scheduler implements ReminderSchedule: a tick passes time, an        *)
(* inserted row asks, a commit announces its batch, the rest stutters.      *)

Asked == {KeyOf[r] : r \in {q \in Requests : job[q] # "none"}}
Announced == {KeyOf[r] : r \in {q \in Requests : due[q] > 0}}

LEMMA InitSchedule == Init => Schedule!Init
  BY SchedulerAssumption DEF Init, Schedule!Init

LEMMA InsertAsks ==
  ASSUME IInv, NEW r \in Requests, HandleRequest(r), InsertJob(r)
  PROVE  Schedule!Ask(KeyOf[r])
  <1>1. KeyOf[r] \notin Asked
    BY DEF InsertJob, KeyTaken, Asked
  <1>2. Asked' = Asked \union {KeyOf[r]}
    BY DEF InsertJob, Asked, IInv, TypeOK
  <1> QED BY <1>1, <1>2 DEF Schedule!Ask, Asked, HandleRequest

LEMMA CommitAnnounces ==
  ASSUME IInv, NEW w \in Workers, CommitBatch(w)
  PROVE  (\E batch \in SUBSET Keys : Schedule!Announce(batch)) \/ UNCHANGED Schedule!sched
  <1> USE SchedulerAssumption DEF IInv
  <1> DEFINE batch == {KeyOf[r] : r \in tx[w].ids}
  <1>1. /\ tx[w].ids \subseteq Requests
        /\ \A r \in tx[w].ids : rowLock[r] = w /\ rowLock[r] # Nobody
        /\ job' = [r \in Requests |-> IF r \in tx[w].ids THEN "processed" ELSE job[r]]
        /\ due' = [r \in Requests |-> IF r \in tx[w].ids THEN due[r] + 1 ELSE due[r]]
        /\ UNCHANGED <<now, attempts, nextRun, dlq>>
    BY CommitEffect
  <1>2. \A r \in tx[w].ids :
           job[r] = "pending" /\ due[r] = 0 /\ RemindAt[KeyOf[r]] <= now
    BY <1>1 DEF Owned, ProcessedIffAnnounced, AtItsTime, TypeOK
  <1>3. batch \in SUBSET Keys /\ batch \subseteq Asked
    BY <1>1, <1>2 DEF Asked
  <1>4. batch \intersect Announced = {}
    BY <1>1, <1>2 DEF Announced, OneJobPerKey, ProcessedIffAnnounced, TypeOK
  <1>5. Asked' = Asked
    BY <1>1, <1>2 DEF Asked
  <1>6. Announced' = Announced \union batch
    <2>1. \A r \in Requests : due'[r] > 0 <=> due[r] > 0 \/ r \in tx[w].ids
      BY <1>1 DEF TypeOK
    <2> QED BY <2>1, <1>1 DEF Announced
  <1>7. \A k \in batch : RemindAt[k] <= now
    BY <1>2
  <1>8. CASE batch = {}
    BY <1>1, <1>5, <1>6, <1>8 DEF Schedule!sched, Asked, Announced
  <1>9. CASE batch # {}
    <2> PICK keys \in SUBSET Keys : keys = batch
      BY <1>3
    <2>1. Schedule!Announce(keys)
      BY <1>1, <1>3, <1>4, <1>5, <1>6, <1>7, <1>9 DEF Schedule!Announce, Asked, Announced
    <2> QED BY <2>1
  <1> QED BY <1>8, <1>9

LEMMA NextSchedule == IInv /\ [Next]_vars => [Schedule!Next]_(Schedule!sched)
  <1> SUFFICES ASSUME IInv, [Next]_vars PROVE Schedule!Next \/ UNCHANGED Schedule!sched
    OBVIOUS
  <1>1. CASE Tick
    BY <1>1 DEF Tick, table, Schedule!Next, Schedule!Pass, IInv, TypeOK
  <1>2. ASSUME NEW r \in Requests, HandleRequest(r) \/ HandleFails(r)
        PROVE  Schedule!Next \/ UNCHANGED Schedule!sched
    <2>1. CASE HandleRequest(r) /\ InsertJob(r)
      BY <2>1, InsertAsks, SchedulerAssumption DEF Schedule!Next
    <2>2. CASE HandleFails(r) \/ (HandleRequest(r) /\ UNCHANGED job)
      BY <2>2 DEF HandleFails, HandleRequest, table, Schedule!sched
    <2> QED BY <1>2, <2>1, <2>2 DEF HandleRequest
  <1>3. ASSUME NEW w \in Workers, Step(w) \/ EnqueueFails(w) \/ BreakOff(w)
        PROVE  Schedule!Next \/ UNCHANGED Schedule!sched
    <2>1. CASE CommitBatch(w)
      BY <2>1, CommitAnnounces DEF Schedule!Next
    <2>2. CASE FetchDue(w) \/ Enqueue(w) \/ EnqueueFails(w) \/ AbandonBatch(w) \/ BreakOff(w)
      BY <2>2 DEF FetchDue, Enqueue, EnqueueFails, AbandonBatch, BreakOff, table, Schedule!sched
    <2> QED BY <1>3, <2>1, <2>2 DEF Step
  <1>4. CASE UNCHANGED vars
    BY <1>4 DEF vars, table, Schedule!sched
  <1> QED BY <1>1, <1>2, <1>3, <1>4 DEF Next

\* The scheduler keeps the promise of ReminderSchedule: announced once, of what
\* was asked for, and not before its time (Insert, FetchDue, processBatch).
THEOREM SchedulerImplementsSchedule == Spec => ImplementsSchedule
  BY InitSchedule, Inductive, NextSchedule, PTL DEF Spec, ImplementsSchedule, Schedule!Spec

==============================================================================
