------------------------------ MODULE Scheduler ------------------------------
(***************************************************************************)
(* The scheduler-service: the handler that turns a reminder request into a *)
(* row of scheduler_jobs, and the Worker of every replica that moves due   *)
(* rows to the outbox (internal/jobs).  A batch is one transaction: its    *)
(* rows are locked with FOR UPDATE SKIP LOCKED, and what it writes is seen *)
(* at its commit, so the model applies a batch's writes there.             *)
(*                                                                         *)
(* A statement that fails aborts the transaction: PostgreSQL refuses every *)
(* later statement of it (25P02), and a lost connection has the same       *)
(* effect.  That is what an error of outbox.Insert does to its batch.      *)
(***************************************************************************)
EXTENDS Integers, FiniteSets

CONSTANTS
  Requests,    \* booking.reminder.requested.v1 events, valid ones
  Keys,        \* idempotency keys: appointment_id|remind_at|channel
  KeyOf,       \* the key of each request
  RemindAt,    \* the remind_at a key names
  Workers,     \* replicas of the service
  Nobody,      \* no worker's transaction holds the row
  BatchSize,   \* LIMIT of FetchDue
  Backoff,     \* SCHEDULER_BACKOFF_SECONDS
  MaxAttempts, \* column default of max_attempts
  Horizon,     \* bound: the last instant of the model
  MaxFailures  \* bound: failed statements and crashes in one behaviour

ASSUME SchedulerAssumption ==
  /\ KeyOf \in [Requests -> Keys]
  /\ RemindAt \in [Keys -> Nat]
  /\ Nobody \notin Workers
  /\ BatchSize \in Nat \ {0}
  /\ Backoff \in Nat \ {0}
  /\ MaxAttempts \in Nat \ {0}
  /\ Horizon \in Nat
  /\ MaxFailures \in Nat

VARIABLES
  now,       \* time, the same for every transaction that begins at it
  handled,   \* requests whose handler has returned
  job,       \* job[r]: status of the row request r inserted; "none": no row
  attempts,  \* its attempts
  nextRun,   \* its next_run_at
  rowLock,   \* the worker whose transaction holds the row
  tx,        \* tx[w]: the batch of w
  due,       \* due[r]: committed scheduler.reminder.due.v1 events of the row
  dlq,       \* dlq[r]: committed scheduler.reminder.dlq.v1 events of the row
  failures   \* failures so far

table == <<job, attempts, nextRun, due, dlq>>
vars == <<now, handled, table, rowLock, tx, failures>>

Idle == [running |-> FALSE, left |-> {}, ids |-> {}, failed |-> {}, aborted |-> FALSE]

TypeOK ==
  /\ now \in Nat
  /\ handled \subseteq Requests
  /\ job \in [Requests -> {"none", "pending", "processed", "failed"}]
  /\ attempts \in [Requests -> Nat]
  /\ nextRun \in [Requests -> Nat]
  /\ rowLock \in [Requests -> Workers \union {Nobody}]
  /\ tx \in [Workers -> [running : BOOLEAN, left : SUBSET Requests, ids : SUBSET Requests,
                         failed : SUBSET Requests, aborted : BOOLEAN]]
  /\ due \in [Requests -> Nat]
  /\ dlq \in [Requests -> Nat]
  /\ failures \in 0..MaxFailures

\* Insert leaves next_run_at to its column default, now().
InitRunsAtOnce ==
  /\ now = 0
  /\ handled = {}
  /\ job = [r \in Requests |-> "none"]
  /\ rowLock = [r \in Requests |-> Nobody]
  /\ tx = [w \in Workers |-> Idle]
  /\ attempts = [r \in Requests |-> 0]
  /\ nextRun = attempts
  /\ due = attempts
  /\ dlq = attempts
  /\ failures = 0

Init ==
  /\ now = 0
  /\ handled = {}
  /\ job = [r \in Requests |-> "none"]
  /\ attempts = [r \in Requests |-> 0]
  /\ nextRun = [r \in Requests |-> RemindAt[KeyOf[r]]]
  /\ rowLock = [r \in Requests |-> Nobody]
  /\ tx = [w \in Workers |-> Idle]
  /\ due = [r \in Requests |-> 0]
  /\ dlq = [r \in Requests |-> 0]
  /\ failures = 0

Tick ==
  /\ now < Horizon
  /\ now' = now + 1
  /\ UNCHANGED <<handled, table, rowLock, tx, failures>>

Fail == failures < MaxFailures /\ failures' = failures + 1

----------------------------------------------------------------------------
(* The consumer's handler: one transaction of one statement, applied whole. *)

\* UNIQUE (idempotency_key): another handler's uncommitted row is waited for.
KeyTaken(r) == \E q \in Requests : KeyOf[q] = KeyOf[r] /\ job[q] # "none"

InsertJob(r) ==
  /\ ~KeyTaken(r)
  /\ job' = [job EXCEPT ![r] = "pending"]

HandleRequest(r) ==
  /\ r \notin handled
  /\ handled' = handled \union {r}
  /\ \/ InsertJob(r)
     \/ KeyTaken(r) /\ UNCHANGED job   \* ON CONFLICT DO NOTHING
  /\ UNCHANGED <<now, attempts, nextRun, due, dlq, rowLock, tx, failures>>

\* Begin, Insert or Commit fails.  The consumer logs it and the inbox keeps
\* the request from coming back (module EventDelivery).
HandleFails(r) ==
  /\ r \notin handled
  /\ Fail
  /\ handled' = handled \union {r}
  /\ UNCHANGED <<now, table, rowLock, tx>>

----------------------------------------------------------------------------
(* Worker.processBatch.                                                     *)

LockedRowsDue == {r \in Requests : job[r] = "pending" /\ nextRun[r] <= now}
Due == {r \in Requests : /\ job[r] = "pending"
                         /\ nextRun[r] <= now
                         /\ rowLock[r] = Nobody}

\* ORDER BY next_run_at LIMIT BatchSize
FirstDue(batch) ==
  /\ batch \subseteq Due
  /\ Cardinality(batch) <= BatchSize
  /\ Cardinality(batch) < BatchSize => batch = Due
  /\ \A r \in batch, q \in Due \ batch : nextRun[r] <= nextRun[q]

\* A query that fails or finds no row ends the transaction as it began.
FetchDue(w) ==
  /\ ~tx[w].running
  /\ \E batch \in SUBSET Requests :
       /\ batch # {}
       /\ FirstDue(batch)
       /\ rowLock' = [r \in Requests |-> IF r \in batch THEN w ELSE rowLock[r]]
       /\ tx' = [tx EXCEPT ![w] = [Idle EXCEPT !.running = TRUE, !.left = batch]]
  /\ UNCHANGED <<now, handled, table, failures>>

NextInBatch(w, r) ==
  /\ r \in tx[w].left
  /\ \A q \in tx[w].left : nextRun[r] <= nextRun[q]

Enqueue(w) ==
  /\ ~tx[w].aborted
  /\ \E r \in tx[w].left :
       /\ NextInBatch(w, r)
       /\ tx' = [tx EXCEPT ![w].left = @ \ {r}, ![w].ids = @ \union {r}]
  /\ UNCHANGED <<now, handled, table, rowLock, failures>>

\* As if every Insert had a savepoint of its own.
EnqueueFailsAlone(w) ==
  /\ Fail
  /\ \E r \in tx[w].left :
       /\ NextInBatch(w, r)
       /\ tx' = [tx EXCEPT ![w].left = @ \ {r}, ![w].failed = @ \union {r}]
  /\ UNCHANGED <<now, handled, table, rowLock>>

\* The first failure aborts the transaction, and every later Insert fails too.
EnqueueFails(w) ==
  /\ IF tx[w].aborted THEN UNCHANGED failures ELSE Fail
  /\ \E r \in tx[w].left :
       /\ NextInBatch(w, r)
       /\ tx' = [tx EXCEPT ![w].left = @ \ {r}, ![w].failed = @ \union {r},
                           ![w].aborted = TRUE]
  /\ UNCHANGED <<now, handled, table, rowLock>>

StatusOfFailuresOnly(w, r) ==
  IF r \in tx[w].failed /\ attempts[r] + 1 >= MaxAttempts THEN "failed" ELSE job[r]
\* MarkProcessed for ids; MarkFailed and enqueueDLQ for failed.
StatusAfter(w, r) ==
  IF r \in tx[w].ids THEN "processed"
  ELSE IF r \in tx[w].failed /\ attempts[r] + 1 >= MaxAttempts THEN "failed"
  ELSE job[r]

Locked(w) == {r \in Requests : rowLock[r] = w}
ReleaseKeepsLocks(w) == UNCHANGED rowLock /\ tx' = [tx EXCEPT ![w] = Idle]
Release(w) ==
  /\ rowLock' = [r \in Requests |-> IF r \in Locked(w) THEN Nobody ELSE rowLock[r]]
  /\ tx' = [tx EXCEPT ![w] = Idle]

BatchDone(w) == tx[w].running /\ tx[w].left = {}

CommitBatch(w) ==
  LET failed == tx[w].failed IN
  /\ BatchDone(w)
  /\ ~tx[w].aborted
  /\ job' = [r \in Requests |-> StatusAfter(w, r)]
  /\ attempts' = [r \in Requests |-> IF r \in failed THEN attempts[r] + 1 ELSE attempts[r]]
  /\ nextRun' = [r \in Requests |-> IF r \in failed THEN now + Backoff ELSE nextRun[r]]
  /\ due' = [r \in Requests |-> IF r \in tx[w].ids THEN due[r] + 1 ELSE due[r]]
  /\ dlq' = [r \in Requests |->
               IF r \in failed /\ attempts[r] + 1 >= MaxAttempts THEN dlq[r] + 1 ELSE dlq[r]]
  /\ Release(w)
  /\ UNCHANGED <<now, handled, failures>>

\* MarkProcessed or MarkFailed meets the aborted transaction; its error is
\* returned and the deferred Rollback undoes the batch.
AbandonBatch(w) ==
  /\ BatchDone(w)
  /\ tx[w].aborted
  /\ Release(w)
  /\ UNCHANGED <<now, handled, table, failures>>

\* A statement after the loop or the commit fails, or the replica stops.
BreakOff(w) ==
  /\ tx[w].running
  /\ Fail
  /\ Release(w)
  /\ UNCHANGED <<now, handled, table>>

----------------------------------------------------------------------------
Step(w) == FetchDue(w) \/ Enqueue(w) \/ CommitBatch(w) \/ AbandonBatch(w)

Next ==
  \/ Tick
  \/ \E r \in Requests : HandleRequest(r) \/ HandleFails(r)
  \/ \E w \in Workers : Step(w) \/ EnqueueFails(w) \/ BreakOff(w)

Spec == Init /\ [][Next]_vars

\* The ticker of a replica never stops, and a batch that was begun goes on:
\* with the next Insert while the transaction lives, without it afterwards.
Fairness ==
  /\ WF_vars(Tick)
  /\ \A w \in Workers :
       /\ WF_vars(Step(w))
       /\ WF_vars(tx[w].aborted /\ EnqueueFails(w))

FairSpec == Spec /\ Fairness

----------------------------------------------------------------------------
(* Properties.                                                              *)

\* However requests repeat and workers race, a key (appointment, time,
\* channel) gets one due event: INSERT ... ON CONFLICT (jobs.Repository.Insert)
\* and FOR UPDATE SKIP LOCKED (FetchDue) together.
OneReminderPerKey ==
  \A r, q \in Requests :
    /\ due[r] <= 1
    /\ due[r] > 0 /\ due[q] > 0 /\ KeyOf[r] = KeyOf[q] => r = q

\* The outbox and the jobs table agree: a row is processed exactly when its
\* due event was committed with it (processBatch's single transaction).
ProcessedIffAnnounced == \A r \in Requests : job[r] = "processed" <=> due[r] > 0

\* No reminder is announced before its time (next_run_at <= now() in FetchDue,
\* next_run_at = remind_at in Insert, pushed back only by MarkFailed).
NeverEarly == \A r \in Requests : due[r] > 0 => RemindAt[KeyOf[r]] <= now

\* A batch in which an enqueue failed leaves no trace at all: processBatch
\* collects the failed jobs and goes on, but the transaction it goes on in is
\* dead, so no attempt is ever counted, no sibling of a failed job is processed
\* in its batch, and no dead letter is ever written, whatever the runbook says
\* (docs/runbook/local-dev.md:483).
FailuresLeaveNoTrace ==
  /\ \A r \in Requests : attempts[r] = 0 /\ dlq[r] = 0 /\ job[r] # "failed"
  /\ \A w \in Workers : tx[w].failed # {} => tx[w].aborted

\* Every job is announced in the end, whatever fails on the way, if failures
\* end: a broken-off or abandoned batch gives its rows back (the deferred
\* Rollback) and is fetched again.
EveryJobAnnounced == \A r \in Requests : job[r] = "pending" ~> due[r] > 0

\* The scheduler keeps the promise of ReminderSchedule.
Schedule ==
  INSTANCE ReminderSchedule WITH
    clock <- now,
    asked <- {KeyOf[r] : r \in {q \in Requests : job[q] # "none"}},
    announced <- {KeyOf[r] : r \in {q \in Requests : due[q] > 0}}

ImplementsSchedule == Schedule!Spec

==============================================================================
