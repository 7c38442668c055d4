------------------------------- MODULE Booking -------------------------------
(***************************************************************************)
(* booking-service: the two handlers that change state (Create behind      *)
(* POST /api/v1/public/book, Cancel behind POST /api/v1/appointments/      *)
(* cancel) and the consumer that keeps the entitlements cache, running     *)
(* concurrently against PostgreSQL at READ COMMITTED.                      *)
(*                                                                         *)
(* A step is one SQL statement (or one remote call) of one handler.  The   *)
(* committed contents of the tables are variables of their own; what a     *)
(* transaction has written and not committed is known from where the       *)
(* transaction stands (pc) and from `pend', so a rollback only forgets.    *)
(* A statement that waits for another transaction is a disabled action.    *)
(*                                                                         *)
(* One Create request inserts at most one row, so the request also names   *)
(* the appointment it may book.  `Keys' stands for pairs (business,        *)
(* idempotency key), the primary key of booking_idempotency_keys.          *)
(***************************************************************************)
EXTENDS Integers, FiniteSets

CONSTANTS
  Requests,      \* requests handled by Create (and the appointments they book)
  Cancels,       \* requests handled by Cancel
  Keys,          \* (business, Idempotency-Key) pairs
  NoKey,         \* the request has no Idempotency-Key header
  NoRow,         \* no committed row
  NoTx,          \* no transaction holds the lock
  Businesses,
  BusinessOf, StaffOf, MonthOf, StartOf, EndOf, KeyOf,  \* fields of a request
  Caps,          \* values of max_monthly_appointments billing may announce
  FreeMax,       \* defaultFreeMax, the cap of a business with no cached row
  Conns,         \* connections of the pool(s) to the booking database
  Reminders      \* (offset, channel) pairs one booking may ask reminders for

Txs == Requests \union Cancels

\* Times satisfy the check of the handler; a key belongs to one business.
ASSUME BookingAssumption ==
  /\ IsFiniteSet(Requests) /\ IsFiniteSet(Cancels)
  /\ Requests \intersect Cancels = {}
  /\ NoTx \notin Txs /\ NoRow \notin Requests /\ NoKey \notin Keys
  /\ BusinessOf \in [Requests -> Businesses]
  /\ StartOf \in [Requests -> Int] /\ EndOf \in [Requests -> Int]
  /\ \A r \in Requests : StartOf[r] < EndOf[r]
  /\ KeyOf \in [Requests -> Keys \union {NoKey}]
  /\ \A r, s \in Requests :
       KeyOf[r] = KeyOf[s] /\ KeyOf[r] # NoKey => BusinessOf[r] = BusinessOf[s]
  /\ Caps \subseteq Nat \ {0} /\ FreeMax \in Nat \ {0}
  /\ \E m \in Caps \union {FreeMax} : \A n \in Caps \union {FreeMax} : n <= m
  /\ Conns \in Nat \ {0}

VARIABLES
  pc,         \* pc[t]: the next statement of transaction t
  code,       \* code[t]: the HTTP status answered, "none" before
  got,        \* got[r]: the appointment_id answered to r
  cap,        \* cap[r]: the local variable max of enforceMonthlyAppointmentLimit
  pend,       \* pend[r]: outbox rows r has inserted and not committed
  target,     \* target[c]: the appointment cancel request c names
  appt,       \* appointments: committed status of each row
  apptLock,   \* the transaction that holds the row FOR UPDATE
  keyRow,     \* booking_idempotency_keys: the committed appointment_id
  keyLock,    \* the transaction that inserted the row or holds it FOR UPDATE
  outbox,     \* committed rows of outbox_events
  ent,        \* business_entitlements: the cached cap, 0 when there is no row
  late        \* history: the requests whose key was recorded before they began

vars == <<pc, code, got, cap, pend, target, appt, apptLock, keyRow, keyLock,
          outbox, ent, late>>

tables == <<appt, apptLock, keyRow, keyLock, outbox, ent>>

\* Create goes through all of these but "update"; Cancel through "idle",
\* "select", "update", "commit", "done".
Pcs == {"idle", "select", "insert", "reselect", "validate", "entitlement",
        "count", "create", "check", "write", "update", "commit", "done"}
Codes == {"none", "200", "201", "replay", "402", "404", "409", "422", "500",
          "503"}

\* Outbox rows.  The third field says what told apart two rows of one type:
\* the transaction that wrote it, or the reminder it asks for.
BookedEvent(r)      == [type |-> "booked", appt |-> r, tag |-> r]
CancelledEvent(a,c) == [type |-> "cancelled", appt |-> a, tag |-> c]
ReminderEvent(r,m)  == [type |-> "reminder", appt |-> r, tag |-> m]
CreateEvents(r, due) == {BookedEvent(r)} \union {ReminderEvent(r, m) : m \in due}
Events == [type : {"booked", "cancelled", "reminder"}, appt : Requests,
           tag : Txs \union Reminders]

TypeOK ==
  /\ pc \in [Txs -> Pcs]
  /\ code \in [Txs -> Codes]
  /\ got \in [Requests -> Requests \union {NoRow}]
  /\ cap \in [Requests -> Nat]
  /\ \A r \in Requests : pc[r] \in {"select", "insert", "reselect"}
                           => KeyOf[r] \in Keys
  /\ \A r \in Requests : pc[r] = "count" => cap[r] \in Caps \union {FreeMax}
  /\ pend \in [Requests -> SUBSET Events]
  /\ target \in [Cancels -> Requests \union {NoRow}]
  /\ \A c \in Cancels : pc[c] \in {"select", "update", "commit"}
                          => target[c] \in Requests
  /\ appt \in [Requests -> {"none", "booked", "cancelled"}]
  /\ apptLock \in [Requests -> Cancels \union {NoTx}]
  /\ keyRow \in [Keys -> Requests \union {NoRow}]
  /\ keyLock \in [Keys -> Requests \union {NoTx}]
  /\ outbox \in SUBSET Events
  /\ ent \in [Businesses -> Caps \union {0}]
  /\ late \in SUBSET Requests
------------------------------------------------------------------------------
(* What a statement sees.  READ COMMITTED: every statement sees what was    *)
(* committed when it started, and its own transaction's writes.             *)

InTx == {t \in Txs : pc[t] \notin {"idle", "done"}}

\* appointments_no_overlap: same staff_id, intersecting '[)' ranges.
Overlap(a, b) ==
  /\ StaffOf[a] = StaffOf[b]
  /\ StartOf[a] < EndOf[b] /\ StartOf[b] < EndOf[a]

Colliding(r) == {a \in Requests \ {r} : Overlap(a, r)}

\* The row of s is in the table and its index, uncommitted.
Inserted(s) == pc[s] \in {"check", "write", "commit"}

\* The row of a is committed, and an uncommitted UPDATE cancels it.
BeingCancelled(a) == \E c \in Cancels : apptLock[a] = c /\ pc[c] = "commit"

PendingCollisionsIgnored(r) == {}
\* Rows the exclusion constraint has to wait for: not yet known to be booked.
PendingCollisions(r) ==
  {a \in Colliding(r) : Inserted(a) \/ (appt[a] = "booked" /\ BeingCancelled(a))}

\* Rows the exclusion constraint rejects at once (SQLSTATE 23P01).
BookedCollisions(r) ==
  {a \in Colliding(r) : appt[a] = "booked" /\ ~BeingCancelled(a)}

\* CountBookedByBusinessInRange, for the business and the UTC month of r.
BookedInMonth(r) ==
  {a \in Requests : /\ appt[a] = "booked"
                    /\ BusinessOf[a] = BusinessOf[r] /\ MonthOf[a] = MonthOf[r]}

CapFromCacheOnly(r) == ent[BusinessOf[r]]
\* The cached entitlement when there is a row, else the default.
EffectiveCap(r) ==
  IF ent[BusinessOf[r]] > 0 THEN ent[BusinessOf[r]] ELSE FreeMax

LimitReached(r) == Cardinality(BookedInMonth(r)) >= cap[r]

RecordNotRecognised(k) == FALSE
\* A record with an appointment and a status is replayed.  A committed row has
\* both: no path of Create commits between the INSERT of the key and
\* FinalizeIdempotency (see Refuse for the attempts to finalize an error).
Replayable(k) == keyRow[k] # NoRow

RowReadUnlocked(a) == TRUE
\* SELECT ... FOR UPDATE on a committed appointment can proceed.
RowFree(a) == apptLock[a] = NoTx

------------------------------------------------------------------------------
(* The end of a transaction.                                                *)

KeysStayLocked(t) == keyLock
KeysAfter(t) == [k \in Keys |-> IF keyLock[k] = t THEN NoTx ELSE keyLock[k]]

AppointmentsAfter(t) ==
  [a \in Requests |-> IF apptLock[a] = t THEN NoTx ELSE apptLock[a]]

Goto(t, l) == pc' = [pc EXCEPT ![t] = l]

\* The handler answers; its transaction is over, with its locks.
Finish(t, c) ==
  /\ Goto(t, "done")
  /\ code' = [code EXCEPT ![t] = c]
  /\ keyLock' = KeysAfter(t)
  /\ apptLock' = AppointmentsAfter(t)

\* Create returns without committing: the deferred Rollback undoes everything.
\* finalizeIdempotencyError is on this path too: it writes appointment_id = ''
\* into a UUID column, PostgreSQL refuses it, and the handler falls back to
\* http.Error, so an error outcome is answered but never recorded.
Refuse(r, c) ==
  /\ Finish(r, c)
  /\ pend' = [pend EXCEPT ![r] = {}]
  /\ UNCHANGED <<got, cap, target, appt, keyRow, outbox, ent, late>>

------------------------------------------------------------------------------
(* Create, in the order of the code.                                        *)

\* Begin: takes a connection of the pool, waits when there is none.
BeginCreate(r) ==
  /\ pc[r] = "idle"
  /\ Cardinality(InTx) < Conns
  /\ Goto(r, IF KeyOf[r] = NoKey THEN "validate" ELSE "select")
  /\ late' = IF KeyOf[r] # NoKey /\ keyRow[KeyOf[r]] # NoRow
             THEN late \union {r} ELSE late
  /\ UNCHANGED <<code, got, cap, pend, target, tables>>

\* LockIdempotencyKey, first SELECT ... FOR UPDATE.  A row another transaction
\* has inserted and not committed is invisible: no rows, on to the INSERT.
KeySelectMisses(r) ==
  /\ pc[r] = "select" /\ keyRow[KeyOf[r]] = NoRow
  /\ Goto(r, "insert")
  /\ UNCHANGED <<code, got, cap, pend, target, tables, late>>

\* It finds the row (waiting for its lock): replay the recorded answer.
KeySelectFinds(r) ==
  LET k == KeyOf[r] IN
  /\ pc[r] = "select" /\ keyRow[k] # NoRow /\ keyLock[k] = NoTx
  /\ IF Replayable(k)
     THEN /\ Finish(r, "replay")
          /\ got' = [got EXCEPT ![r] = keyRow[k]]
     ELSE /\ Goto(r, "validate")
          /\ keyLock' = [keyLock EXCEPT ![k] = r]
          /\ UNCHANGED <<code, got, apptLock>>
  /\ UNCHANGED <<cap, pend, target, appt, keyRow, outbox, ent, late>>

\* INSERT ... ON CONFLICT DO NOTHING inserts, and the second SELECT finds the
\* transaction's own row.
KeyInsert(r) ==
  LET k == KeyOf[r] IN
  /\ pc[r] = "insert" /\ keyRow[k] = NoRow /\ keyLock[k] = NoTx
  /\ keyLock' = [keyLock EXCEPT ![k] = r]
  /\ Goto(r, "validate")
  /\ UNCHANGED <<code, got, cap, pend, target, appt, apptLock, keyRow, outbox,
                 ent, late>>

\* A row was committed since the SELECT: DO NOTHING.
KeyInsertConflicts(r) ==
  /\ pc[r] = "insert" /\ keyRow[KeyOf[r]] # NoRow
  /\ Goto(r, "reselect")
  /\ UNCHANGED <<code, got, cap, pend, target, tables, late>>

\* The second SELECT ... FOR UPDATE reads that row, and LockIdempotencyKey
\* returns exists = false all the same: the request goes on to book.
KeyReselect(r) ==
  LET k == KeyOf[r] IN
  /\ pc[r] = "reselect" /\ keyLock[k] = NoTx
  /\ keyLock' = [keyLock EXCEPT ![k] = r]
  /\ Goto(r, "validate")
  /\ UNCHANGED <<code, got, cap, pend, target, appt, apptLock, keyRow, outbox,
                 ent, late>>

\* validateBookingWithinAvailability asks business-service: inside a window,
\* outside every window (422), or no answer (503).
AvailabilityAccepts(r) ==
  /\ pc[r] = "validate"
  /\ Goto(r, "entitlement")
  /\ UNCHANGED <<code, got, cap, pend, target, tables, late>>

AvailabilityRefuses(r) ==
  /\ pc[r] = "validate"
  /\ \E c \in {"422", "503"} : Refuse(r, c)

\* enforceMonthlyAppointmentLimit: two plain reads, no lock.
ReadEntitlement(r) ==
  /\ pc[r] = "entitlement"
  /\ cap' = [cap EXCEPT ![r] = EffectiveCap(r)]
  /\ Goto(r, "count")
  /\ UNCHANGED <<code, got, pend, target, tables, late>>

CountBelowLimit(r) ==
  /\ pc[r] = "count" /\ ~LimitReached(r)
  /\ Goto(r, "create")
  /\ UNCHANGED <<code, got, cap, pend, target, tables, late>>

CountAtLimit(r) ==
  /\ pc[r] = "count" /\ LimitReached(r)
  /\ Refuse(r, "402")

\* INSERT INTO appointments: the row goes into the table and the index first...
InsertRow(r) ==
  /\ pc[r] = "create"
  /\ Goto(r, "check")
  /\ UNCHANGED <<code, got, cap, pend, target, tables, late>>

\* ... and is then checked against the other rows, waiting for the undecided.
OverlapChecked(r) ==
  /\ pc[r] = "check"
  /\ BookedCollisions(r) = {} /\ PendingCollisions(r) = {}
  /\ Goto(r, "write")
  /\ UNCHANGED <<code, got, cap, pend, target, tables, late>>

OverlapRejected(r) ==
  /\ pc[r] = "check" /\ BookedCollisions(r) # {}
  /\ Refuse(r, "409")

\* Two rows both inserted wait for each other; the deadlock detector aborts
\* one, and 40P01 is not IsConflict.
DeadlockVictim(r) ==
  /\ pc[r] = "check"
  /\ \E s \in Colliding(r) : pc[s] = "check"
  /\ Refuse(r, "500")

\* The rest of the writes of the transaction, with the faults a rewrite of this
\* step could bring: events outside the transaction, a forgotten event, the
\* key finalized on another connection.
WriteEventsOutsideTx(r) ==
  /\ pc[r] = "write"
  /\ outbox' = outbox \union {BookedEvent(r)}
  /\ Goto(r, "commit")
  /\ UNCHANGED <<code, got, cap, pend, target, appt, apptLock, keyRow, keyLock,
                 ent, late>>

WriteRemindersOnly(r) ==
  /\ pc[r] = "write"
  /\ pend' = [pend EXCEPT ![r] = {ReminderEvent(r, m) : m \in Reminders}]
  /\ Goto(r, "commit")
  /\ UNCHANGED <<code, got, cap, target, tables, late>>

WriteEventsFinalizeOutsideTx(r) ==
  /\ pc[r] = "write"
  /\ pend' = [pend EXCEPT ![r] = {BookedEvent(r)}]
  /\ IF KeyOf[r] = NoKey
     THEN UNCHANGED keyRow
     ELSE keyRow' = [keyRow EXCEPT ![KeyOf[r]] = r]
  /\ Goto(r, "commit")
  /\ UNCHANGED <<code, got, cap, target, appt, apptLock, keyLock, outbox, ent,
                 late>>

\* The booked event, the reminders still due (which ones depends on the clock
\* and on the policy of the business), FinalizeIdempotency.  A reminder whose
\* INSERT fails is only logged, but it aborts the transaction: Fail.
WriteEvents(r) ==
  /\ pc[r] = "write"
  /\ \E due \in SUBSET Reminders :
       pend' = [pend EXCEPT ![r] = CreateEvents(r, due)]
  /\ Goto(r, "commit")
  /\ UNCHANGED <<code, got, cap, target, tables, late>>

\* COMMIT makes it all visible at once.  When its acknowledgement is lost the
\* client is answered 500 for a booking that exists.
CommitCreate(r) ==
  /\ pc[r] = "commit"
  /\ \E c \in {"201", "500"} :
       /\ Finish(r, c)
       /\ got' = IF c = "201" THEN [got EXCEPT ![r] = r] ELSE got
  /\ appt' = [appt EXCEPT ![r] = "booked"]
  /\ outbox' = outbox \union pend[r]
  /\ pend' = [pend EXCEPT ![r] = {}]
  /\ IF KeyOf[r] = NoKey
     THEN UNCHANGED keyRow
     ELSE keyRow' = [keyRow EXCEPT ![KeyOf[r]] = r]
  /\ UNCHANGED <<cap, target, ent, late>>

\* Any statement may fail, the client may go away (its context cancels the
\* query), the process may die: the transaction rolls back.
FailCreate(r) ==
  /\ r \in InTx
  /\ Refuse(r, "500")

------------------------------------------------------------------------------
(* Cancel.                                                                  *)

BeginCancel(c) ==
  /\ pc[c] = "idle"
  /\ Cardinality(InTx) < Conns
  /\ \E a \in Requests : target' = [target EXCEPT ![c] = a]
  /\ Goto(c, "select")
  /\ UNCHANGED <<code, got, cap, pend, tables, late>>

RefuseCancel(c, answer) ==
  /\ Finish(c, answer)
  /\ UNCHANGED <<got, cap, pend, target, appt, keyRow, outbox, ent, late>>

\* GetAppointmentForUpdate: no such row, ...
CancelNotFound(c) ==
  /\ pc[c] = "select" /\ appt[target[c]] = "none"
  /\ RefuseCancel(c, "404")

\* ... a row already cancelled (the answer repeats its cancelled_at), ...
CancelAgain(c) ==
  /\ pc[c] = "select" /\ appt[target[c]] = "cancelled" /\ RowFree(target[c])
  /\ RefuseCancel(c, "200")

\* ... or a booked one, which stays locked.
CancelSelect(c) ==
  /\ pc[c] = "select" /\ appt[target[c]] = "booked" /\ RowFree(target[c])
  /\ apptLock' = [apptLock EXCEPT ![target[c]] = c]
  /\ Goto(c, "update")
  /\ UNCHANGED <<code, got, cap, pend, target, appt, keyRow, keyLock, outbox,
                 ent, late>>

\* The UPDATE and the outbox INSERT, both uncommitted.
CancelUpdate(c) ==
  /\ pc[c] = "update"
  /\ Goto(c, "commit")
  /\ UNCHANGED <<code, got, cap, pend, target, tables, late>>

CommitCancel(c) ==
  /\ pc[c] = "commit"
  /\ \E answer \in {"200", "500"} : Finish(c, answer)
  /\ appt' = [appt EXCEPT ![target[c]] = "cancelled"]
  /\ outbox' = outbox \union {CancelledEvent(target[c], c)}
  /\ UNCHANGED <<got, cap, pend, target, keyRow, ent, late>>

FailCancel(c) ==
  /\ c \in InTx
  /\ RefuseCancel(c, "500")

------------------------------------------------------------------------------
(* The consumer of billing's subscription events: one upsert per message,   *)
(* whatever the cached row says and in whatever order messages come.        *)

UpsertEntitlements(b, m) ==
  /\ ent' = [ent EXCEPT ![b] = m]
  /\ UNCHANGED <<pc, code, got, cap, pend, target, appt, apptLock, keyRow,
                 keyLock, outbox, late>>

------------------------------------------------------------------------------
Init ==
  /\ pc = [t \in Txs |-> "idle"]
  /\ code = [t \in Txs |-> "none"]
  /\ got = [r \in Requests |-> NoRow]
  /\ cap = [r \in Requests |-> 0]
  /\ pend = [r \in Requests |-> {}]
  /\ target = [c \in Cancels |-> NoRow]
  /\ appt = [r \in Requests |-> "none"]
  /\ apptLock = [r \in Requests |-> NoTx]
  /\ keyRow = [k \in Keys |-> NoRow]
  /\ keyLock = [k \in Keys |-> NoTx]
  /\ outbox = {}
  /\ ent = [b \in Businesses |-> 0]
  /\ late = {}

\* What a request does by itself once it has a connection.
CreateStep(r) ==
  \/ KeySelectMisses(r) \/ KeySelectFinds(r)
  \/ KeyInsert(r) \/ KeyInsertConflicts(r) \/ KeyReselect(r)
  \/ AvailabilityAccepts(r) \/ AvailabilityRefuses(r)
  \/ ReadEntitlement(r) \/ CountBelowLimit(r) \/ CountAtLimit(r)
  \/ InsertRow(r) \/ OverlapChecked(r) \/ OverlapRejected(r)
  \/ DeadlockVictim(r) \/ WriteEvents(r) \/ CommitCreate(r)

CancelStep(c) ==
  \/ CancelNotFound(c) \/ CancelAgain(c) \/ CancelSelect(c)
  \/ CancelUpdate(c) \/ CommitCancel(c)

Next ==
  \/ \E r \in Requests : BeginCreate(r) \/ CreateStep(r) \/ FailCreate(r)
  \/ \E c \in Cancels : BeginCancel(c) \/ CancelStep(c) \/ FailCancel(c)
  \/ \E b \in Businesses, m \in Caps : UpsertEntitlements(b, m)

Spec == Init /\ [][Next]_vars

\* The database answers, the availability call has a 3 s timeout, lock waits
\* end with the transaction waited for and the deadlock detector runs: a
\* request that can go on does.  Begin gets a connection when one stays free.
Fairness ==
  /\ \A r \in Requests : WF_vars(CreateStep(r)) /\ WF_vars(BeginCreate(r))
  /\ \A c \in Cancels : WF_vars(CancelStep(c)) /\ WF_vars(BeginCancel(c))

FairSpec == Spec /\ Fairness

(* Properties.                                                              *)

\* No staff member has two committed booked appointments that overlap,
\* whatever the interleaving of concurrent bookings and cancellations
\* (docs/phases.md: "Concurrent booking attempts do not double-book").
NoDoubleBooking ==
  \A a, b \in Requests :
    a # b /\ Overlap(a, b) => ~(appt[a] = "booked" /\ appt[b] = "booked")

\* The transactional outbox: an event is there exactly when the state change
\* it announces is, through failures at any statement of either handler.
OutboxMatchesAppointments ==
  \A a \in Requests :
    /\ BookedEvent(a) \in outbox <=> appt[a] # "none"
    /\ appt[a] = "cancelled" <=> \E c \in Cancels : CancelledEvent(a, c) \in outbox
    /\ \A m \in Reminders : ReminderEvent(a, m) \in outbox => appt[a] # "none"

\* Concurrent and repeated Cancel calls announce one cancellation: the row
\* lock makes the second one see the first.
SingleCancellation ==
  \A a \in Requests, c, d \in Cancels :
    CancelledEvent(a, c) \in outbox /\ CancelledEvent(a, d) \in outbox => c = d

\* What the idempotency table records, and what a client is told, names an
\* appointment that was really booked, and booked under the same key.
RecordsNameBookings ==
  /\ \A k \in Keys : keyRow[k] # NoRow =>
       appt[keyRow[k]] # "none" /\ KeyOf[keyRow[k]] = k
  /\ \A r \in Requests : code[r] \in {"201", "replay"} =>
       appt[got[r]] # "none" /\ KeyOf[got[r]] = KeyOf[r]

\* A duplicate that starts after its key was recorded never books, never meets
\* a check again, and never reports a conflict with its own first attempt.
LateDuplicateNeverBooks ==
  \A r \in late :
    /\ appt[r] = "none"
    /\ code[r] \in {"none", "replay", "500"}

\* The monthly cap is checked by a read nothing protects, so concurrent
\* bookings overshoot it; but only as far as the connection pool lets
\* transactions run at once.
HighestCap == CHOOSE m \in Caps \union {FreeMax} : \A n \in Caps \union {FreeMax} : n <= m

CapOvershootBounded ==
  \A r \in Requests : Cardinality(BookedInMonth(r)) <= HighestCap + Conns - 1

\* What README.md and the handler promise: never more booked appointments in a
\* month than the cap.
MonthlyCap ==
  \A r \in Requests : Cardinality(BookedInMonth(r)) <= HighestCap

\* What the runbook promises: "Repeat the same request with the same
\* Idempotency-Key to get the same appointment_id".
SameKeySameAppointment ==
  \A r, s \in Requests :
    /\ KeyOf[r] = KeyOf[s] /\ KeyOf[r] # NoKey
    /\ code[r] \in {"201", "replay"} /\ code[s] \in {"201", "replay"}
    => got[r] = got[s]

\* Every request gets a connection and is answered: waits on the pool, keys, rows
\* and the exclusion constraint never close a cycle that nobody breaks.
EveryRequestAnswered ==
  \A t \in Txs : <>(pc[t] = "done")

\* The committed tables behave like the abstract book of appointments.
Told == {e \in outbox : e.type # "reminder"}
Announced == {<<e.type, e.appt>> : e \in Told}

Book == INSTANCE AppointmentBook
          WITH Appointments <- Requests, status <- appt, announced <- Announced

ImplementsBook == Book!Spec
==============================================================================
