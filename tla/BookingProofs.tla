---------------------------- MODULE BookingProofs ----------------------------
(***************************************************************************)
(* Theorems about module Booking, for every set of requests, keys, times   *)
(* and caps that satisfies BookingAssumption.                              *)
(***************************************************************************)
EXTENDS Booking, FiniteSetTheorems, TLAPS

\* The steps of a transaction that end it without committing.
Refusal(r) ==
  \/ r \in InTx /\ Refuse(r, "500")
  \/ \E c \in {"402", "409", "422", "503"} :
       pc[r] \in {"validate", "count", "check"} /\ Refuse(r, c)
CancelRefusal(c) == \/ CancelNotFound(c) \/ CancelAgain(c) \/ FailCancel(c)

\* The cases of a step, for every proof below.
LEMMA StepCases ==
  ASSUME [Next]_vars
  PROVE  \/ \E r \in Requests :
              \/ Refusal(r) \/ BeginCreate(r) \/ KeySelectMisses(r)
              \/ KeySelectFinds(r) \/ KeyInsert(r) \/ KeyInsertConflicts(r)
              \/ KeyReselect(r) \/ AvailabilityAccepts(r) \/ ReadEntitlement(r)
              \/ CountBelowLimit(r) \/ InsertRow(r) \/ OverlapChecked(r)
              \/ WriteEvents(r) \/ CommitCreate(r)
         \/ \E c \in Cancels :
              \/ BeginCancel(c) \/ CancelRefusal(c) \/ CancelSelect(c)
              \/ CancelUpdate(c) \/ CommitCancel(c)
         \/ \E b \in Businesses, m \in Caps : UpsertEntitlements(b, m)
         \/ UNCHANGED vars
<1> USE DEF Refusal, InTx, Txs, Codes
<1>1. ASSUME NEW r \in Requests, AvailabilityRefuses(r) PROVE Refusal(r)
  BY <1>1 DEF AvailabilityRefuses
<1>2. ASSUME NEW r \in Requests, CountAtLimit(r) PROVE Refusal(r)
  BY <1>2 DEF CountAtLimit
<1>3. ASSUME NEW r \in Requests, OverlapRejected(r) PROVE Refusal(r)
  BY <1>3 DEF OverlapRejected
<1>4. ASSUME NEW r \in Requests, DeadlockVictim(r) PROVE Refusal(r)
  BY <1>4 DEF DeadlockVictim
<1>5. ASSUME NEW r \in Requests, FailCreate(r) PROVE Refusal(r)
  BY <1>5 DEF FailCreate
<1> HIDE DEF Refusal
<1> QED
  BY <1>1, <1>2, <1>3, <1>4, <1>5 DEF Next, CreateStep, CancelStep, CancelRefusal

\* Every variable keeps its type, through every statement of both handlers.
THEOREM TypeCorrect == Spec => []TypeOK
<1>1. Init => TypeOK
  BY BookingAssumption DEF Init, TypeOK, Txs, Pcs, Codes
<1>2. TypeOK /\ [Next]_vars => TypeOK'
  <2> SUFFICES ASSUME TypeOK, [Next]_vars PROVE TypeOK'
    OBVIOUS
  <2> USE BookingAssumption DEF TypeOK, Txs, Pcs, Codes, tables, Goto
  <2>1. ASSUME NEW r \in Requests, Refusal(r) PROVE TypeOK'
    BY <2>1 DEF Refusal, Refuse, Finish, KeysAfter, AppointmentsAfter
  <2>2. ASSUME NEW r \in Requests, BeginCreate(r) PROVE TypeOK'
    BY <2>2 DEF BeginCreate
  <2>3. ASSUME NEW r \in Requests, KeySelectMisses(r) PROVE TypeOK'
    BY <2>3 DEF KeySelectMisses
  <2>4. ASSUME NEW r \in Requests, KeySelectFinds(r) PROVE TypeOK'
    BY <2>4 DEF KeySelectFinds, Finish, KeysAfter, AppointmentsAfter
  <2>5. ASSUME NEW r \in Requests, KeyInsert(r) PROVE TypeOK'
    BY <2>5 DEF KeyInsert
  <2>6. ASSUME NEW r \in Requests, KeyInsertConflicts(r) PROVE TypeOK'
    BY <2>6 DEF KeyInsertConflicts
  <2>7. ASSUME NEW r \in Requests, KeyReselect(r) PROVE TypeOK'
    BY <2>7 DEF KeyReselect
  <2>8. ASSUME NEW r \in Requests, AvailabilityAccepts(r) PROVE TypeOK'
    BY <2>8 DEF AvailabilityAccepts
  <2>9. ASSUME NEW r \in Requests, ReadEntitlement(r) PROVE TypeOK'
    <3>1. EffectiveCap(r) \in Caps \union {FreeMax}
      BY DEF EffectiveCap
    <3> QED
      BY <3>1, <2>9 DEF ReadEntitlement
  <2>10. ASSUME NEW r \in Requests, CountBelowLimit(r) PROVE TypeOK'
    BY <2>10 DEF CountBelowLimit
  <2>11. ASSUME NEW r \in Requests, InsertRow(r) PROVE TypeOK'
    BY <2>11 DEF InsertRow
  <2>12. ASSUME NEW r \in Requests, OverlapChecked(r) PROVE TypeOK'
    BY <2>12 DEF OverlapChecked
  <2>13. ASSUME NEW r \in Requests, WriteEvents(r) PROVE TypeOK'
    BY <2>13 DEF WriteEvents, CreateEvents, Events, BookedEvent, ReminderEvent
  <2>14. ASSUME NEW r \in Requests, CommitCreate(r) PROVE TypeOK'
    BY <2>14 DEF CommitCreate, Finish, KeysAfter, AppointmentsAfter
  <2>15. ASSUME NEW c \in Cancels, BeginCancel(c) PROVE TypeOK'
    BY <2>15 DEF BeginCancel
  <2>16. ASSUME NEW c \in Cancels, CancelRefusal(c) PROVE TypeOK'
    BY <2>16 DEF CancelRefusal, CancelNotFound, CancelAgain, FailCancel,
                 RefuseCancel, Finish, KeysAfter, AppointmentsAfter
  <2>17. ASSUME NEW c \in Cancels, CancelSelect(c) PROVE TypeOK'
    BY <2>17 DEF CancelSelect
  <2>18. ASSUME NEW c \in Cancels, CancelUpdate(c) PROVE TypeOK'
    BY <2>18 DEF CancelUpdate
  <2>19. ASSUME NEW c \in Cancels, CommitCancel(c) PROVE TypeOK'
    BY <2>19 DEF CommitCancel, Finish, KeysAfter, AppointmentsAfter, Events,
                 CancelledEvent
  <2>20. ASSUME NEW b \in Businesses, NEW m \in Caps, UpsertEntitlements(b, m)
         PROVE TypeOK'
    BY <2>20 DEF UpsertEntitlements
  <2>21. CASE UNCHANGED vars
    BY <2>21 DEF vars
  <2> HIDE DEF TypeOK, Txs, Pcs, Codes, tables, Goto
  <2> QED
    BY StepCases, <2>1, <2>2, <2>3, <2>4, <2>5, <2>6, <2>7, <2>8, <2>9, <2>10,
       <2>11, <2>12, <2>13, <2>14, <2>15, <2>16, <2>17, <2>18, <2>19, <2>20,
       <2>21
<1> QED
  BY <1>1, <1>2, PTL DEF Spec

------------------------------------------------------------------------------
\* The claim a transaction has on its time once its row passed the constraint,
\* and a committed booking until its cancellation commits.
Claimed(a) == appt[a] = "booked" \/ pc[a] \in {"write", "commit"}

\* The strengthening of NoDoubleBooking: claims, not only bookings, exclude
\* each other.  NoDoubleBooking alone is not inductive, for two transactions
\* could both be about to commit.
ClaimsExclusive ==
  \A a, b \in Requests : a # b /\ Overlap(a, b) => ~(Claimed(a) /\ Claimed(b))

\* A claim appears in one way only, by passing the check of the constraint.
LEMMA ClaimsOnlyByCheck ==
  ASSUME TypeOK, [Next]_vars,
         NEW a \in Requests, ~Claimed(a), Claimed(a)'
  PROVE  OverlapChecked(a)
<1> USE BookingAssumption DEF TypeOK, Txs, Claimed, Goto, tables
<1>1. ASSUME NEW r \in Requests, Refusal(r) PROVE FALSE
  BY <1>1 DEF Refusal, Refuse, Finish
<1>2. ASSUME NEW r \in Requests,
             BeginCreate(r) \/ KeySelectMisses(r) \/ KeySelectFinds(r)
             \/ KeyInsert(r) \/ KeyInsertConflicts(r) \/ KeyReselect(r)
      PROVE  FALSE
  BY <1>2 DEF BeginCreate, KeySelectMisses, KeySelectFinds, KeyInsert,
              KeyInsertConflicts, KeyReselect, Finish
<1>3. ASSUME NEW r \in Requests,
             AvailabilityAccepts(r) \/ ReadEntitlement(r) \/ CountBelowLimit(r)
             \/ InsertRow(r)
      PROVE  FALSE
  BY <1>3 DEF AvailabilityAccepts, ReadEntitlement, CountBelowLimit, InsertRow
<1>4. ASSUME NEW r \in Requests, OverlapChecked(r) PROVE r = a
  BY <1>4 DEF OverlapChecked
<1>5. ASSUME NEW r \in Requests, WriteEvents(r) \/ CommitCreate(r) PROVE FALSE
  BY <1>5 DEF WriteEvents, CommitCreate, Finish
<1>6. ASSUME NEW c \in Cancels,
             BeginCancel(c) \/ CancelSelect(c) \/ CancelUpdate(c)
             \/ CancelRefusal(c) \/ CommitCancel(c)
      PROVE  FALSE
  BY <1>6 DEF BeginCancel, CancelSelect, CancelUpdate, CancelRefusal,
              CancelNotFound, CancelAgain, FailCancel, RefuseCancel,
              CommitCancel, Finish
<1>7. ASSUME NEW b \in Businesses, NEW m \in Caps, UpsertEntitlements(b, m)
      PROVE  FALSE
  BY <1>7 DEF UpsertEntitlements
<1>8. CASE UNCHANGED vars
  BY <1>8 DEF vars
<1> HIDE DEF TypeOK, Txs, Claimed, Goto, tables
<1> QED
  BY StepCases, <1>1, <1>2, <1>3, <1>4, <1>5, <1>6, <1>7, <1>8

\* What passing the check establishes.
LEMMA CheckFindsNoClaim ==
  ASSUME TypeOK, NEW r \in Requests, OverlapChecked(r), NEW a \in Requests,
         a # r, Overlap(a, r)
  PROVE  ~Claimed(a) /\ ~Claimed(a)'
<1>1. a \in Colliding(r)
  BY DEF Colliding
<1>2. ~Inserted(a) /\ appt[a] # "booked"
  BY <1>1 DEF OverlapChecked, BookedCollisions, PendingCollisions
<1>3. pc'[a] = pc[a] /\ appt' = appt
  BY DEF OverlapChecked, Goto, TypeOK, Txs, tables
<1> QED
  BY <1>2, <1>3 DEF Claimed, Inserted

\* The exclusion constraint, as used by concurrent Create and Cancel calls,
\* never lets two overlapping appointments of a staff member stand.
THEOREM NeverDoubleBooked == Spec => []NoDoubleBooking
<1>1. Init => ClaimsExclusive
  BY DEF Init, ClaimsExclusive, Claimed, Txs
<1>2. TypeOK /\ ClaimsExclusive /\ [Next]_vars => ClaimsExclusive'
  <2> SUFFICES ASSUME TypeOK, ClaimsExclusive, [Next]_vars,
                      NEW a \in Requests, NEW b \in Requests, a # b,
                      Overlap(a, b), Claimed(a)', Claimed(b)'
               PROVE  FALSE
    BY DEF ClaimsExclusive, Overlap
  <2>1. Overlap(b, a)
    BY DEF Overlap
  <2>2. CASE ~Claimed(a)
    BY <2>1, <2>2, ClaimsOnlyByCheck, CheckFindsNoClaim
  <2>3. CASE ~Claimed(b)
    BY <2>3, ClaimsOnlyByCheck, CheckFindsNoClaim
  <2> QED
    BY <2>2, <2>3 DEF ClaimsExclusive
<1>3. ClaimsExclusive => NoDoubleBooking
  BY DEF ClaimsExclusive, NoDoubleBooking, Claimed
<1> QED
  BY <1>1, <1>2, <1>3, TypeCorrect, PTL DEF Spec

------------------------------------------------------------------------------
\* Where a transaction stands and what it may commit: a row is only ever
\* committed by the last step of its request; before that step the pending
\* events are those of the booking; a cancellation past its SELECT holds the
\* lock of a row that is still booked.
Lifecycle ==
  /\ \A r \in Requests : appt[r] # "none" => pc[r] = "done"
  /\ \A r \in Requests : pc[r] = "commit" =>
       \E due \in SUBSET Reminders : pend[r] = CreateEvents(r, due)
  /\ \A c \in Cancels : pc[c] \in {"update", "commit"} =>
       apptLock[target[c]] = c /\ appt[target[c]] = "booked"

LEMMA LifecycleStep ==
  TypeOK /\ Lifecycle /\ [Next]_vars => Lifecycle'
<1> SUFFICES ASSUME TypeOK, Lifecycle, [Next]_vars PROVE Lifecycle'
  OBVIOUS
<1> USE BookingAssumption DEF TypeOK, Txs, Lifecycle, Goto, tables
<1>1. ASSUME NEW r \in Requests, Refusal(r) PROVE Lifecycle'
  BY <1>1 DEF Refusal, InTx, Refuse, Finish, AppointmentsAfter
<1>2. ASSUME NEW r \in Requests,
             BeginCreate(r) \/ KeySelectMisses(r) \/ KeyInsert(r)
             \/ KeyInsertConflicts(r) \/ KeyReselect(r)
             \/ AvailabilityAccepts(r) \/ ReadEntitlement(r)
             \/ CountBelowLimit(r) \/ InsertRow(r) \/ OverlapChecked(r)
      PROVE  Lifecycle'
  BY <1>2 DEF BeginCreate, KeySelectMisses, KeyInsert, KeyInsertConflicts,
              KeyReselect, AvailabilityAccepts, ReadEntitlement,
              CountBelowLimit, InsertRow, OverlapChecked
<1>3. ASSUME NEW r \in Requests, KeySelectFinds(r) PROVE Lifecycle'
  BY <1>3 DEF KeySelectFinds, Finish, AppointmentsAfter
<1>4. ASSUME NEW r \in Requests, WriteEvents(r) PROVE Lifecycle'
  BY <1>4 DEF WriteEvents
<1>5. ASSUME NEW r \in Requests, CommitCreate(r) PROVE Lifecycle'
  BY <1>5 DEF CommitCreate, Finish, AppointmentsAfter
<1>6. ASSUME NEW c \in Cancels,
             BeginCancel(c) \/ CancelSelect(c) \/ CancelUpdate(c)
      PROVE  Lifecycle'
  BY <1>6 DEF BeginCancel, CancelSelect, CancelUpdate, RowFree
<1>7. ASSUME NEW c \in Cancels, CancelRefusal(c) PROVE Lifecycle'
  BY <1>7 DEF CancelRefusal, CancelNotFound, CancelAgain, FailCancel, InTx,
              RefuseCancel, Finish, AppointmentsAfter
<1>8. ASSUME NEW c \in Cancels, CommitCancel(c) PROVE Lifecycle'
  BY <1>8 DEF CommitCancel, Finish, AppointmentsAfter
<1>9. ASSUME NEW b \in Businesses, NEW m \in Caps, UpsertEntitlements(b, m)
      PROVE  Lifecycle'
  BY <1>9 DEF UpsertEntitlements
<1>10. CASE UNCHANGED vars
  BY <1>10 DEF vars
<1> HIDE DEF TypeOK, Txs, Lifecycle, Goto, tables
<1> QED
  BY StepCases, <1>1, <1>2, <1>3, <1>4, <1>5, <1>6, <1>7, <1>8, <1>9, <1>10

THEOREM LifecycleHolds == Spec => []Lifecycle
<1>1. Init => Lifecycle
  BY BookingAssumption DEF Init, Lifecycle, Txs
<1> QED
  BY <1>1, LifecycleStep, TypeCorrect, PTL DEF Spec

------------------------------------------------------------------------------
\* Only the two commits touch the committed appointments and the outbox.
LEMMA QuietSteps ==
  ASSUME TypeOK, [Next]_vars
  PROVE  \/ \E r \in Requests : CommitCreate(r)
         \/ \E c \in Cancels : CommitCancel(c)
         \/ appt' = appt /\ outbox' = outbox
<1> USE DEF tables
<1>1. ASSUME NEW r \in Requests, Refusal(r) PROVE appt' = appt /\ outbox' = outbox
  BY <1>1 DEF Refusal, Refuse
<1>2. ASSUME NEW r \in Requests,
             BeginCreate(r) \/ KeySelectMisses(r) \/ KeySelectFinds(r)
             \/ KeyInsert(r) \/ KeyInsertConflicts(r) \/ KeyReselect(r)
             \/ AvailabilityAccepts(r) \/ ReadEntitlement(r)
             \/ CountBelowLimit(r) \/ InsertRow(r) \/ OverlapChecked(r)
             \/ WriteEvents(r)
      PROVE  appt' = appt /\ outbox' = outbox
  BY <1>2 DEF BeginCreate, KeySelectMisses, KeySelectFinds, KeyInsert,
              KeyInsertConflicts, KeyReselect, AvailabilityAccepts,
              ReadEntitlement, CountBelowLimit, InsertRow, OverlapChecked,
              WriteEvents
<1>3. ASSUME NEW c \in Cancels,
             BeginCancel(c) \/ CancelSelect(c) \/ CancelUpdate(c)
             \/ CancelRefusal(c)
      PROVE  appt' = appt /\ outbox' = outbox
  BY <1>3 DEF BeginCancel, CancelSelect, CancelUpdate, CancelRefusal,
              CancelNotFound, CancelAgain, FailCancel, RefuseCancel
<1>4. ASSUME NEW b \in Businesses, NEW m \in Caps, UpsertEntitlements(b, m)
      PROVE  appt' = appt /\ outbox' = outbox
  BY <1>4 DEF UpsertEntitlements
<1>5. CASE UNCHANGED vars
  BY <1>5 DEF vars
<1> QED
  BY StepCases, <1>1, <1>2, <1>3, <1>4, <1>5

\* The effect of the two commits on what is announced.
LEMMA CommitCreateEffect ==
  ASSUME TypeOK, Lifecycle, NEW r \in Requests, CommitCreate(r)
  PROVE  /\ appt[r] = "none" /\ appt' = [appt EXCEPT ![r] = "booked"]
         /\ \E due \in SUBSET Reminders :
              outbox' = outbox \union CreateEvents(r, due)
<1>1. pc[r] = "commit" /\ outbox' = outbox \union pend[r]
  BY DEF CommitCreate
<1>2. appt[r] = "none"
  BY <1>1 DEF Lifecycle, TypeOK
<1> QED
  BY <1>1, <1>2 DEF CommitCreate, Lifecycle

LEMMA CommitCancelEffect ==
  ASSUME TypeOK, Lifecycle, NEW c \in Cancels, CommitCancel(c)
  PROVE  /\ target[c] \in Requests
         /\ appt[target[c]] = "booked"
         /\ appt' = [appt EXCEPT ![target[c]] = "cancelled"]
         /\ outbox' = outbox \union {CancelledEvent(target[c], c)}
BY DEF CommitCancel, TypeOK, Lifecycle

\* No event without its state change and no state change without its event,
\* whatever fails in between.
THEOREM OutboxIsTransactional == Spec => []OutboxMatchesAppointments
<1> USE DEF OutboxMatchesAppointments, BookedEvent, CancelledEvent, ReminderEvent
<1>1. Init => OutboxMatchesAppointments
  BY DEF Init
<1>2. TypeOK /\ Lifecycle /\ OutboxMatchesAppointments /\ [Next]_vars
        => OutboxMatchesAppointments'
  <2> SUFFICES ASSUME TypeOK, Lifecycle, OutboxMatchesAppointments, [Next]_vars
               PROVE  OutboxMatchesAppointments'
    OBVIOUS
  <2>1. ASSUME NEW r \in Requests, CommitCreate(r)
        PROVE  OutboxMatchesAppointments'
    <3>1. PICK due \in SUBSET Reminders :
            outbox' = outbox \union CreateEvents(r, due)
      BY <2>1, CommitCreateEffect
    <3>2. appt[r] = "none" /\ appt' = [appt EXCEPT ![r] = "booked"]
      BY <2>1, CommitCreateEffect
    <3> QED
      BY <3>1, <3>2 DEF CreateEvents, TypeOK
  <2>2. ASSUME NEW c \in Cancels, CommitCancel(c)
        PROVE  OutboxMatchesAppointments'
    <3>1. /\ target[c] \in Requests
          /\ appt[target[c]] = "booked"
          /\ appt' = [appt EXCEPT ![target[c]] = "cancelled"]
          /\ outbox' = outbox \union {CancelledEvent(target[c], c)}
      BY <2>2, CommitCancelEffect
    <3> HIDE DEF OutboxMatchesAppointments
    <3> SUFFICES ASSUME NEW a \in Requests
                 PROVE  /\ BookedEvent(a) \in outbox' <=> appt'[a] # "none"
                        /\ appt'[a] = "cancelled" <=>
                             \E d \in Cancels : CancelledEvent(a, d) \in outbox'
                        /\ \A m \in Reminders :
                             ReminderEvent(a, m) \in outbox' => appt'[a] # "none"
      BY DEF OutboxMatchesAppointments
    <3>2. CASE a = target[c]
      BY <3>1, <3>2 DEF TypeOK, OutboxMatchesAppointments
    <3>3. CASE a # target[c]
      <4>1. appt'[a] = appt[a]
        BY <3>1, <3>3 DEF TypeOK
      <4>2. \A d \in Cancels :
              CancelledEvent(a, d) \in outbox' <=> CancelledEvent(a, d) \in outbox
        BY <3>1, <3>3
      <4> QED
        BY <3>1, <4>1, <4>2 DEF OutboxMatchesAppointments
    <3> QED
      BY <3>2, <3>3
  <2>3. CASE appt' = appt /\ outbox' = outbox
    BY <2>3
  <2> QED
    BY QuietSteps, <2>1, <2>2, <2>3
<1> QED
  BY <1>1, <1>2, TypeCorrect, LifecycleHolds, PTL DEF Spec

\* The row lock and the status check of Cancel make the cancellation of an
\* appointment a thing that happens, and is announced, once.
THEOREM CancelledOnce == Spec => []SingleCancellation
<1>1. Init => SingleCancellation
  BY DEF Init, SingleCancellation
<1>2. TypeOK /\ Lifecycle /\ OutboxMatchesAppointments /\ SingleCancellation
        /\ [Next]_vars => SingleCancellation'
  <2> SUFFICES ASSUME TypeOK, Lifecycle, OutboxMatchesAppointments,
                      SingleCancellation, [Next]_vars
               PROVE  SingleCancellation'
    OBVIOUS
  <2> USE DEF SingleCancellation, BookedEvent, CancelledEvent, ReminderEvent
  <2>1. ASSUME NEW r \in Requests, CommitCreate(r) PROVE SingleCancellation'
    <3>1. PICK due \in SUBSET Reminders :
            outbox' = outbox \union CreateEvents(r, due)
      BY <2>1, CommitCreateEffect
    <3> QED
      BY <3>1 DEF CreateEvents
  <2>2. ASSUME NEW c \in Cancels, CommitCancel(c) PROVE SingleCancellation'
    <3>1. \A d \in Cancels : CancelledEvent(target[c], d) \notin outbox
      BY <2>2, CommitCancelEffect DEF OutboxMatchesAppointments
    <3> QED
      BY <2>2, <3>1, CommitCancelEffect
  <2>3. CASE appt' = appt /\ outbox' = outbox
    BY <2>3
  <2> QED
    BY QuietSteps, <2>1, <2>2, <2>3
<1> QED
  BY <1>1, <1>2, TypeCorrect, LifecycleHolds, OutboxIsTransactional, PTL DEF Spec

\* One more event, one more announcement.
LEMMA AnnouncedGrows ==
  ASSUME NEW e, Told' = Told \union {e}
  PROVE  Announced' = Announced \union {<<e.type, e.appt>>}
BY DEF Announced

\* Every behaviour of the two handlers is a behaviour of the book of
\* appointments: commits are its steps, everything else it does not see.
THEOREM Refinement == Spec => ImplementsBook
<1> USE DEF Book!bookVars
<1>1. Init => Book!Init
  BY DEF Init, Book!Init, Announced, Told
<1>2. /\ TypeOK /\ Lifecycle /\ NoDoubleBooking /\ NoDoubleBooking'
      /\ [Next]_vars
      => [Book!Next]_Book!bookVars
  <2> SUFFICES ASSUME TypeOK, Lifecycle, NoDoubleBooking', [Next]_vars
               PROVE  [Book!Next]_Book!bookVars
    OBVIOUS
  <2>1. ASSUME NEW r \in Requests, CommitCreate(r) PROVE Book!Book(r)
    <3>1. PICK due \in SUBSET Reminders :
            outbox' = outbox \union CreateEvents(r, due)
      BY <2>1, CommitCreateEffect
    <3>2. appt[r] = "none" /\ appt' = [appt EXCEPT ![r] = "booked"]
      BY <2>1, CommitCreateEffect
    <3>3. Announced' = Announced \union {<<"booked", r>>}
      <4>1. Told' = Told \union {BookedEvent(r)}
        BY <3>1 DEF Told, CreateEvents, BookedEvent, ReminderEvent
      <4>2. BookedEvent(r).type = "booked" /\ BookedEvent(r).appt = r
        BY DEF BookedEvent
      <4> QED
        BY <4>1, <4>2, AnnouncedGrows
    <3>4. \A b \in Requests \ {r} : Overlap(r, b) => appt[b] # "booked"
      BY <3>2 DEF NoDoubleBooking, TypeOK
    <3> QED
      BY <3>2, <3>3, <3>4 DEF Book!Book
  <2>2. ASSUME NEW c \in Cancels, CommitCancel(c) PROVE Book!Cancel(target[c])
    <3>1. Announced' = Announced \union {<<"cancelled", target[c]>>}
      <4>1. Told' = Told \union {CancelledEvent(target[c], c)}
        BY <2>2, CommitCancelEffect DEF Told, CancelledEvent
      <4>2. /\ CancelledEvent(target[c], c).type = "cancelled"
            /\ CancelledEvent(target[c], c).appt = target[c]
        BY DEF CancelledEvent
      <4> QED
        BY <4>1, <4>2, AnnouncedGrows
    <3> QED
      BY <2>2, <3>1, CommitCancelEffect DEF Book!Cancel
  <2>3. CASE appt' = appt /\ outbox' = outbox
    BY <2>3 DEF Announced, Told
  <2> QED
    BY QuietSteps, <2>1, <2>2, <2>3, CommitCancelEffect DEF Book!Next
<1> QED
  BY <1>1, <1>2, TypeCorrect, LifecycleHolds, NeverDoubleBooked, PTL
  DEF Spec, ImplementsBook, Book!Spec

------------------------------------------------------------------------------
\* RecordsNameBookings, with the part that makes it inductive: a success
\* answer carries an appointment.
Records ==
  /\ RecordsNameBookings
  /\ \A r \in Requests : code[r] \in {"201", "replay"} => got[r] \in Requests

\* No answer and no record ever names an appointment that was rolled back, or
\* one booked under another key.
THEOREM RecordsAreBookings == Spec => []RecordsNameBookings
<1>1. Init => Records
  BY DEF Init, Records, RecordsNameBookings, Txs
<1>2. TypeOK /\ Lifecycle /\ Records /\ [Next]_vars => Records'
  <2> SUFFICES ASSUME TypeOK, Lifecycle, Records, [Next]_vars PROVE Records'
    OBVIOUS
  <2> USE BookingAssumption
      DEF TypeOK, Txs, Goto, tables, Records, RecordsNameBookings
  <2>1. ASSUME NEW r \in Requests, Refusal(r) PROVE Records'
    BY <2>1 DEF Refusal, Refuse, Finish
  <2>2. ASSUME NEW r \in Requests,
               BeginCreate(r) \/ KeySelectMisses(r) \/ KeyInsert(r)
               \/ KeyInsertConflicts(r) \/ KeyReselect(r)
               \/ AvailabilityAccepts(r) \/ ReadEntitlement(r)
               \/ CountBelowLimit(r) \/ InsertRow(r) \/ OverlapChecked(r)
               \/ WriteEvents(r)
        PROVE  Records'
    BY <2>2 DEF BeginCreate, KeySelectMisses, KeyInsert, KeyInsertConflicts,
                KeyReselect, AvailabilityAccepts, ReadEntitlement,
                CountBelowLimit, InsertRow, OverlapChecked, WriteEvents
  <2>3. ASSUME NEW r \in Requests, KeySelectFinds(r) PROVE Records'
    <3> DEFINE k == KeyOf[r]
    <3>1. k \in Keys /\ keyRow[k] \in Requests
      BY <2>3 DEF KeySelectFinds
    <3>2. appt' = appt /\ keyRow' = keyRow
      BY <2>3 DEF KeySelectFinds
    <3>3. CASE Replayable(k)
      <4>1. /\ code' = [code EXCEPT ![r] = "replay"]
            /\ got' = [got EXCEPT ![r] = keyRow[k]]
        BY <2>3, <3>3 DEF KeySelectFinds, Finish
      <4> QED
        BY <3>1, <3>2, <4>1
    <3>4. CASE ~Replayable(k)
      <4>1. code' = code /\ got' = got
        BY <2>3, <3>4 DEF KeySelectFinds
      <4> QED
        BY <3>2, <4>1
    <3> QED
      BY <3>3, <3>4
  <2>4. ASSUME NEW r \in Requests, CommitCreate(r) PROVE Records'
    <3>1. appt' = [appt EXCEPT ![r] = "booked"]
      BY <2>4 DEF CommitCreate
    <3>2. \A k \in Keys : keyRow'[k] # NoRow =>
            appt'[keyRow'[k]] # "none" /\ KeyOf[keyRow'[k]] = k
      BY <2>4, <3>1 DEF CommitCreate
    <3>3. ASSUME NEW s \in Requests, code'[s] \in {"201", "replay"}
          PROVE  /\ got'[s] \in Requests
                 /\ appt'[got'[s]] # "none" /\ KeyOf[got'[s]] = KeyOf[s]
      <4>1. CASE s = r
        BY <2>4, <3>1, <3>3, <4>1 DEF CommitCreate, Finish
      <4>2. CASE s # r
        <5>1. code'[s] = code[s] /\ got'[s] = got[s]
          BY <2>4, <4>2 DEF CommitCreate, Finish
        <5> QED
          BY <3>1, <3>3, <5>1
      <4> QED
        BY <4>1, <4>2
    <3> QED
      BY <3>2, <3>3
  <2>5. ASSUME NEW c \in Cancels,
               BeginCancel(c) \/ CancelSelect(c) \/ CancelUpdate(c)
        PROVE  Records'
    BY <2>5 DEF BeginCancel, CancelSelect, CancelUpdate
  <2>6. ASSUME NEW c \in Cancels, CancelRefusal(c) PROVE Records'
    BY <2>6 DEF CancelRefusal, CancelNotFound, CancelAgain, FailCancel,
                RefuseCancel, Finish
  <2>7. ASSUME NEW c \in Cancels, CommitCancel(c) PROVE Records'
    BY <2>7 DEF CommitCancel, Finish
  <2>8. ASSUME NEW b \in Businesses, NEW m \in Caps, UpsertEntitlements(b, m)
        PROVE  Records'
    BY <2>8 DEF UpsertEntitlements
  <2>9. CASE UNCHANGED vars
    BY <2>9 DEF vars
  <2> HIDE DEF TypeOK, Txs, Goto, tables, Records, RecordsNameBookings
  <2> QED
    BY StepCases, <2>1, <2>2, <2>3, <2>4, <2>5, <2>6, <2>7, <2>8, <2>9
<1>3. Records => RecordsNameBookings
  BY DEF Records
<1> QED
  BY <1>1, <1>2, <1>3, TypeCorrect, LifecycleHolds, PTL DEF Spec

------------------------------------------------------------------------------
\* A late duplicate gets no further than the first SELECT on its key.
LateStopsAtKey ==
  \A r \in late :
    /\ KeyOf[r] \in Keys /\ keyRow[KeyOf[r]] # NoRow
    /\ pc[r] \in {"select", "done"}
    /\ appt[r] = "none"
    /\ code[r] \in {"none", "replay", "500"}

\* A code is only answered at the end.
AnsweredWhenDone == \A r \in Requests : pc[r] # "done" => code[r] = "none"

\* Idempotency for a duplicate that is not concurrent with its first attempt.
THEOREM LateDuplicates == Spec => []LateDuplicateNeverBooks
<1> DEFINE Late == LateStopsAtKey /\ AnsweredWhenDone
<1>1. Init => Late
  BY DEF Init, LateStopsAtKey, AnsweredWhenDone, Txs
<1>2. TypeOK /\ Lifecycle /\ Late /\ [Next]_vars => Late'
  <2> SUFFICES ASSUME TypeOK, Lifecycle, Late, [Next]_vars PROVE Late'
    OBVIOUS
  <2> USE BookingAssumption
      DEF TypeOK, Txs, Goto, tables, LateStopsAtKey, AnsweredWhenDone
  <2>1. ASSUME NEW r \in Requests, Refusal(r) PROVE Late'
    <3>1. r \in late => pc[r] = "select"
      BY <2>1 DEF Refusal, InTx
    <3>2. r \in late => code'[r] = "500"
      BY <2>1, <3>1 DEF Refusal, Refuse, Finish
    <3> QED
      BY <2>1, <3>2 DEF Refusal, Refuse, Finish, InTx
  <2>2. ASSUME NEW r \in Requests, BeginCreate(r) PROVE Late'
    BY <2>2 DEF BeginCreate, Lifecycle
  <2>3. ASSUME NEW r \in Requests,
               KeySelectMisses(r) \/ KeyInsert(r) \/ KeyInsertConflicts(r)
               \/ KeyReselect(r) \/ AvailabilityAccepts(r) \/ ReadEntitlement(r)
               \/ CountBelowLimit(r) \/ InsertRow(r) \/ OverlapChecked(r)
               \/ WriteEvents(r)
        PROVE  Late'
    BY <2>3 DEF KeySelectMisses, KeyInsert, KeyInsertConflicts, KeyReselect,
                AvailabilityAccepts, ReadEntitlement, CountBelowLimit,
                InsertRow, OverlapChecked, WriteEvents
  <2>4. ASSUME NEW r \in Requests, KeySelectFinds(r) PROVE Late'
    BY <2>4 DEF KeySelectFinds, Replayable, Finish
  <2>5. ASSUME NEW r \in Requests, CommitCreate(r) PROVE Late'
    BY <2>5 DEF CommitCreate, Finish
  <2>6. ASSUME NEW c \in Cancels,
               BeginCancel(c) \/ CancelSelect(c) \/ CancelUpdate(c)
               \/ CancelRefusal(c)
        PROVE  Late'
    BY <2>6 DEF BeginCancel, CancelSelect, CancelUpdate, CancelRefusal,
                CancelNotFound, CancelAgain, FailCancel, RefuseCancel, Finish
  <2>7. ASSUME NEW c \in Cancels, CommitCancel(c) PROVE Late'
    <3>1. \A r \in Requests : appt[r] = "none" => appt'[r] = "none"
      BY <2>7, CommitCancelEffect
    <3>2. \A r \in Requests : pc'[r] = pc[r] /\ code'[r] = code[r]
      BY <2>7 DEF CommitCancel, Finish
    <3>3. late' = late /\ keyRow' = keyRow
      BY <2>7 DEF CommitCancel
    <3> QED
      BY <3>1, <3>2, <3>3
  <2>8. ASSUME NEW b \in Businesses, NEW m \in Caps, UpsertEntitlements(b, m)
        PROVE  Late'
    BY <2>8 DEF UpsertEntitlements
  <2>9. CASE UNCHANGED vars
    BY <2>9 DEF vars
  <2> HIDE DEF TypeOK, Txs, Goto, tables, Late
  <2> QED
    BY StepCases, <2>1, <2>2, <2>3, <2>4, <2>5, <2>6, <2>7, <2>8, <2>9
<1>3. Late => LateDuplicateNeverBooks
  BY DEF LateStopsAtKey, LateDuplicateNeverBooks
<1> QED
  BY <1>1, <1>2, <1>3, TypeCorrect, LifecycleHolds, PTL DEF Spec

------------------------------------------------------------------------------
\* The pool never lends more connections than it has.
PoolBound == Cardinality(InTx) <= Conns

LEMMA InTxFinite == IsFiniteSet(InTx) /\ IsFiniteSet(InTx')
<1>1. IsFiniteSet(Txs)
  BY BookingAssumption, FS_Union DEF Txs
<1>2. InTx \in SUBSET Txs /\ InTx' \in SUBSET Txs
  BY DEF InTx
<1> QED
  BY <1>1, <1>2, FS_Subset

\* A connection is taken by Begin only.
LEMMA OnlyBeginTakes ==
  ASSUME TypeOK, [Next]_vars
  PROVE  \/ InTx' \subseteq InTx
         \/ /\ Cardinality(InTx) < Conns
            /\ \E t \in Txs : InTx' = InTx \union {t}
<1> USE BookingAssumption DEF TypeOK, Txs, InTx, Goto, tables
<1>1. ASSUME NEW r \in Requests, Refusal(r) PROVE InTx' \subseteq InTx
  BY <1>1 DEF Refusal, Refuse, Finish
<1>2. ASSUME NEW r \in Requests,
             KeySelectMisses(r) \/ KeySelectFinds(r)
             \/ KeyInsert(r) \/ KeyInsertConflicts(r) \/ KeyReselect(r)
             \/ AvailabilityAccepts(r) \/ ReadEntitlement(r)
             \/ CountBelowLimit(r) \/ InsertRow(r) \/ OverlapChecked(r)
             \/ WriteEvents(r) \/ CommitCreate(r)
      PROVE  InTx' \subseteq InTx
  BY <1>2 DEF KeySelectMisses, KeySelectFinds, KeyInsert, KeyInsertConflicts,
              KeyReselect, AvailabilityAccepts, ReadEntitlement,
              CountBelowLimit, InsertRow, OverlapChecked, WriteEvents,
              CommitCreate, Finish
<1>3. ASSUME NEW t \in Txs, pc[t] = "idle", Cardinality(InTx) < Conns,
             NEW l \in Pcs \ {"idle", "done"}, Goto(t, l)
      PROVE  InTx' = InTx \union {t}
  BY <1>3
<1>4. ASSUME NEW r \in Requests, BeginCreate(r)
      PROVE  Cardinality(InTx) < Conns /\ \E t \in Txs : InTx' = InTx \union {t}
  <2>1. PICK l \in {"validate", "select"} : Goto(r, l)
    BY <1>4 DEF BeginCreate
  <2>2. pc[r] = "idle" /\ Cardinality(InTx) < Conns
    BY <1>4 DEF BeginCreate
  <2> HIDE DEF TypeOK, InTx, Goto, tables
  <2> QED
    BY <1>3, <2>1, <2>2 DEF Pcs
<1>5. ASSUME NEW c \in Cancels, BeginCancel(c)
      PROVE  Cardinality(InTx) < Conns /\ \E t \in Txs : InTx' = InTx \union {t}
  <2>1. pc[c] = "idle" /\ Cardinality(InTx) < Conns /\ Goto(c, "select")
    BY <1>5 DEF BeginCancel
  <2> HIDE DEF TypeOK, InTx, Goto, tables
  <2> QED
    BY <1>3, <2>1 DEF Pcs
<1>6. ASSUME NEW c \in Cancels,
             CancelSelect(c) \/ CancelUpdate(c) \/ CancelRefusal(c)
             \/ CommitCancel(c)
      PROVE  InTx' \subseteq InTx
  BY <1>6 DEF CancelSelect, CancelUpdate, CancelRefusal, CancelNotFound,
              CancelAgain, FailCancel, RefuseCancel, CommitCancel, Finish
<1>7. ASSUME NEW b \in Businesses, NEW m \in Caps, UpsertEntitlements(b, m)
      PROVE  InTx' \subseteq InTx
  BY <1>7 DEF UpsertEntitlements
<1>8. CASE UNCHANGED vars
  BY <1>8 DEF vars
<1> HIDE DEF TypeOK, Txs, InTx, Goto, tables
<1> QED
  BY StepCases, <1>1, <1>2, <1>4, <1>5, <1>6, <1>7, <1>8

THEOREM PoolBoundHolds == Spec => []PoolBound
<1>1. Init => PoolBound
  <2> SUFFICES ASSUME Init PROVE PoolBound
    OBVIOUS
  <2>1. InTx = {}
    BY DEF Init, InTx
  <2> QED
    BY <2>1, FS_EmptySet, BookingAssumption DEF PoolBound
<1>2. TypeOK /\ PoolBound /\ [Next]_vars => PoolBound'
  <2> SUFFICES ASSUME TypeOK, PoolBound, [Next]_vars PROVE PoolBound'
    OBVIOUS
  <2>1. Cardinality(InTx) \in Nat /\ Conns \in Nat
    BY InTxFinite, FS_CardinalityType, BookingAssumption
  <2>2. CASE InTx' \subseteq InTx
    <3>1. Cardinality(InTx') \in Nat /\ Cardinality(InTx') <= Cardinality(InTx)
      BY <2>2, InTxFinite, FS_Subset, FS_CardinalityType
    <3> QED
      BY <2>1, <3>1 DEF PoolBound
  <2>3. ASSUME Cardinality(InTx) < Conns, NEW t \in Txs, InTx' = InTx \union {t}
        PROVE  PoolBound'
    <3>1. Cardinality(InTx') = IF t \in InTx THEN Cardinality(InTx)
                                              ELSE Cardinality(InTx) + 1
      BY <2>3, InTxFinite, FS_AddElement
    <3> QED
      BY <2>1, <2>3, <3>1 DEF PoolBound
  <2> QED
    BY OnlyBeginTakes, <2>2, <2>3
<1> QED
  BY <1>1, <1>2, TypeCorrect, PTL DEF Spec

------------------------------------------------------------------------------
SameMonth(r) ==
  {a \in Requests : BusinessOf[a] = BusinessOf[r] /\ MonthOf[a] = MonthOf[r]}

\* Past the COUNT, and not yet over.
PassedLimit == {a \in Requests : pc[a] \in {"create", "check", "write", "commit"}}

\* What counts, or will count, against the cap of the month of r.
Load(r) == {a \in SameMonth(r) : appt[a] = "booked" \/ a \in PassedLimit}

\* The strengthening of CapOvershootBounded: requests that passed the COUNT
\* count as booked already.
LoadBounded ==
  \A r \in Requests : Cardinality(Load(r)) <= HighestCap + Conns - 1

\* The load of a month grows only when a request passes the COUNT.
LEMMA OnlyCountAdmits ==
  ASSUME TypeOK, [Next]_vars
  PROVE  \/ \E s \in Requests : CountBelowLimit(s)
         \/ \A r \in Requests : Load(r)' \subseteq Load(r)
<1> SUFFICES ASSUME ~\E s \in Requests : CountBelowLimit(s),
                    NEW a \in Requests,
                    appt'[a] = "booked" \/ a \in PassedLimit'
             PROVE  appt[a] = "booked" \/ a \in PassedLimit
  BY DEF Load, SameMonth
<1> USE BookingAssumption DEF TypeOK, Txs, PassedLimit, Goto, tables
<1>1. ASSUME NEW r \in Requests, Refusal(r)
      PROVE  appt[a] = "booked" \/ a \in PassedLimit
  BY <1>1 DEF Refusal, Refuse, Finish
<1>2. ASSUME NEW r \in Requests,
             BeginCreate(r) \/ KeySelectMisses(r) \/ KeySelectFinds(r)
             \/ KeyInsert(r) \/ KeyInsertConflicts(r) \/ KeyReselect(r)
             \/ AvailabilityAccepts(r) \/ ReadEntitlement(r)
             \/ InsertRow(r) \/ OverlapChecked(r)
             \/ WriteEvents(r) \/ CommitCreate(r)
      PROVE  appt[a] = "booked" \/ a \in PassedLimit
  BY <1>2 DEF BeginCreate, KeySelectMisses, KeySelectFinds, KeyInsert,
              KeyInsertConflicts, KeyReselect, AvailabilityAccepts,
              ReadEntitlement, InsertRow, OverlapChecked, WriteEvents,
              CommitCreate, Finish
<1>3. ASSUME NEW c \in Cancels,
             BeginCancel(c) \/ CancelSelect(c) \/ CancelUpdate(c)
             \/ CancelRefusal(c) \/ CommitCancel(c)
      PROVE  appt[a] = "booked" \/ a \in PassedLimit
  BY <1>3 DEF BeginCancel, CancelSelect, CancelUpdate, CancelRefusal,
              CancelNotFound, CancelAgain, FailCancel, RefuseCancel,
              CommitCancel, Finish
<1>4. ASSUME NEW b \in Businesses, NEW m \in Caps, UpsertEntitlements(b, m)
      PROVE  appt[a] = "booked" \/ a \in PassedLimit
  BY <1>4 DEF UpsertEntitlements
<1>5. CASE UNCHANGED vars
  BY <1>5 DEF vars
<1> HIDE DEF TypeOK, Txs, PassedLimit, Goto, tables
<1> QED
  BY StepCases, <1>1, <1>2, <1>3, <1>4, <1>5

LEMMA LoadFinite ==
  ASSUME NEW r \in Requests
  PROVE  /\ IsFiniteSet(Load(r)) /\ IsFiniteSet(Load(r)')
         /\ IsFiniteSet(BookedInMonth(r))
<1>1. /\ Load(r) \in SUBSET Requests /\ Load(r)' \in SUBSET Requests
      /\ BookedInMonth(r) \in SUBSET Requests
  BY DEF Load, SameMonth, BookedInMonth
<1> QED
  BY <1>1, BookingAssumption, FS_Subset

LEMMA HighestCapMax ==
  /\ HighestCap \in Nat
  /\ \A n \in Caps \union {FreeMax} : n <= HighestCap
BY BookingAssumption DEF HighestCap

\* A request that passes the COUNT finds fewer bookings than the cap, and
\* shares the pool with every other request past it.
LEMMA AdmissionBound ==
  ASSUME TypeOK, PoolBound', NEW s \in Requests, CountBelowLimit(s),
         NEW r \in Requests, s \in SameMonth(r)
  PROVE  Cardinality(Load(r)') <= HighestCap + Conns - 1
<1> DEFINE B == BookedInMonth(r)
<1>1. BookedInMonth(s) = B
  BY DEF SameMonth, BookedInMonth
<1>2. Cardinality(B) \in Nat /\ Cardinality(B) < cap[s]
  <2>1. Cardinality(B) \in Nat
    BY LoadFinite, FS_CardinalityType
  <2>2. cap[s] \in Nat /\ ~(Cardinality(B) >= cap[s])
    BY <1>1 DEF CountBelowLimit, LimitReached, TypeOK
  <2> QED
    BY <2>1, <2>2
<1>3. cap[s] <= HighestCap /\ cap[s] \in Nat
  BY HighestCapMax DEF CountBelowLimit, TypeOK
<1>4. appt' = appt
  BY DEF CountBelowLimit, tables
<1>5. Load(r)' \subseteq B \union InTx'
  BY <1>4 DEF Load, SameMonth, BookedInMonth, PassedLimit, InTx, Txs
<1>6. /\ IsFiniteSet(B \union InTx')
      /\ Cardinality(B \union InTx') <= Cardinality(B) + Cardinality(InTx')
  <2>1. IsFiniteSet(B) /\ IsFiniteSet(InTx')
    BY LoadFinite, InTxFinite
  <2>2. IsFiniteSet(B \intersect InTx')
    BY <2>1, FS_Intersection
  <2>3. Cardinality(B \intersect InTx') \in Nat /\ Cardinality(InTx') \in Nat
    BY <2>1, <2>2, FS_CardinalityType
  <2> HIDE DEF B
  <2>4. /\ IsFiniteSet(B \union InTx')
        /\ Cardinality(B \union InTx') =
             Cardinality(B) + Cardinality(InTx') - Cardinality(B \intersect InTx')
    BY <2>1, FS_Union
  <2> QED
    BY <1>2, <2>3, <2>4
<1>7. /\ Cardinality(Load(r)') \in Nat
      /\ Cardinality(Load(r)') <= Cardinality(B \union InTx')
  BY <1>5, <1>6, FS_Subset, FS_CardinalityType
<1>8. Cardinality(InTx') \in Nat /\ Cardinality(InTx') <= Conns
  BY InTxFinite, FS_CardinalityType DEF PoolBound
<1>9. Cardinality(B \union InTx') \in Nat
  BY <1>6, FS_CardinalityType
<1> HIDE DEF B
<1> QED
  BY <1>2, <1>3, <1>6, <1>7, <1>8, <1>9, HighestCapMax, BookingAssumption

\* The monthly cap is overshot by no more than the connections of the pool,
\* less one.
THEOREM CapOvershoot == Spec => []CapOvershootBounded
<1>1. Init => LoadBounded
  <2> SUFFICES ASSUME Init, NEW r \in Requests
               PROVE  Cardinality(Load(r)) <= HighestCap + Conns - 1
    BY DEF LoadBounded
  <2>1. Load(r) = {}
    BY DEF Init, Load, SameMonth, PassedLimit, Txs
  <2> QED
    BY <2>1, FS_EmptySet, HighestCapMax, BookingAssumption
<1>2. TypeOK /\ PoolBound' /\ LoadBounded /\ [Next]_vars => LoadBounded'
  <2> SUFFICES ASSUME TypeOK, PoolBound', LoadBounded, [Next]_vars,
                      NEW r \in Requests
               PROVE  Cardinality(Load(r)') <= HighestCap + Conns - 1
    BY DEF LoadBounded, HighestCap
  <2>1. CASE Load(r)' \subseteq Load(r)
    <3>1. /\ Cardinality(Load(r)') \in Nat /\ Cardinality(Load(r)) \in Nat
          /\ Cardinality(Load(r)') <= Cardinality(Load(r))
      BY <2>1, LoadFinite, FS_Subset, FS_CardinalityType
    <3> QED
      BY <3>1, HighestCapMax, BookingAssumption DEF LoadBounded
  <2>2. ASSUME NEW s \in Requests, CountBelowLimit(s), s \in SameMonth(r)
        PROVE  Cardinality(Load(r)') <= HighestCap + Conns - 1
    BY <2>2, AdmissionBound
  <2>3. ASSUME NEW s \in Requests, CountBelowLimit(s), s \notin SameMonth(r)
        PROVE  Load(r)' \subseteq Load(r)
    BY <2>3 DEF CountBelowLimit, Load, SameMonth, PassedLimit, Goto, tables,
                TypeOK, Txs
  <2> QED
    BY OnlyCountAdmits, <2>1, <2>2, <2>3
<1>3. LoadBounded => CapOvershootBounded
  <2> SUFFICES ASSUME LoadBounded, NEW r \in Requests
               PROVE  Cardinality(BookedInMonth(r)) <= HighestCap + Conns - 1
    BY DEF CapOvershootBounded
  <2>1. BookedInMonth(r) \subseteq Load(r)
    BY DEF BookedInMonth, Load, SameMonth
  <2>2. /\ Cardinality(BookedInMonth(r)) \in Nat /\ Cardinality(Load(r)) \in Nat
        /\ Cardinality(BookedInMonth(r)) <= Cardinality(Load(r))
    BY <2>1, LoadFinite, FS_Subset, FS_CardinalityType
  <2> QED
    BY <2>2, HighestCapMax, BookingAssumption DEF LoadBounded
<1> QED
  BY <1>1, <1>2, <1>3, TypeCorrect, PoolBoundHolds, PTL DEF Spec
==============================================================================
