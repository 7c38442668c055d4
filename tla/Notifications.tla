----------------------------- MODULE Notifications -----------------------------
(***************************************************************************)
(* notification-service and analytics-service: what becomes of a due       *)
(* reminder and of the events of a booking.  A due reminder is handed to   *)
(* the email or SMS sender, stored, and its outcome announced, in three    *)
(* steps; the outcome is stored as a metric and added to the day's count   *)
(* in two; a booking event is stored and counted in one transaction.  The  *)
(* scripts rebuild-analytics-*.sh recompute either table of counts while   *)
(* all this goes on.                                                       *)
(*                                                                         *)
(* Between an outbox and a consumer stands module EventDelivery; here it   *)
(* is what it comes to: unread messages, taken in any order and some of    *)
(* them repeated.  The topics scheduler.reminder.dlq.v1 and auth.audit.v1  *)
(* carry nothing (see the README), and their two handlers are left out.    *)
(***************************************************************************)
EXTENDS Integers, Sequences, FiniteSets, Bags, SequencesExt

CONSTANTS
  Reminders,   \* due events of the scheduler: [id, channel]
  Bookings,    \* events of booking-service: [id, kind: {"booked", "canceled"}, day]
  Notifiers,   \* consumers of notification-service
  Analysts,    \* consumers of analytics-service
  MaxFaults,   \* bound: repeated messages, failed statements, deaths
  MaxRebuilds  \* bound: runs of the two scripts

VARIABLES
  pending,     \* events of the other services that are not yet committed
  unread,      \* messages no consumer has taken, a bag
  inbox,       \* inbox_events of both services
  task,        \* task[c]: where consumer c stands with its message
  handed,      \* handed[r]: how often r went out to its recipient
  notifications, \* notifications[r]: the status of every row of r
  outcomes,    \* outbox of notification-service, in the order of its rows
  metrics,     \* notification_metrics: the outcomes, in the order of the rows
  daily,       \* daily_notification_metrics: daily[<<channel, status>>]
  bookingEvents, \* booking_events
  appointments, \* daily_appointment_metrics: appointments[<<day, kind>>]
  rebuild,     \* rebuild[t]: the new counts of t in the script's transaction
  rebuilds, faults, \* how many so far
  overlaps     \* how many metrics a rebuild has counted before their handler

notifyVars == <<handed, notifications, outcomes>>
countVars == <<metrics, daily, bookingEvents, appointments>>
scriptVars == <<rebuild, rebuilds, overlaps>>
vars == <<pending, unread, inbox, task, notifyVars, countVars, scriptVars, faults>>

Consumers == Notifiers \union Analysts
Statuses == {"sent", "failed"}
Channels == {r.channel : r \in Reminders}
Days == {k.day : k \in Bookings}
\* An outbox row of its own makes an outcome an event of its own.
Outcome == [row: Nat, of: Reminders, status: Statuses]
Messages == Reminders \union Bookings \union Outcome
DailyCounts == [Channels \X Statuses -> Nat]
AppointmentCounts == [Days \X {"booked", "canceled"} -> Nat]
NoCounts == <<>>
Idle == [phase |-> "idle"]
\* Where a consumer can stand with a message of each kind.
Tasks ==
  {Idle}
    \union [phase: {"record"}, msg: Messages]
    \union [phase: {"send"}, msg: Reminders]
    \union [phase: {"persist", "announce"}, msg: Reminders, status: Statuses]
    \union [phase: {"insert", "bump"}, msg: Outcome]
    \union [phase: {"store", "count", "commit"}, msg: Bookings]

ASSUME NotificationsAssumption ==
  /\ \A k \in Bookings : k.kind \in {"booked", "canceled"}
  /\ Reminders \intersect Bookings = {} /\ Notifiers \intersect Analysts = {}
  /\ \A m \in Reminders \union Bookings : m \notin Outcome
  /\ IsFiniteSet(Analysts)
  /\ MaxFaults \in Nat /\ MaxRebuilds \in Nat

\* The counts a rebuild would arrive at.
Key(o) == <<o.of.channel, o.status>>
MetricsOf(channel, status) == Cardinality({n \in DOMAIN metrics : Key(metrics[n]) = <<channel, status>>})
EventsOf(day, kind) == Cardinality({k \in bookingEvents : k.day = day /\ k.kind = kind})

TypeOK ==
  /\ pending \subseteq Reminders \union Bookings
  /\ IsABag(unread) /\ BagToSet(unread) \subseteq Messages
  /\ inbox \subseteq Messages
  /\ task \in [Consumers -> Tasks]
  /\ handed \in [Reminders -> Nat]
  /\ notifications \in [Reminders -> Seq(Statuses)]
  /\ outcomes \in Seq(Outcome) /\ \A n \in DOMAIN outcomes : outcomes[n].row = n
  /\ metrics \in Seq(Outcome) /\ ToSet(metrics) \subseteq ToSet(outcomes)
  /\ daily \in DailyCounts
  /\ bookingEvents \subseteq Bookings
  /\ appointments \in AppointmentCounts
  /\ DOMAIN rebuild = {"notifications", "appointments"}
  /\ rebuild["notifications"] \in DailyCounts \union {NoCounts}
  /\ rebuild["appointments"] \in AppointmentCounts \union {NoCounts}
  /\ rebuilds \in 0..MaxRebuilds /\ faults \in 0..MaxFaults /\ overlaps \in Nat

Fault ==
  /\ faults < MaxFaults
  /\ faults' = faults + 1

Put(m) == unread' = unread (+) SetToBag({m})
Goto(c, t) == task' = [task EXCEPT ![c] = t]
GotoPhase(c, phase) == task' = [task EXCEPT ![c].phase = phase]

------------------------------------------------------------------------------
(* Messages, and Consumer.Run of both services.                             *)

\* The scheduler or booking-service commits an event.
Commit(m) ==
  /\ m \in pending
  /\ pending' = pending \ {m}
  /\ Put(m)
  /\ UNCHANGED <<inbox, task, notifyVars, countVars, scriptVars, faults>>

\* A batch of a publisher that fails half way is written again.
Repeat(m) ==
  /\ m \in (Reminders \union Bookings) \ pending \/ m \in ToSet(outcomes)
  /\ Fault /\ Put(m)
  /\ UNCHANGED <<pending, inbox, task, notifyVars, countVars, scriptVars>>

ReadersOf(m) == IF m \in Reminders THEN Notifiers ELSE Analysts

\* ReadMessage, with the offset committed.
Read(c, m) ==
  /\ task[c] = Idle /\ c \in ReadersOf(m)
  /\ unread' = unread (-) SetToBag({m})
  /\ Goto(c, [phase |-> "record", msg |-> m])
  /\ UNCHANGED <<pending, inbox, notifyVars, countVars, scriptVars, faults>>

HandlerOf(m) ==
  IF m \in Reminders THEN "send" ELSE IF m \in Bookings THEN "store" ELSE "insert"

RecordAll(c) ==
  /\ task[c].phase = "record"
  /\ inbox' = inbox \union {task[c].msg}
  /\ GotoPhase(c, HandlerOf(task[c].msg))
  /\ UNCHANGED <<pending, unread, notifyVars, countVars, scriptVars, faults>>
\* inbox.Record, a transaction of its own before the handler; a duplicate goes
\* no further.
Record(c) ==
  /\ task[c].phase = "record"
  /\ inbox' = inbox \union {task[c].msg}
  /\ IF task[c].msg \in inbox THEN Goto(c, Idle)
     ELSE GotoPhase(c, HandlerOf(task[c].msg))
  /\ UNCHANGED <<pending, unread, notifyVars, countVars, scriptVars, faults>>

\* A statement fails and Run logs the error, or the process dies: the consumer
\* goes on with another message, and this one is nobody's.
HandlerFails(c) ==
  /\ task[c] # Idle
  /\ Fault /\ Goto(c, Idle)
  /\ UNCHANGED <<pending, unread, inbox, notifyVars, countVars, scriptVars>>

------------------------------------------------------------------------------
(* The handler of notification-service.                                     *)

\* The sender of the channel accepts the message.
Send(c) ==
  LET r == task[c].msg IN
  /\ task[c].phase = "send"
  /\ handed' = [handed EXCEPT ![r] = @ + 1]
  /\ Goto(c, [phase |-> "persist", msg |-> r, status |-> "sent"])
  /\ UNCHANGED <<pending, unread, inbox, notifications, outcomes, countVars,
                 scriptVars, faults>>

\* The sender returns an error, or the recipient's suffix simulates one, and the
\* status is "failed".  A timeout or an answer lost on the way does not tell
\* that nothing went out.
SendFails(c) ==
  LET r == task[c].msg IN
  /\ task[c].phase = "send"
  /\ Fault
  /\ handed' \in {handed, [handed EXCEPT ![r] = @ + 1]}
  /\ Goto(c, [phase |-> "persist", msg |-> r, status |-> "failed"])
  /\ UNCHANGED <<pending, unread, inbox, notifications, outcomes, countVars, scriptVars>>

\* notificationsRepo.Insert
InsertNotification(c) ==
  LET t == task[c] IN
  /\ t.phase = "persist"
  /\ notifications' = [notifications EXCEPT ![t.msg] = Append(@, t.status)]
  /\ GotoPhase(c, "announce")
  /\ UNCHANGED <<pending, unread, inbox, handed, outcomes, countVars, scriptVars, faults>>

PublishOnly(c) ==
  LET o == [row |-> Len(outcomes) + 1, of |-> task[c].msg, status |-> task[c].status] IN
  /\ task[c].phase = "announce"
  /\ Put(o) /\ Goto(c, Idle)
  /\ UNCHANGED <<pending, inbox, handed, notifications, outcomes, countVars, scriptVars,
                 faults>>
WriteSent(c) ==
  LET o == [row |-> Len(outcomes) + 1, of |-> task[c].msg, status |-> "sent"] IN
  /\ task[c].phase = "announce"
  /\ outcomes' = Append(outcomes, o)
  /\ Put(o) /\ Goto(c, Idle)
  /\ UNCHANGED <<pending, inbox, handed, notifications, countVars, scriptVars, faults>>
\* writeOutboxSent or writeOutboxFailed, a transaction of its own.
WriteOutcome(c) ==
  LET o == [row |-> Len(outcomes) + 1, of |-> task[c].msg, status |-> task[c].status] IN
  /\ task[c].phase = "announce"
  /\ outcomes' = Append(outcomes, o)
  /\ Put(o) /\ Goto(c, Idle)
  /\ UNCHANGED <<pending, inbox, handed, notifications, countVars, scriptVars, faults>>

------------------------------------------------------------------------------
(* The handlers of analytics-service.                                       *)

InsertMetric(c) ==
  /\ task[c].phase = "insert"
  /\ metrics' = Append(metrics, task[c].msg)
  /\ GotoPhase(c, "bump")
  /\ UNCHANGED <<pending, unread, inbox, notifyVars, daily, bookingEvents, appointments,
                 scriptVars, faults>>

BumpSent(c) ==
  LET k == <<task[c].msg.of.channel, "sent">> IN
  /\ task[c].phase = "bump" /\ rebuild["notifications"] = NoCounts
  /\ daily' = [daily EXCEPT ![k] = @ + 1]
  /\ Goto(c, Idle)
  /\ UNCHANGED <<pending, unread, inbox, notifyVars, metrics, bookingEvents, appointments,
                 scriptVars, faults>>
\* A second statement; it waits for a script that has truncated the table.
BumpNotificationAggregate(c) ==
  LET k == Key(task[c].msg) IN
  /\ task[c].phase = "bump" /\ rebuild["notifications"] = NoCounts
  /\ daily' = [daily EXCEPT ![k] = @ + 1]
  /\ Goto(c, Idle)
  /\ UNCHANGED <<pending, unread, inbox, notifyVars, metrics, bookingEvents, appointments,
                 scriptVars, faults>>

\* The uncommitted rows of the transactions of handleBookingEvent.
Uncommitted(m) == \E c \in Analysts : task[c].phase \in {"count", "commit"} /\ task[c].msg = m
DayLocked(day) == \E c \in Analysts : task[c].phase = "commit" /\ task[c].msg.day = day

ConflictOnDay(c) ==
  /\ task[c].phase = "store" /\ ~Uncommitted(task[c].msg)
  /\ IF \E k \in bookingEvents : k.day = task[c].msg.day THEN Goto(c, Idle)
     ELSE GotoPhase(c, "count")
  /\ UNCHANGED <<pending, unread, inbox, notifyVars, countVars, scriptVars, faults>>
\* INSERT INTO booking_events ... ON CONFLICT DO NOTHING
InsertBookingEvent(c) ==
  /\ task[c].phase = "store" /\ ~Uncommitted(task[c].msg)
  /\ IF task[c].msg \in bookingEvents THEN Goto(c, Idle) ELSE GotoPhase(c, "count")
  /\ UNCHANGED <<pending, unread, inbox, notifyVars, countVars, scriptVars, faults>>

\* The upsert of the day's row locks it until the commit.
CountAppointment(c) ==
  /\ task[c].phase = "count"
  /\ ~DayLocked(task[c].msg.day) /\ rebuild["appointments"] = NoCounts
  /\ GotoPhase(c, "commit")
  /\ UNCHANGED <<pending, unread, inbox, notifyVars, countVars, scriptVars, faults>>

CommitBookingEvent(c) ==
  LET m == task[c].msg IN
  /\ task[c].phase = "commit"
  /\ bookingEvents' = bookingEvents \union {m}
  /\ appointments' = [appointments EXCEPT ![<<m.day, m.kind>>] = @ + 1]
  /\ Goto(c, Idle)
  /\ UNCHANGED <<pending, unread, inbox, notifyVars, metrics, daily, scriptVars, faults>>

------------------------------------------------------------------------------
(* The scripts.                                                             *)

Recount(t) ==
  IF t = "notifications" THEN [k \in DOMAIN daily |-> MetricsOf(k[1], k[2])]
  ELSE [k \in DOMAIN appointments |-> EventsOf(k[1], k[2])]

TruncateAtOnce(t) ==
  /\ rebuilds < MaxRebuilds /\ rebuild[t] = NoCounts
  /\ rebuild' = [rebuild EXCEPT ![t] = Recount(t)]
  /\ rebuilds' = rebuilds + 1
  /\ UNCHANGED <<pending, unread, inbox, task, notifyVars, countVars, overlaps, faults>>
\* TRUNCATE waits for the transactions that have written to the table, and
\* keeps the others from it; the INSERT counts what is committed now.
Truncate(t) ==
  /\ rebuilds < MaxRebuilds /\ rebuild[t] = NoCounts
  /\ t = "appointments" => \A c \in Analysts : task[c].phase # "commit"
  /\ rebuild' = [rebuild EXCEPT ![t] = Recount(t)]
  /\ overlaps' = overlaps + IF t = "appointments" THEN 0
                            ELSE Cardinality({c \in Analysts : task[c].phase = "bump"})
  /\ rebuilds' = rebuilds + 1
  /\ UNCHANGED <<pending, unread, inbox, task, notifyVars, countVars, faults>>

CommitRebuild(t) ==
  /\ rebuild[t] # NoCounts
  /\ IF t = "notifications" THEN daily' = rebuild[t] /\ UNCHANGED appointments
     ELSE appointments' = rebuild[t] /\ UNCHANGED daily
  /\ rebuild' = [rebuild EXCEPT ![t] = NoCounts]
  /\ UNCHANGED <<pending, unread, inbox, task, notifyVars, metrics, bookingEvents,
                 rebuilds, overlaps, faults>>

------------------------------------------------------------------------------
Init ==
  /\ pending = Reminders \union Bookings
  /\ unread = EmptyBag /\ inbox = {}
  /\ task = [c \in Consumers |-> Idle]
  /\ handed = [r \in Reminders |-> 0]
  /\ notifications = [r \in Reminders |-> <<>>]
  /\ outcomes = <<>> /\ metrics = <<>>
  /\ daily = [k \in Channels \X Statuses |-> 0]
  /\ bookingEvents = {}
  /\ appointments = [k \in Days \X {"booked", "canceled"} |-> 0]
  /\ rebuild = [t \in {"notifications", "appointments"} |-> NoCounts]
  /\ rebuilds = 0 /\ faults = 0 /\ overlaps = 0

Step(c) ==
  \/ Record(c)
  \/ Send(c) \/ InsertNotification(c) \/ WriteOutcome(c)
  \/ InsertMetric(c) \/ BumpNotificationAggregate(c)
  \/ InsertBookingEvent(c) \/ CountAppointment(c) \/ CommitBookingEvent(c)
ReadAny(G) == \E c \in G, m \in BagToSet(unread) : Read(c, m)

Next ==
  \/ \E m \in pending : Commit(m)
  \/ \E m \in Reminders \union Bookings \union ToSet(outcomes) : Repeat(m)
  \/ ReadAny(Notifiers) \/ ReadAny(Analysts)
  \/ \E c \in Consumers : Step(c) \/ SendFails(c) \/ HandlerFails(c)
  \/ \E t \in DOMAIN rebuild : Truncate(t) \/ CommitRebuild(t)

Spec == Init /\ [][Next]_vars

\* Handlers return, readers read on while there are messages, scripts end.
FairSpec ==
  /\ Spec
  /\ \A c \in Consumers : WF_vars(Step(c))
  /\ WF_vars(ReadAny(Notifiers)) /\ WF_vars(ReadAny(Analysts))
  /\ \A t \in {"notifications", "appointments"} : WF_vars(CommitRebuild(t))

------------------------------------------------------------------------------
(* Properties.                                                              *)

\* A customer gets a reminder at most once, and it has at most one outcome,
\* whatever is delivered again, to whichever consumer, and wherever the
\* handler fails.
OneMessagePerReminder ==
  \A r \in Reminders :
    /\ handed[r] <= 1
    /\ Cardinality({n \in DOMAIN outcomes : outcomes[n].of = r}) <= 1

\* The three records of a reminder agree although nothing binds them: what is
\* announced is what was stored, "sent" went out, and what was stored without
\* a fault is announced or about to be.
OutcomesAreTrue ==
  /\ \A n \in DOMAIN outcomes :
       LET o == outcomes[n] IN
       /\ notifications[o.of] = <<o.status>>
       /\ o.status = "sent" => handed[o.of] = 1
  /\ faults = 0 => \A r \in Reminders :
       handed[r] > Cardinality({n \in DOMAIN outcomes : outcomes[n].of = r})
         => \E c \in Notifiers : task[c].phase \in {"persist", "announce"} /\ task[c].msg = r

\* An outcome is a metric at most once, and the count of a day is the number
\* of its metrics but for the handlers between their two statements, those a
\* fault has stopped there, and those a rebuild has overtaken there.
NotificationCountsFollowMetrics ==
  /\ IsInjective(metrics)
  /\ \A k \in DOMAIN daily :
       LET between == Cardinality({c \in Analysts : task[c].phase = "bump" /\ Key(task[c].msg) = k})
           rows == MetricsOf(k[1], k[2])
       IN /\ daily[k] + between <= rows + overlaps
          /\ daily[k] + between >= rows - faults

\* "Aggregates update correctly after event replay", and after a rebuild in the
\* middle of it: the counts of a day are those of its booking events, always.
AppointmentCountsFollowEvents ==
  \A k \in DOMAIN appointments : appointments[k] = EventsOf(k[1], k[2])

\* As long as nothing fails, every reminder that is due goes out and is counted
\* as sent, and every booking event is counted.
Counted(m) ==
  IF m \in Bookings THEN m \in bookingEvents
  ELSE \E o \in ToSet(metrics) : o.of = m /\ o.status = "sent"
EverythingIsCounted ==
  \A m \in Reminders \union Bookings : m \notin pending ~> (Counted(m) \/ faults > 0)
==============================================================================
