------------------------- MODULE NotificationsProofs -------------------------
(***************************************************************************)
(* What becomes of reminders and booking events, for every set of them,    *)
(* every number of consumers and of faults: the invariants that the run    *)
(* Notifications_outcomes checks on a small instance.                      *)
(*                                                                         *)
(* Messages are repeated without end; what makes each of them count once   *)
(* is the inbox (Fresh, OneHandler) for reminders and outcomes, and the    *)
(* unique index with the row locks (Storing) for booking events.  The      *)
(* counts that a script holds back until it commits obey the same bounds   *)
(* as those in the table (CountsFollow, EventsCounted).                    *)
(***************************************************************************)
EXTENDS Notifications, FiniteSetTheorems, TLAPS

Handling == {"send", "persist", "announce", "insert", "bump"}
\* Consumer c is at phase with message m.
At(c, phases, m) == task[c].phase \in phases /\ task[c].msg = m
NoOutcome(r) == \A n \in DOMAIN outcomes : outcomes[n].of # r

\* An outcome is a message once its row is there.
OutcomesAreWritten ==
  /\ \A m \in inbox \union DOMAIN unread : m \in Outcome => m \in ToSet(outcomes)
  /\ \A c \in Consumers : task[c] # Idle /\ task[c].msg \in Outcome => task[c].msg \in ToSet(outcomes)

\* A message of which the inbox knows nothing has left no trace.
Fresh ==
  /\ \A r \in Reminders \ inbox :
       /\ handed[r] = 0 /\ notifications[r] = <<>> /\ NoOutcome(r)
  /\ \A m \in Messages \ inbox :
       /\ \A c \in Consumers : ~At(c, Handling, m)
       /\ m \notin ToSet(metrics)

\* The inbox lets one consumer handle a message.
OneHandler == \A m \in Messages : \A c, d \in Consumers :
  At(c, Handling, m) /\ At(d, Handling, m) => c = d

\* How far a reminder has got.
Progress == \A c \in Consumers : \A r \in Reminders :
  /\ At(c, {"send"}, r) => handed[r] = 0 /\ notifications[r] = <<>> /\ NoOutcome(r)
  /\ At(c, {"persist"}, r) => notifications[r] = <<>> /\ NoOutcome(r)
  /\ At(c, {"announce"}, r) => notifications[r] = <<task[c].status>> /\ NoOutcome(r)
  /\ At(c, {"persist", "announce"}, r) /\ task[c].status = "sent" => handed[r] = 1

\* A reminder goes out once and has one outcome, which is what was stored.
Outcomes ==
  /\ \A r \in Reminders : handed[r] \in {0, 1}
  /\ \A n, m \in DOMAIN outcomes : outcomes[n].of = outcomes[m].of => n = m
  /\ \A n \in DOMAIN outcomes :
       /\ notifications[outcomes[n].of] = <<outcomes[n].status>>
       /\ outcomes[n].status = "sent" => handed[outcomes[n].of] = 1

\* Without a fault, what went out has its outcome or is on its way to it.
NoneLost == faults = 0 => \A r \in Reminders : handed[r] = 1 =>
  \/ ~NoOutcome(r)
  \/ \E c \in Notifiers : At(c, {"persist", "announce"}, r)

\* A consumer about to insert the metric of an outcome is the first one.
Inserting ==
  /\ \A c \in Consumers : task[c].phase = "insert" => task[c].msg \notin ToSet(metrics)
  /\ IsInjective(metrics)

\* The counts f and the metrics, but for the handlers between their two statements.
Between(k) == {c \in Analysts : task[c].phase = "bump" /\ Key(task[c].msg) = k}
CountsFollow(f) == \A k \in Channels \X Statuses :
  /\ f[k] + Cardinality(Between(k)) <= MetricsOf(k[1], k[2]) + overlaps
  /\ f[k] + Cardinality(Between(k)) >= MetricsOf(k[1], k[2]) - faults
DailyFollow ==
  /\ CountsFollow(daily)
  /\ rebuild["notifications"] # NoCounts => CountsFollow(rebuild["notifications"])

\* The transactions of handleBookingEvent: the event is new, and nobody else's;
\* nobody waits to commit while a script has the table.
Storing ==
  /\ IsFiniteSet(bookingEvents)
  /\ \A m \in Bookings : \A c \in Consumers :
       At(c, {"count", "commit"}, m) =>
         /\ m \notin bookingEvents
         /\ \A d \in Consumers : At(d, {"count", "commit"}, m) => d = c
EventsCounted(f) == \A k \in Days \X {"booked", "canceled"} : f[k] = EventsOf(k[1], k[2])
AppointmentsFollow ==
  /\ EventsCounted(appointments)
  /\ rebuild["appointments"] # NoCounts =>
       /\ EventsCounted(rebuild["appointments"])
       /\ \A c \in Consumers : task[c].phase # "commit"

\* Reminders are read by notification-service alone.
Readers == \A c \in Consumers : task[c] # Idle => c \in ReadersOf(task[c].msg)

IInv ==
  /\ TypeOK /\ Readers /\ OutcomesAreWritten
  /\ Fresh /\ OneHandler
  /\ Progress /\ Outcomes /\ NoneLost
  /\ Inserting /\ DailyFollow
  /\ Storing /\ AppointmentsFollow

------------------------------------------------------------------------------
(* Operators.                                                               *)

\* Bags with a message more and a message less.
LEMMA BagFacts ==
  ASSUME NEW B, IsABag(B), NEW m
  PROVE  /\ IsABag(B (+) SetToBag({m})) /\ DOMAIN (B (+) SetToBag({m})) = DOMAIN B \union {m}
         /\ IsABag(B (-) SetToBag({m})) /\ DOMAIN (B (-) SetToBag({m})) \subseteq DOMAIN B
<1>1. IsABag(B (+) SetToBag({m})) /\ DOMAIN (B (+) SetToBag({m})) = DOMAIN B \union {m}
  BY DEF IsABag, (+), SetToBag
<1>2. IsABag(B (-) SetToBag({m})) /\ DOMAIN (B (-) SetToBag({m})) \subseteq DOMAIN B
  BY DEF IsABag, (-), SetToBag
<1>. QED  BY <1>1, <1>2

\* What the task of a consumer is about.
LEMMA TaskFacts ==
  ASSUME NEW t \in Tasks
  PROVE  /\ t # Idle => t.msg \in Messages
         /\ t.phase \in {"send", "persist", "announce"} => t.msg \in Reminders
         /\ t.phase \in {"persist", "announce"} => t.status \in Statuses
         /\ t.phase \in {"insert", "bump"} => t.msg \in Outcome
         /\ t.phase \in {"store", "count", "commit"} => t.msg \in Bookings
         /\ t.phase = "idle" <=> t = Idle
         /\ t.phase \in {"idle", "record", "send", "persist", "announce", "insert", "bump",
                        "store", "count", "commit"}
  BY DEF Tasks, Idle, Messages

\* Three kinds of messages, each with its readers and its handler.
LEMMA MessageKinds ==
  ASSUME NEW m \in Messages
  PROVE  /\ m \in Reminders => m \notin Bookings /\ m \notin Outcome
         /\ m \in Bookings => m \notin Outcome
         /\ ReadersOf(m) = IF m \in Reminders THEN Notifiers ELSE Analysts
         /\ HandlerOf(m) = IF m \in Reminders THEN "send" ELSE IF m \in Bookings THEN "store" ELSE "insert"
  BY NotificationsAssumption DEF Messages, ReadersOf, HandlerOf

\* A sequence with an element more.
LEMMA AppendFacts ==
  ASSUME NEW S, NEW s \in Seq(S), NEW e \in S
  PROVE  /\ Append(s, e) \in Seq(S)
         /\ DOMAIN Append(s, e) = DOMAIN s \union {Len(s) + 1} /\ Len(s) + 1 \notin DOMAIN s
         /\ Append(s, e)[Len(s) + 1] = e
         /\ \A n \in DOMAIN s : Append(s, e)[n] = s[n]
         /\ ToSet(Append(s, e)) = ToSet(s) \union {e}
<1>. DEFINE q == Append(s, e)
<1>1. /\ q \in Seq(S) /\ DOMAIN q = 1..(Len(s) + 1) /\ DOMAIN s = 1..Len(s) /\ Len(s) \in Nat
      /\ q[Len(s) + 1] = e /\ \A n \in 1..Len(s) : q[n] = s[n]
  OBVIOUS
<1>. HIDE DEF q
<1>2. DOMAIN q = DOMAIN s \union {Len(s) + 1} /\ Len(s) + 1 \notin DOMAIN s
  BY <1>1
<1>3. ToSet(q) = ToSet(s) \union {e}
  BY <1>1, <1>2 DEF ToSet
<1>. QED  BY <1>1, <1>2, <1>3 DEF q

\* The places of the outcomes with a key are finitely many, and one more when an
\* outcome with that key is appended.
Places(s, k) == {n \in DOMAIN s : Key(s[n]) = k}
LEMMA PlacesAppend ==
  ASSUME NEW S, NEW s \in Seq(S), NEW e \in S, NEW k
  PROVE  /\ IsFiniteSet(Places(s, k)) /\ Cardinality(Places(s, k)) \in Nat
         /\ Cardinality(Places(Append(s, e), k)) =
              Cardinality(Places(s, k)) + (IF Key(e) = k THEN 1 ELSE 0)
<1>. DEFINE q == Append(s, e)
            old == Places(s, k)
            new == Places(q, k)
<1>1. /\ DOMAIN q = DOMAIN s \union {Len(s) + 1} /\ Len(s) + 1 \notin DOMAIN s
      /\ q[Len(s) + 1] = e /\ \A n \in DOMAIN s : q[n] = s[n]
  BY AppendFacts
<1>2. new = IF Key(e) = k THEN old \union {Len(s) + 1} ELSE old
  BY <1>1 DEF Places
<1>3. Len(s) + 1 \notin old
  BY <1>1 DEF Places
<1>4. IsFiniteSet(old)
  <2>1. DOMAIN s = 1..Len(s) /\ Len(s) \in Nat
    OBVIOUS
  <2>2. IsFiniteSet(1..Len(s))
    BY <2>1, FS_Interval
  <2>3. old \subseteq 1..Len(s)
    BY <2>1 DEF Places
  <2>. QED  BY <2>2, <2>3, FS_Subset
<1>. HIDE DEF old, new
<1>5. Cardinality(old) \in Nat
  BY <1>4, FS_CardinalityType
<1>6. Cardinality(old \union {Len(s) + 1}) = Cardinality(old) + 1
  BY <1>3, <1>4, FS_AddElement
<1>7. Cardinality(new) = Cardinality(old) + (IF Key(e) = k THEN 1 ELSE 0)
  BY <1>2, <1>5, <1>6
<1>. QED  BY <1>4, <1>5, <1>7 DEF old, new

------------------------------------------------------------------------------
(* The steps of a consumer, one lemma for each: where it stands before and   *)
(* after, and what else changes.                                            *)

\* Consumer c alone moves, from and to the given phases.
Moves(c, from, to) ==
  /\ task[c].phase = from /\ task'[c].phase = to
  /\ task[c] \in Tasks /\ task' \in [Consumers -> Tasks]
  /\ \A d \in Consumers \ {c} : task'[d] = task[d]

\* What the proofs need to know that stays.
reminderVars == <<handed, notifications, outcomes>>
dailyVars == <<metrics, daily, overlaps>>
bookingVars == <<bookingEvents, appointments>>

LEMMA MoveFacts ==
  ASSUME TypeOK, NEW c \in Consumers, NEW v \in Tasks, task' = [task EXCEPT ![c] = v]
  PROVE  /\ task[c] \in Tasks /\ task' \in [Consumers -> Tasks] /\ task'[c] = v
         /\ \A d \in Consumers \ {c} : task'[d] = task[d]
  BY DEF TypeOK

\* The phases that keep the message and nothing else.
LEMMA GotoPhaseFacts ==
  ASSUME TypeOK, NEW c \in Consumers, NEW to, GotoPhase(c, to),
         \/ task[c].phase = "record" /\ to = HandlerOf(task[c].msg)
         \/ task[c].phase = "persist" /\ to = "announce"
         \/ task[c].phase = "insert" /\ to = "bump"
         \/ task[c].phase = "store" /\ to = "count"
         \/ task[c].phase = "count" /\ to = "commit"
  PROVE  /\ Moves(c, task[c].phase, to) /\ task'[c].msg = task[c].msg
         /\ task[c].phase = "persist" => task'[c].status = task[c].status
<1>. DEFINE v == [task[c] EXCEPT !.phase = to]
<1>1. task[c] \in Tasks
  BY DEF TypeOK
<1>2. v \in Tasks /\ v.phase = to /\ v.msg = task[c].msg /\ (task[c].phase = "persist" => v.status = task[c].status)
  <2>1. CASE task[c].phase = "record"
    <3>1. task[c] \in [phase: {"record"}, msg: Messages]
      BY <1>1, <2>1 DEF Tasks, Idle
    <3>2. \/ to = "send" /\ task[c].msg \in Reminders
          \/ to = "store" /\ task[c].msg \in Bookings
          \/ to = "insert" /\ task[c].msg \in Outcome
      BY <2>1, <3>1 DEF HandlerOf, Messages
    <3>. QED  BY <3>1, <3>2 DEF Tasks
  <2>2. CASE task[c].phase = "persist"
    <3>1. task[c] \in [phase: {"persist", "announce"}, msg: Reminders, status: Statuses]
      BY <1>1, <2>2 DEF Tasks, Idle
    <3>. QED  BY <2>2, <3>1 DEF Tasks
  <2>3. CASE task[c].phase = "insert"
    <3>1. task[c] \in [phase: {"insert", "bump"}, msg: Outcome]
      BY <1>1, <2>3 DEF Tasks, Idle
    <3>. QED  BY <2>3, <3>1 DEF Tasks
  <2>4. CASE task[c].phase \in {"store", "count"}
    <3>1. task[c] \in [phase: {"store", "count", "commit"}, msg: Bookings]
      BY <1>1, <2>4 DEF Tasks, Idle
    <3>. QED  BY <2>4, <3>1 DEF Tasks
  <2>. QED  BY <2>1, <2>2, <2>3, <2>4
<1>3. task' = [task EXCEPT ![c] = v]
  BY DEF GotoPhase
<1>. HIDE DEF v
<1>4. /\ task' \in [Consumers -> Tasks] /\ task'[c] = v
      /\ \A d \in Consumers \ {c} : task'[d] = task[d]
  BY <1>2, <1>3, MoveFacts
<1>. QED  BY <1>1, <1>2, <1>4 DEF Moves

LEMMA StopFacts ==
  ASSUME TypeOK, NEW c \in Consumers, Goto(c, Idle)
  PROVE  Moves(c, task[c].phase, "idle") /\ task'[c] = Idle
<1>1. Idle \in Tasks /\ Idle.phase = "idle"
  BY DEF Tasks, Idle
<1>. QED  BY <1>1, MoveFacts DEF Goto, Moves

LEMMA ReadEffect ==
  ASSUME IInv, NEW c \in Consumers, NEW m \in DOMAIN unread, Read(c, m)
  PROVE  /\ Moves(c, "idle", "record") /\ task'[c].msg = m
         /\ c \in ReadersOf(m) /\ unread' = unread (-) SetToBag({m})
         /\ UNCHANGED <<inbox, reminderVars, dailyVars, bookingVars, rebuild, faults>>
<1>. DEFINE v == [phase |-> "record", msg |-> m]
<1>1. v \in Tasks /\ v.phase = "record" /\ v.msg = m
  BY DEF IInv, TypeOK, BagToSet, Tasks
<1>2. task' = [task EXCEPT ![c] = v] /\ task[c].phase = "idle" /\ c \in ReadersOf(m)
  BY DEF Read, Goto, Idle
<1>3. UNCHANGED <<inbox, reminderVars, dailyVars, bookingVars, rebuild, faults>>
  BY DEF Read, notifyVars, countVars, scriptVars, reminderVars, dailyVars, bookingVars
<1>. HIDE DEF v
<1>. QED  BY <1>1, <1>2, <1>3, MoveFacts DEF IInv, Moves, Read

LEMMA RecordEffect ==
  ASSUME IInv, NEW c \in Consumers, Record(c)
  PROVE  /\ task[c].msg \in Messages /\ inbox' = inbox \union {task[c].msg}
         /\ \/ Moves(c, "record", "idle") /\ task'[c] = Idle
            \/ /\ Moves(c, "record", HandlerOf(task[c].msg))
               /\ task'[c].msg = task[c].msg /\ task[c].msg \notin inbox
         /\ UNCHANGED <<unread, reminderVars, dailyVars, bookingVars, rebuild, faults>>
<1>1. task[c].phase = "record" /\ inbox' = inbox \union {task[c].msg}
      /\ (IF task[c].msg \in inbox THEN Goto(c, Idle) ELSE GotoPhase(c, HandlerOf(task[c].msg)))
  BY DEF Record
<1>2. task[c].msg \in Messages
  BY <1>1, TaskFacts DEF IInv, TypeOK, Idle
<1>3. UNCHANGED <<unread, reminderVars, dailyVars, bookingVars, rebuild, faults>>
  BY DEF Record, notifyVars, countVars, scriptVars, reminderVars, dailyVars, bookingVars
<1>4. CASE task[c].msg \in inbox
  <2>1. Moves(c, "record", "idle") /\ task'[c] = Idle
    BY <1>1, <1>4, StopFacts DEF IInv
  <2>. QED  BY <1>1, <1>2, <1>3, <2>1
<1>5. CASE task[c].msg \notin inbox
  <2>1. Moves(c, "record", HandlerOf(task[c].msg)) /\ task'[c].msg = task[c].msg
    BY <1>1, <1>5, GotoPhaseFacts DEF IInv
  <2>. QED  BY <1>1, <1>2, <1>3, <1>5, <2>1
<1>. QED  BY <1>4, <1>5

LEMMA HandlerFailsEffect ==
  ASSUME IInv, NEW c \in Consumers, HandlerFails(c)
  PROVE  /\ Moves(c, task[c].phase, "idle") /\ task'[c] = Idle /\ faults' = faults + 1
         /\ UNCHANGED <<unread, inbox, reminderVars, dailyVars, bookingVars, rebuild>>
  BY StopFacts DEF IInv, HandlerFails, Fault, notifyVars, countVars, scriptVars, reminderVars, dailyVars,
                   bookingVars

LEMMA SendEffect ==
  ASSUME IInv, NEW c \in Consumers, Send(c) \/ SendFails(c)
  PROVE  /\ Moves(c, "send", "persist")
         /\ task[c].msg \in Reminders /\ task'[c].msg = task[c].msg
         /\ \/ /\ Send(c) /\ faults' = faults /\ task'[c].status = "sent"
               /\ handed' = [handed EXCEPT ![task[c].msg] = handed[task[c].msg] + 1]
            \/ /\ SendFails(c) /\ faults' = faults + 1 /\ task'[c].status = "failed"
               /\ handed' \in {handed, [handed EXCEPT ![task[c].msg] = handed[task[c].msg] + 1]}
         /\ UNCHANGED <<unread, inbox, notifications, outcomes, dailyVars, bookingVars, rebuild>>
<1>. DEFINE r == task[c].msg
            v(st) == [phase |-> "persist", msg |-> r, status |-> st]
<1>1. task[c].phase = "send" /\ r \in Reminders
  <2>1. task[c].phase = "send" /\ task[c] \in Tasks
    BY DEF Send, SendFails, IInv, TypeOK
  <2>. QED  BY <2>1, TaskFacts
<1>2. \A st \in Statuses : v(st) \in Tasks /\ v(st).phase = "persist" /\ v(st).msg = r /\ v(st).status = st
  BY <1>1 DEF Tasks
<1>3. "sent" \in Statuses /\ "failed" \in Statuses
  BY DEF Statuses
<1>4. UNCHANGED <<unread, inbox, notifications, outcomes, dailyVars, bookingVars, rebuild>>
  BY DEF Send, SendFails, countVars, scriptVars, dailyVars, bookingVars
<1>5. CASE Send(c)
  <2>1. /\ task' = [task EXCEPT ![c] = v("sent")] /\ faults' = faults
        /\ handed' = [handed EXCEPT ![r] = handed[r] + 1]
    BY <1>5 DEF Send, Goto
  <2>. HIDE DEF v
  <2>2. task'[c] = v("sent") /\ Moves(c, "send", "persist")
    BY <1>1, <1>2, <1>3, <2>1, MoveFacts DEF IInv, Moves
  <2>. QED  BY <1>1, <1>2, <1>3, <1>4, <1>5, <2>1, <2>2
<1>6. CASE SendFails(c)
  <2>1. /\ task' = [task EXCEPT ![c] = v("failed")] /\ faults' = faults + 1
        /\ handed' \in {handed, [handed EXCEPT ![r] = handed[r] + 1]}
    BY <1>6 DEF SendFails, Goto, Fault
  <2>. HIDE DEF v
  <2>2. task'[c] = v("failed") /\ Moves(c, "send", "persist")
    BY <1>1, <1>2, <1>3, <2>1, MoveFacts DEF IInv, Moves
  <2>. QED  BY <1>1, <1>2, <1>3, <1>4, <1>6, <2>1, <2>2
<1>. QED  BY <1>5, <1>6

LEMMA InsertNotificationEffect ==
  ASSUME IInv, NEW c \in Consumers, InsertNotification(c)
  PROVE  /\ Moves(c, "persist", "announce")
         /\ task[c].msg \in Reminders /\ task'[c].msg = task[c].msg
         /\ task[c].status \in Statuses /\ task'[c].status = task[c].status
         /\ notifications' = [notifications EXCEPT ![task[c].msg] =
              Append(notifications[task[c].msg], task[c].status)]
         /\ UNCHANGED <<unread, inbox, handed, outcomes, dailyVars, bookingVars, rebuild, faults>>
<1>1. task[c].phase = "persist" /\ task[c].msg \in Reminders /\ task[c].status \in Statuses
  BY TaskFacts DEF InsertNotification, IInv, TypeOK
<1>2. GotoPhase(c, "announce")
  BY DEF InsertNotification
<1>3. /\ UNCHANGED <<unread, inbox, handed, outcomes, dailyVars, bookingVars, rebuild, faults>>
      /\ notifications' = [notifications EXCEPT ![task[c].msg] =
              Append(notifications[task[c].msg], task[c].status)]
  BY DEF InsertNotification, countVars, scriptVars, dailyVars, bookingVars
<1>. QED  BY <1>1, <1>2, <1>3, GotoPhaseFacts DEF IInv

LEMMA WriteOutcomeEffect ==
  ASSUME IInv, NEW c \in Consumers, WriteOutcome(c)
  PROVE  /\ Moves(c, "announce", "idle") /\ task'[c] = Idle
         /\ task[c].msg \in Reminders
         /\ \E o \in Outcome :
              /\ o.row = Len(outcomes) + 1 /\ o.of = task[c].msg /\ o.status = task[c].status
              /\ outcomes' = Append(outcomes, o)
              /\ unread' = unread (+) SetToBag({o})
         /\ UNCHANGED <<inbox, handed, notifications, dailyVars, bookingVars, rebuild, faults>>
<1>. DEFINE o == [row |-> Len(outcomes) + 1, of |-> task[c].msg, status |-> task[c].status]
<1>1. task[c].phase = "announce" /\ task[c].msg \in Reminders /\ task[c].status \in Statuses
  BY TaskFacts DEF WriteOutcome, IInv, TypeOK
<1>2. Len(outcomes) + 1 \in Nat
  BY DEF IInv, TypeOK
<1>3. /\ o \in Outcome
      /\ o.row = Len(outcomes) + 1 /\ o.of = task[c].msg /\ o.status = task[c].status
  BY <1>1, <1>2 DEF Outcome
<1>4. outcomes' = Append(outcomes, o) /\ unread' = unread (+) SetToBag({o}) /\ Goto(c, Idle)
  BY DEF WriteOutcome, Put
<1>. HIDE DEF o
<1>5. UNCHANGED <<inbox, handed, notifications, dailyVars, bookingVars, rebuild, faults>>
  BY DEF WriteOutcome, countVars, scriptVars, dailyVars, bookingVars
<1>. QED  BY <1>1, <1>3, <1>4, <1>5, StopFacts DEF IInv

LEMMA InsertMetricEffect ==
  ASSUME IInv, NEW c \in Consumers, InsertMetric(c)
  PROVE  /\ Moves(c, "insert", "bump")
         /\ task[c].msg \in Outcome /\ task'[c].msg = task[c].msg
         /\ metrics' = Append(metrics, task[c].msg)
         /\ UNCHANGED <<unread, inbox, reminderVars, daily, overlaps, bookingVars, rebuild, faults>>
<1>1. task[c].phase = "insert" /\ task[c].msg \in Outcome
  BY TaskFacts DEF InsertMetric, IInv, TypeOK
<1>2. GotoPhase(c, "bump") /\ metrics' = Append(metrics, task[c].msg)
  BY DEF InsertMetric
<1>3. UNCHANGED <<unread, inbox, reminderVars, daily, overlaps, bookingVars, rebuild, faults>>
  BY DEF InsertMetric, notifyVars, scriptVars, reminderVars, bookingVars
<1>. QED  BY <1>1, <1>2, <1>3, GotoPhaseFacts DEF IInv

LEMMA BumpEffect ==
  ASSUME IInv, NEW c \in Consumers, BumpNotificationAggregate(c)
  PROVE  /\ Moves(c, "bump", "idle") /\ task'[c] = Idle /\ task[c].msg \in Outcome
         /\ rebuild["notifications"] = NoCounts
         /\ daily' = [daily EXCEPT ![Key(task[c].msg)] = daily[Key(task[c].msg)] + 1]
         /\ UNCHANGED <<unread, inbox, reminderVars, metrics, overlaps, bookingVars, rebuild, faults>>
<1>1. task[c].phase = "bump" /\ task[c].msg \in Outcome
  BY TaskFacts DEF BumpNotificationAggregate, IInv, TypeOK
<1>2. /\ Goto(c, Idle) /\ rebuild["notifications"] = NoCounts
      /\ daily' = [daily EXCEPT ![Key(task[c].msg)] = daily[Key(task[c].msg)] + 1]
  BY DEF BumpNotificationAggregate
<1>3. UNCHANGED <<unread, inbox, reminderVars, metrics, overlaps, bookingVars, rebuild, faults>>
  BY DEF BumpNotificationAggregate, notifyVars, scriptVars, reminderVars, bookingVars
<1>. QED  BY <1>1, <1>2, <1>3, StopFacts DEF IInv

LEMMA InsertBookingEventEffect ==
  ASSUME IInv, NEW c \in Consumers, InsertBookingEvent(c)
  PROVE  /\ task[c].msg \in Bookings
         /\ \/ Moves(c, "store", "idle") /\ task'[c] = Idle
            \/ /\ Moves(c, "store", "count") /\ task'[c].msg = task[c].msg
               /\ task[c].msg \notin bookingEvents /\ ~Uncommitted(task[c].msg)
         /\ UNCHANGED <<unread, inbox, reminderVars, dailyVars, bookingVars, rebuild, faults>>
<1>1. task[c].phase = "store" /\ task[c].msg \in Bookings
  BY TaskFacts DEF InsertBookingEvent, IInv, TypeOK
<1>2. /\ ~Uncommitted(task[c].msg)
      /\ IF task[c].msg \in bookingEvents THEN Goto(c, Idle) ELSE GotoPhase(c, "count")
  BY DEF InsertBookingEvent
<1>3. UNCHANGED <<unread, inbox, reminderVars, dailyVars, bookingVars, rebuild, faults>>
  BY DEF InsertBookingEvent, notifyVars, countVars, scriptVars, reminderVars, dailyVars, bookingVars
<1>4. CASE task[c].msg \in bookingEvents
  <2>1. Moves(c, "store", "idle") /\ task'[c] = Idle
    BY <1>1, <1>2, <1>4, StopFacts DEF IInv
  <2>. QED  BY <1>1, <1>3, <2>1
<1>5. CASE task[c].msg \notin bookingEvents
  <2>1. Moves(c, "store", "count") /\ task'[c].msg = task[c].msg
    BY <1>1, <1>2, <1>5, GotoPhaseFacts DEF IInv
  <2>. QED  BY <1>1, <1>2, <1>3, <1>5, <2>1
<1>. QED  BY <1>4, <1>5

LEMMA CountAppointmentEffect ==
  ASSUME IInv, NEW c \in Consumers, CountAppointment(c)
  PROVE  /\ Moves(c, "count", "commit") /\ task'[c].msg = task[c].msg /\ task[c].msg \in Bookings
         /\ rebuild["appointments"] = NoCounts
         /\ UNCHANGED <<unread, inbox, reminderVars, dailyVars, bookingVars, rebuild, faults>>
<1>1. task[c].phase = "count" /\ task[c].msg \in Bookings
  BY TaskFacts DEF CountAppointment, IInv, TypeOK
<1>2. GotoPhase(c, "commit") /\ rebuild["appointments"] = NoCounts
  BY DEF CountAppointment
<1>3. UNCHANGED <<unread, inbox, reminderVars, dailyVars, bookingVars, rebuild, faults>>
  BY DEF CountAppointment, notifyVars, countVars, scriptVars, reminderVars, dailyVars, bookingVars
<1>. QED  BY <1>1, <1>2, <1>3, GotoPhaseFacts DEF IInv

LEMMA CommitBookingEventEffect ==
  ASSUME IInv, NEW c \in Consumers, CommitBookingEvent(c)
  PROVE  /\ Moves(c, "commit", "idle") /\ task'[c] = Idle /\ task[c].msg \in Bookings
         /\ bookingEvents' = bookingEvents \union {task[c].msg}
         /\ LET k == <<task[c].msg.day, task[c].msg.kind>> IN
              appointments' = [appointments EXCEPT ![k] = appointments[k] + 1]
         /\ UNCHANGED <<unread, inbox, reminderVars, dailyVars, rebuild, faults>>
<1>1. task[c].phase = "commit" /\ task[c].msg \in Bookings
  BY TaskFacts DEF CommitBookingEvent, IInv, TypeOK
<1>2. /\ Goto(c, Idle)
      /\ bookingEvents' = bookingEvents \union {task[c].msg}
      /\ LET k == <<task[c].msg.day, task[c].msg.kind>> IN
           appointments' = [appointments EXCEPT ![k] = appointments[k] + 1]
  BY DEF CommitBookingEvent
<1>3. UNCHANGED <<unread, inbox, reminderVars, dailyVars, rebuild, faults>>
  BY DEF CommitBookingEvent, notifyVars, scriptVars, reminderVars, dailyVars
<1>. QED  BY <1>1, <1>2, <1>3, StopFacts DEF IInv

\* The steps that move no consumer: the messages of the others, and the scripts.
Quiet ==
  /\ UNCHANGED <<inbox, task, reminderVars, metrics, bookingEvents>>
  /\ \/ /\ \/ UNCHANGED unread
           \/ \E m \in Reminders \union Bookings \union ToSet(outcomes) : unread' = unread (+) SetToBag({m})
        /\ UNCHANGED <<daily, appointments, rebuild, overlaps>>
        /\ faults' = faults \/ faults' = faults + 1
     \/ /\ UNCHANGED <<unread, faults>>
        /\ \E t \in DOMAIN rebuild : Truncate(t) \/ CommitRebuild(t)

LEMMA StepCases ==
  ASSUME IInv, [Next]_vars
  PROVE  \/ Quiet
         \/ \E c \in Consumers, m \in DOMAIN unread : Read(c, m)
         \/ \E c \in Consumers : Step(c) \/ SendFails(c) \/ HandlerFails(c)
<1>1. ASSUME NEW m \in pending, Commit(m)  PROVE Quiet
  <2>1. m \in Reminders \union Bookings
    BY DEF IInv, TypeOK
  <2>. QED  BY <1>1, <2>1 DEF Commit, Put, Quiet, notifyVars, countVars, scriptVars, reminderVars
<1>2. ASSUME NEW m \in Reminders \union Bookings \union ToSet(outcomes), Repeat(m)  PROVE Quiet
  BY <1>2 DEF Repeat, Put, Fault, Quiet, notifyVars, countVars, scriptVars, reminderVars
<1>3. ASSUME NEW t \in DOMAIN rebuild, Truncate(t) \/ CommitRebuild(t)  PROVE Quiet
  BY <1>3 DEF Truncate, CommitRebuild, Quiet, notifyVars, countVars, reminderVars
<1>4. CASE UNCHANGED vars
  BY <1>4 DEF vars, Quiet, notifyVars, countVars, scriptVars, reminderVars
<1>5. CASE ReadAny(Notifiers) \/ ReadAny(Analysts)
  BY <1>5 DEF ReadAny, Consumers, BagToSet
<1>. QED  BY <1>1, <1>2, <1>3, <1>4, <1>5 DEF Next

LEMMA OthersStay ==
  ASSUME IInv, NEW c \in Consumers, Step(c) \/ SendFails(c) \/ HandlerFails(c), NEW d \in Consumers, c # d
  PROVE  task'[d] = task[d]
<1>1. CASE Record(c) \/ Send(c) \/ SendFails(c) \/ HandlerFails(c)
  BY <1>1, RecordEffect, SendEffect, HandlerFailsEffect DEF Moves
<1>2. CASE InsertNotification(c) \/ WriteOutcome(c)
  BY <1>2, InsertNotificationEffect, WriteOutcomeEffect DEF Moves
<1>3. CASE InsertMetric(c) \/ BumpNotificationAggregate(c)
  BY <1>3, InsertMetricEffect, BumpEffect DEF Moves
<1>4. CASE InsertBookingEvent(c) \/ CountAppointment(c) \/ CommitBookingEvent(c)
  BY <1>4, InsertBookingEventEffect, CountAppointmentEffect, CommitBookingEventEffect DEF Moves
<1>. QED  BY <1>1, <1>2, <1>3, <1>4 DEF Step

------------------------------------------------------------------------------
(* Who handles a message.                                                   *)

LEMMA HandledIsKnown ==
  ASSUME IInv, NEW c \in Consumers, task[c].phase \in Handling
  PROVE  task[c].msg \in Messages /\ task[c].msg \in inbox
<1>1. task[c] \in Tasks /\ task[c] # Idle
  BY DEF IInv, TypeOK, Handling, Idle
<1>2. task[c].msg \in Messages
  BY <1>1, TaskFacts
<1>. QED  BY <1>2 DEF IInv, Fresh, At

LEMMA InboxGrows ==
  ASSUME IInv, [Next]_vars
  PROVE  inbox \subseteq inbox'
<1>1. ASSUME NEW c \in Consumers, Step(c) \/ SendFails(c) \/ HandlerFails(c)  PROVE inbox \subseteq inbox'
  BY <1>1, RecordEffect, SendEffect, InsertNotificationEffect, WriteOutcomeEffect, InsertMetricEffect,
     BumpEffect, InsertBookingEventEffect, CountAppointmentEffect, CommitBookingEventEffect,
     HandlerFailsEffect DEF Step
<1>. QED  BY <1>1, ReadEffect, StepCases DEF Quiet

\* A consumer that handles a message after a step did so before, or is the one
\* that has just recorded it.
LEMMA HandlingStep ==
  ASSUME IInv, [Next]_vars, NEW d \in Consumers, task'[d].phase \in Handling
  PROVE  \/ task[d].phase \in Handling /\ task[d].msg = task'[d].msg
         \/ /\ task[d].msg = task'[d].msg /\ task'[d].msg \notin inbox /\ task'[d].msg \in inbox'
            /\ task'[d].phase = HandlerOf(task'[d].msg) /\ task'[d].msg \in Messages
            /\ \A e \in Consumers \ {d} : task'[e] = task[e]
            /\ UNCHANGED <<reminderVars, metrics>>
<1>1. CASE Quiet
  BY <1>1 DEF Quiet
<1>2. CASE \E c \in Consumers, m \in DOMAIN unread : Read(c, m)
  BY <1>2, ReadEffect DEF Moves, Handling
<1>3. ASSUME NEW c \in Consumers, Record(c)
      PROVE  \/ task[d].phase \in Handling /\ task[d].msg = task'[d].msg
             \/ /\ task[d].msg = task'[d].msg /\ task'[d].msg \notin inbox /\ task'[d].msg \in inbox'
                /\ task'[d].phase = HandlerOf(task'[d].msg) /\ task'[d].msg \in Messages
                /\ \A e \in Consumers \ {d} : task'[e] = task[e]
                /\ UNCHANGED <<reminderVars, metrics>>
  <2>1. CASE d = c
    BY <1>3, <2>1, RecordEffect DEF Moves, Handling, dailyVars
  <2>2. CASE d # c
    BY <1>3, <2>2, RecordEffect DEF Moves
  <2>. QED  BY <2>1, <2>2
<1>4. ASSUME NEW c \in Consumers, \/ HandlerFails(c) \/ WriteOutcome(c) \/ BumpNotificationAggregate(c)
                                  \/ InsertBookingEvent(c) \/ CountAppointment(c) \/ CommitBookingEvent(c)
      PROVE  task[d].phase \in Handling /\ task[d].msg = task'[d].msg
  <2>1. task'[c].phase \notin Handling /\ \A e \in Consumers \ {c} : task'[e] = task[e]
    BY <1>4, HandlerFailsEffect, WriteOutcomeEffect, BumpEffect, InsertBookingEventEffect,
       CountAppointmentEffect, CommitBookingEventEffect DEF Moves, Handling
  <2>. QED  BY <2>1
<1>5. ASSUME NEW c \in Consumers, Send(c) \/ SendFails(c) \/ InsertNotification(c) \/ InsertMetric(c)
      PROVE  task[d].phase \in Handling /\ task[d].msg = task'[d].msg
  <2>1. /\ task[c].phase \in Handling /\ task[c].msg = task'[c].msg
        /\ \A e \in Consumers \ {c} : task'[e] = task[e]
    BY <1>5, SendEffect, InsertNotificationEffect, InsertMetricEffect DEF Moves, Handling
  <2>. QED  BY <2>1
<1>. QED  BY <1>1, <1>2, <1>3, <1>4, <1>5, StepCases DEF Step

LEMMA OneHandlerStep ==
  ASSUME IInv, [Next]_vars
  PROVE  OneHandler'
<1>. SUFFICES ASSUME NEW m \in Messages, NEW c \in Consumers, NEW d \in Consumers,
                     At(c, Handling, m)', At(d, Handling, m)', c # d
              PROVE  FALSE
  BY DEF OneHandler
<1>1. /\ task'[c].phase \in Handling /\ task'[c].msg = m
      /\ task'[d].phase \in Handling /\ task'[d].msg = m
  BY DEF At
<1>2. \A e \in Consumers : task[e].phase \in Handling /\ task[e].msg = m => m \in inbox
  BY HandledIsKnown
<1>3. CASE m \in inbox
  BY <1>1, <1>3, HandlingStep DEF IInv, OneHandler, At
<1>4. CASE m \notin inbox
  <2>1. \A e \in Consumers \ {c} : task'[e] = task[e]
    BY <1>1, <1>2, <1>4, HandlingStep
  <2>. QED  BY <1>1, <1>2, <1>4, <2>1
<1>. QED  BY <1>3, <1>4

LEMMA ReadersStep ==
  ASSUME IInv, [Next]_vars
  PROVE  Readers'
<1>. SUFFICES ASSUME NEW d \in Consumers, task'[d] # Idle
              PROVE  d \in ReadersOf(task'[d].msg)
  BY DEF Readers, ReadersOf
<1>0. task[d] # Idle => d \in ReadersOf(task[d].msg)
  BY DEF IInv, Readers
<1>1. CASE Quiet
  BY <1>0, <1>1 DEF Quiet
<1>2. ASSUME NEW c \in Consumers, NEW m \in DOMAIN unread, Read(c, m)
      PROVE  d \in ReadersOf(task'[d].msg)
  BY <1>0, <1>2, ReadEffect DEF Moves
<1>3. ASSUME NEW c \in Consumers, Step(c) \/ SendFails(c) \/ HandlerFails(c)
      PROVE  d \in ReadersOf(task'[d].msg)
  <2>1. /\ task[c] # Idle /\ (task'[c] = Idle \/ task'[c].msg = task[c].msg)
        /\ \A e \in Consumers \ {c} : task'[e] = task[e]
    <3>1. /\ (task'[c] = Idle \/ task'[c].msg = task[c].msg)
          /\ \A e \in Consumers \ {c} : task'[e] = task[e]
      BY <1>3, RecordEffect, SendEffect, InsertNotificationEffect, WriteOutcomeEffect, InsertMetricEffect,
         BumpEffect, InsertBookingEventEffect, CountAppointmentEffect, CommitBookingEventEffect,
         HandlerFailsEffect DEF Step, Moves
    <3>2. task[c] # Idle
      BY <1>3 DEF Step, SendFails, HandlerFails, Record, Send, InsertNotification, WriteOutcome, InsertMetric,
                  BumpNotificationAggregate, InsertBookingEvent, CountAppointment, CommitBookingEvent, Idle
    <3>. QED  BY <3>1, <3>2
  <2>. QED  BY <1>0, <2>1
<1>. QED  BY <1>1, <1>2, <1>3, StepCases

LEMMA OutcomesGrow ==
  ASSUME IInv, [Next]_vars
  PROVE  /\ outcomes' \in Seq(Outcome) /\ ToSet(outcomes) \subseteq ToSet(outcomes')
         /\ \A n \in DOMAIN outcomes' : outcomes'[n].row = n
<1>0. outcomes \in Seq(Outcome) /\ \A n \in DOMAIN outcomes : outcomes[n].row = n
  BY DEF IInv, TypeOK
<1>1. ASSUME NEW c \in Consumers, WriteOutcome(c)
      PROVE  /\ outcomes' \in Seq(Outcome) /\ ToSet(outcomes) \subseteq ToSet(outcomes')
             /\ \A n \in DOMAIN outcomes' : outcomes'[n].row = n
  <2>1. PICK o \in Outcome : o.row = Len(outcomes) + 1 /\ outcomes' = Append(outcomes, o)
    BY <1>1, WriteOutcomeEffect
  <2>2. /\ outcomes' \in Seq(Outcome)
        /\ DOMAIN outcomes' = DOMAIN outcomes \union {Len(outcomes) + 1}
        /\ outcomes'[Len(outcomes) + 1] = o
        /\ \A n \in DOMAIN outcomes : outcomes'[n] = outcomes[n]
        /\ ToSet(outcomes') = ToSet(outcomes) \union {o}
    BY <1>0, <2>1, AppendFacts
  <2>. QED  BY <1>0, <2>1, <2>2
<1>2. ASSUME NEW c \in Consumers, Step(c) \/ SendFails(c) \/ HandlerFails(c), ~WriteOutcome(c)
      PROVE  outcomes' = outcomes
  BY <1>2, RecordEffect, SendEffect, InsertNotificationEffect, InsertMetricEffect,
     BumpEffect, InsertBookingEventEffect, CountAppointmentEffect, CommitBookingEventEffect,
     HandlerFailsEffect DEF Step, reminderVars
<1>3. CASE outcomes' = outcomes
  BY <1>0, <1>3
<1>. QED  BY <1>1, <1>2, <1>3, ReadEffect, StepCases DEF Quiet, reminderVars

LEMMA OutcomesAreWrittenStep ==
  ASSUME IInv, [Next]_vars
  PROVE  OutcomesAreWritten'
<1>. DEFINE Ok1(m) == m \in Outcome => m \in ToSet(outcomes')
<1>0. /\ \A m \in inbox \union DOMAIN unread : Ok1(m)
      /\ \A c \in Consumers : task[c] # Idle => Ok1(task[c].msg)
      /\ IsABag(unread)
  BY OutcomesGrow DEF IInv, TypeOK, OutcomesAreWritten
<1>. SUFFICES /\ \A m \in inbox' \union DOMAIN unread' : Ok1(m)
              /\ \A c \in Consumers : task'[c] # Idle => Ok1(task'[c].msg)
  BY DEF OutcomesAreWritten
<1>1. CASE Quiet
  <2>1. ASSUME NEW m \in Reminders \union Bookings \union ToSet(outcomes), unread' = unread (+) SetToBag({m})
        PROVE  \A x \in DOMAIN unread' : Ok1(x)
    <3>1. Ok1(m)
      BY NotificationsAssumption, OutcomesGrow
    <3>2. DOMAIN unread' = DOMAIN unread \union {m}
      BY <1>0, <2>1, BagFacts
    <3>. QED  BY <1>0, <3>1, <3>2
  <2>2. UNCHANGED <<inbox, task>>
    BY <1>1 DEF Quiet
  <2>3. \A x \in DOMAIN unread' : Ok1(x)
    BY <1>0, <1>1, <2>1 DEF Quiet
  <2>. QED  BY <1>0, <2>2, <2>3
<1>2. ASSUME NEW c \in Consumers, NEW m \in DOMAIN unread, Read(c, m)
      PROVE  /\ \A x \in inbox' \union DOMAIN unread' : Ok1(x)
             /\ \A e \in Consumers : task'[e] # Idle => Ok1(task'[e].msg)
  <2>1. DOMAIN unread' \subseteq DOMAIN unread /\ inbox' = inbox
    BY <1>0, <1>2, ReadEffect, BagFacts
  <2>2. task'[c].msg = m /\ \A e \in Consumers \ {c} : task'[e] = task[e]
    BY <1>2, ReadEffect DEF Moves
  <2>. HIDE DEF Ok1
  <2>. QED  BY <1>0, <2>1, <2>2
<1>3. ASSUME NEW c \in Consumers, WriteOutcome(c)
      PROVE  /\ \A x \in inbox' \union DOMAIN unread' : Ok1(x)
             /\ \A e \in Consumers : task'[e] # Idle => Ok1(task'[e].msg)
  <2>1. PICK o \in Outcome : outcomes' = Append(outcomes, o) /\ unread' = unread (+) SetToBag({o})
    BY <1>3, WriteOutcomeEffect
  <2>2. DOMAIN unread' = DOMAIN unread \union {o} /\ ToSet(outcomes') = ToSet(outcomes) \union {o}
    <3>1. DOMAIN unread' = DOMAIN unread \union {o}
      BY <1>0, <2>1, BagFacts
    <3>2. outcomes \in Seq(Outcome)
      BY DEF IInv, TypeOK
    <3>. QED  BY <2>1, <3>1, <3>2, AppendFacts
  <2>3. inbox' = inbox /\ task'[c] = Idle /\ \A e \in Consumers \ {c} : task'[e] = task[e]
    BY <1>3, WriteOutcomeEffect DEF Moves
  <2>4. Ok1(o)
    BY <2>2
  <2>. HIDE DEF Ok1
  <2>. QED  BY <1>0, <2>2, <2>3, <2>4
<1>4. ASSUME NEW c \in Consumers, Step(c) \/ SendFails(c) \/ HandlerFails(c), ~WriteOutcome(c)
      PROVE  /\ \A x \in inbox' \union DOMAIN unread' : Ok1(x)
             /\ \A e \in Consumers : task'[e] # Idle => Ok1(task'[e].msg)
  <2>1. /\ unread' = unread /\ inbox' \subseteq inbox \union {task[c].msg}
        /\ (task'[c] = Idle \/ task'[c].msg = task[c].msg)
        /\ \A e \in Consumers \ {c} : task'[e] = task[e]
    BY <1>4, RecordEffect, SendEffect, InsertNotificationEffect, InsertMetricEffect,
       BumpEffect, InsertBookingEventEffect, CountAppointmentEffect, CommitBookingEventEffect,
       HandlerFailsEffect DEF Step, Moves
  <2>2. task[c] # Idle
    BY <1>4 DEF Step, SendFails, HandlerFails, Record, Send, InsertNotification, WriteOutcome, InsertMetric,
                BumpNotificationAggregate, InsertBookingEvent, CountAppointment, CommitBookingEvent, Idle
  <2>. HIDE DEF Ok1
  <2>. QED  BY <1>0, <2>1, <2>2
<1>. QED  BY <1>1, <1>2, <1>3, <1>4, StepCases

------------------------------------------------------------------------------
(* Reminders.                                                               *)

\* What the handler of a reminder does to its records, and to no other's.
LEMMA ReminderSteps ==
  ASSUME IInv, [Next]_vars, NEW r \in Reminders
  PROVE  \/ /\ handed'[r] = handed[r] /\ notifications'[r] = notifications[r]
            /\ NoOutcome(r)' <=> NoOutcome(r)
         \/ \E c \in Consumers :
              /\ At(c, {"send", "persist", "announce"}, r)
              /\ Send(c) \/ SendFails(c) \/ InsertNotification(c) \/ WriteOutcome(c)
<1>0. handed \in [Reminders -> Nat] /\ notifications \in [Reminders -> Seq(Statuses)]
      /\ outcomes \in Seq(Outcome)
  BY DEF IInv, TypeOK
<1>1. CASE UNCHANGED reminderVars
  BY <1>1 DEF reminderVars, NoOutcome
<1>2. ASSUME NEW c \in Consumers, Send(c) \/ SendFails(c) \/ InsertNotification(c), task[c].msg # r
      PROVE  /\ handed'[r] = handed[r] /\ notifications'[r] = notifications[r]
             /\ NoOutcome(r)' <=> NoOutcome(r)
  <2>1. outcomes' = outcomes /\ handed'[r] = handed[r] /\ notifications'[r] = notifications[r]
    BY <1>0, <1>2, SendEffect, InsertNotificationEffect
  <2>. QED  BY <2>1 DEF NoOutcome
<1>3. ASSUME NEW c \in Consumers, WriteOutcome(c), task[c].msg # r
      PROVE  /\ handed'[r] = handed[r] /\ notifications'[r] = notifications[r]
             /\ NoOutcome(r)' <=> NoOutcome(r)
  <2>1. PICK o \in Outcome : o.of = task[c].msg /\ outcomes' = Append(outcomes, o)
    BY <1>3, WriteOutcomeEffect
  <2>2. /\ DOMAIN outcomes' = DOMAIN outcomes \union {Len(outcomes) + 1}
        /\ outcomes'[Len(outcomes) + 1] = o
        /\ \A n \in DOMAIN outcomes : outcomes'[n] = outcomes[n]
    BY <1>0, <2>1, AppendFacts
  <2>3. NoOutcome(r)' <=> NoOutcome(r)
    BY <1>3, <2>1, <2>2 DEF NoOutcome
  <2>. QED  BY <1>3, <2>3, WriteOutcomeEffect
<1>4. ASSUME NEW c \in Consumers, Send(c) \/ SendFails(c) \/ InsertNotification(c) \/ WriteOutcome(c),
             task[c].msg = r
      PROVE  At(c, {"send", "persist", "announce"}, r)
  BY <1>4 DEF Send, SendFails, InsertNotification, WriteOutcome, At
<1>5. ASSUME NEW c \in Consumers, Step(c) \/ HandlerFails(c),
             ~(Send(c) \/ InsertNotification(c) \/ WriteOutcome(c))
      PROVE  UNCHANGED reminderVars
  BY <1>5, RecordEffect, InsertMetricEffect, BumpEffect, InsertBookingEventEffect, CountAppointmentEffect,
     CommitBookingEventEffect, HandlerFailsEffect DEF Step
<1>. QED  BY <1>1, <1>2, <1>3, <1>4, <1>5, ReadEffect, StepCases DEF Step, Quiet

LEMMA MetricsGrow ==
  ASSUME IInv, [Next]_vars
  PROVE  \/ metrics' = metrics
         \/ \E c \in Consumers : InsertMetric(c)
<1>1. ASSUME NEW c \in Consumers, Step(c) \/ SendFails(c) \/ HandlerFails(c), ~InsertMetric(c)
      PROVE  metrics' = metrics
  BY <1>1, RecordEffect, SendEffect, InsertNotificationEffect, WriteOutcomeEffect, BumpEffect,
     InsertBookingEventEffect, CountAppointmentEffect, CommitBookingEventEffect, HandlerFailsEffect
  DEF Step, dailyVars
<1>. QED  BY <1>1, ReadEffect, StepCases DEF Quiet, dailyVars

LEMMA FreshStep ==
  ASSUME IInv, [Next]_vars
  PROVE  Fresh'
<1>1. ASSUME NEW r \in Reminders \ inbox'
      PROVE  handed'[r] = 0 /\ notifications'[r] = <<>> /\ NoOutcome(r)'
  <2>1. r \in Reminders \ inbox
    BY InboxGrows
  <2>2. handed[r] = 0 /\ notifications[r] = <<>> /\ NoOutcome(r)
    BY <2>1 DEF IInv, Fresh
  <2>3. \A c \in Consumers : ~At(c, {"send", "persist", "announce"}, r)
    BY <2>1, HandledIsKnown DEF At, Handling
  <2>. QED  BY <2>1, <2>2, <2>3, ReminderSteps
<1>2. ASSUME NEW m \in Messages \ inbox', NEW c \in Consumers, At(c, Handling, m)'
      PROVE  FALSE
  <2>1. task'[c].phase \in Handling /\ task'[c].msg = m
    BY <1>2 DEF At
  <2>. QED  BY <2>1, HandlingStep, HandledIsKnown, InboxGrows
<1>3. ASSUME NEW m \in Messages \ inbox', m \in ToSet(metrics')
      PROVE  FALSE
  <2>1. m \notin inbox /\ m \notin ToSet(metrics)
    BY InboxGrows DEF IInv, Fresh
  <2>2. CASE metrics' = metrics
    BY <1>3, <2>1, <2>2
  <2>3. ASSUME NEW c \in Consumers, InsertMetric(c)  PROVE FALSE
    <3>1. metrics' = Append(metrics, task[c].msg) /\ task[c].msg \in Outcome /\ task[c].phase \in Handling
      BY <2>3, InsertMetricEffect DEF Moves, Handling
    <3>2. ToSet(metrics') = ToSet(metrics) \union {task[c].msg}
      BY <3>1, AppendFacts DEF IInv, TypeOK
    <3>. QED  BY <1>3, <2>1, <3>1, <3>2, HandledIsKnown
  <2>. QED  BY <2>2, <2>3, MetricsGrow
<1>. QED  BY <1>1, <1>2, <1>3 DEF Fresh

LEMMA InsertingStep ==
  ASSUME IInv, [Next]_vars
  PROVE  Inserting'
<1>0. metrics \in Seq(Outcome) /\ IsInjective(metrics)
  BY DEF IInv, TypeOK, Inserting
<1>1. CASE metrics' = metrics
  <2>1. ASSUME NEW c \in Consumers, task'[c].phase = "insert"  PROVE task'[c].msg \notin ToSet(metrics)
    <3>1. CASE task[c].phase \in Handling /\ task[c].msg = task'[c].msg
      <4>1. task[c].phase = "insert"
        <5>1. SUFFICES ASSUME task[c].phase # "insert"  PROVE FALSE
          OBVIOUS
        <5>2. CASE Quiet
          BY <2>1, <5>1, <5>2 DEF Quiet
        <5>3. ASSUME NEW d \in Consumers, NEW m \in DOMAIN unread, Read(d, m)  PROVE FALSE
          BY <2>1, <5>1, <5>3, ReadEffect DEF Moves
        <5>4. ASSUME NEW d \in Consumers, Record(d)  PROVE FALSE
          <6>1. CASE d = c
            BY <3>1, <5>4, <6>1, RecordEffect DEF Moves, Handling
          <6>2. CASE d # c
            BY <2>1, <5>1, <5>4, <6>2, RecordEffect DEF Moves
          <6>. QED  BY <6>1, <6>2
        <5>5. ASSUME NEW d \in Consumers, Step(d) \/ SendFails(d) \/ HandlerFails(d), ~Record(d)  PROVE FALSE
          <6>1. CASE d = c
            BY <2>1, <5>5, <6>1, SendEffect, InsertNotificationEffect, WriteOutcomeEffect, InsertMetricEffect,
               BumpEffect, InsertBookingEventEffect, CountAppointmentEffect, CommitBookingEventEffect,
               HandlerFailsEffect DEF Step, Moves
          <6>2. CASE d # c
            BY <2>1, <5>1, <5>5, <6>2, OthersStay
          <6>. QED  BY <6>1, <6>2
        <5>. QED  BY <5>2, <5>3, <5>4, <5>5, StepCases
      <4>. QED  BY <3>1, <4>1 DEF IInv, Inserting
    <3>2. CASE task'[c].msg \notin inbox /\ task'[c].msg \in Messages
      BY <3>2 DEF IInv, Fresh
    <3>. QED  BY <2>1, <3>1, <3>2, HandlingStep DEF Handling
  <2>. QED  BY <1>0, <1>1, <2>1 DEF Inserting
<1>2. ASSUME NEW d \in Consumers, InsertMetric(d)  PROVE Inserting'
  <2>. DEFINE o == task[d].msg
  <2>1. /\ Moves(d, "insert", "bump") /\ o \in Outcome /\ task'[d].msg = o
        /\ metrics' = Append(metrics, o)
    BY <1>2, InsertMetricEffect
  <2>2. o \notin ToSet(metrics)
    BY <2>1 DEF IInv, Inserting, Moves
  <2>3. /\ DOMAIN metrics' = DOMAIN metrics \union {Len(metrics) + 1} /\ Len(metrics) + 1 \notin DOMAIN metrics
        /\ metrics'[Len(metrics) + 1] = o
        /\ \A n \in DOMAIN metrics : metrics'[n] = metrics[n]
        /\ ToSet(metrics') = ToSet(metrics) \union {o}
    BY <1>0, <2>1, AppendFacts
  <2>4. IsInjective(metrics')
    BY <1>0, <2>2, <2>3 DEF IsInjective, ToSet
  <2>5. ASSUME NEW c \in Consumers, task'[c].phase = "insert"  PROVE task'[c].msg \notin ToSet(metrics')
    <3>1. c # d /\ task[c] = task'[c]
      BY <2>1, <2>5 DEF Moves
    <3>2. task[c].msg # o
      <4>1. At(c, Handling, task[c].msg) /\ At(d, Handling, o) /\ o \in Messages
        BY <2>1, <2>5, <3>1 DEF Moves, At, Handling, Messages
      <4>. QED  BY <3>1, <4>1 DEF IInv, OneHandler
    <3>3. task[c].msg \notin ToSet(metrics)
      BY <2>5, <3>1 DEF IInv, Inserting
    <3>. QED  BY <2>3, <3>1, <3>2, <3>3
  <2>. QED  BY <2>4, <2>5 DEF Inserting
<1>. QED  BY <1>1, <1>2, MetricsGrow

\* A consumer that has a reminder goes on with it, or a fault stops it; nobody
\* else touches the records of that reminder.
LEMMA OnReminder ==
  ASSUME IInv, [Next]_vars, NEW r \in Reminders, NEW d \in Consumers,
         At(d, {"send", "persist", "announce"}, r)
  PROVE  \/ Send(d) \/ SendFails(d) \/ InsertNotification(d) \/ WriteOutcome(d)
         \/ /\ task'[d] = task[d] \/ (task'[d] = Idle /\ faults' = faults + 1)
            /\ handed'[r] = handed[r] /\ notifications'[r] = notifications[r]
            /\ NoOutcome(r)' <=> NoOutcome(r)
<1>1. task[d].phase \in {"send", "persist", "announce"} /\ task[d].msg = r
  BY DEF At
<1>2. ASSUME NEW c \in Consumers, At(c, {"send", "persist", "announce"}, r)  PROVE c = d
  <2>1. At(c, Handling, r) /\ At(d, Handling, r) /\ r \in Messages
    BY <1>2 DEF At, Handling, Messages
  <2>. QED  BY <2>1 DEF IInv, OneHandler
<1>3. \/ task'[d] = task[d] \/ (task'[d] = Idle /\ faults' = faults + 1)
      \/ Send(d) \/ SendFails(d) \/ InsertNotification(d) \/ WriteOutcome(d)
  <2>1. CASE Quiet
    BY <2>1 DEF Quiet
  <2>2. ASSUME NEW c \in Consumers, NEW m \in DOMAIN unread, Read(c, m)  PROVE task'[d] = task[d]
    BY <1>1, <2>2, ReadEffect DEF Moves
  <2>3. ASSUME NEW c \in Consumers \ {d}, Step(c) \/ SendFails(c) \/ HandlerFails(c)
        PROVE  task'[d] = task[d]
    BY <2>3, OthersStay
  <2>4. CASE Step(d)
    BY <1>1, <2>4 DEF Step, Record, InsertMetric, BumpNotificationAggregate, InsertBookingEvent,
       CountAppointment, CommitBookingEvent
  <2>5. CASE HandlerFails(d)
    BY <2>5, HandlerFailsEffect
  <2>. QED  BY <2>1, <2>2, <2>3, <2>4, <2>5, StepCases
<1>. QED  BY <1>2, <1>3, ReminderSteps

LEMMA ProgressStep ==
  ASSUME IInv, [Next]_vars
  PROVE  Progress'
<1>. SUFFICES ASSUME NEW d \in Consumers, NEW r \in Reminders,
                     task'[d].phase \in {"send", "persist", "announce"}, task'[d].msg = r
              PROVE  /\ task'[d].phase = "send" =>
                          handed'[r] = 0 /\ notifications'[r] = <<>> /\ NoOutcome(r)'
                     /\ task'[d].phase = "persist" => notifications'[r] = <<>> /\ NoOutcome(r)'
                     /\ task'[d].phase = "announce" =>
                          notifications'[r] = <<task'[d].status>> /\ NoOutcome(r)'
                     /\ task'[d].phase \in {"persist", "announce"} /\ task'[d].status = "sent" =>
                          handed'[r] = 1
  BY DEF Progress, At
<1>0. /\ task[d].phase = "send" /\ task[d].msg = r =>
           handed[r] = 0 /\ notifications[r] = <<>> /\ NoOutcome(r)
      /\ task[d].phase = "persist" /\ task[d].msg = r => notifications[r] = <<>> /\ NoOutcome(r)
      /\ task[d].phase = "announce" /\ task[d].msg = r =>
           notifications[r] = <<task[d].status>> /\ NoOutcome(r)
      /\ task[d].phase \in {"persist", "announce"} /\ task[d].msg = r /\ task[d].status = "sent" =>
           handed[r] = 1
      /\ handed \in [Reminders -> Nat] /\ notifications \in [Reminders -> Seq(Statuses)]
  BY DEF IInv, TypeOK, Progress, At
<1>1. CASE task'[d].msg \notin inbox /\ task'[d].phase = HandlerOf(r) /\ UNCHANGED reminderVars
  <2>1. task'[d].phase = "send" /\ handed[r] = 0 /\ notifications[r] = <<>> /\ NoOutcome(r)
    BY <1>1 DEF HandlerOf, IInv, Fresh
  <2>. QED  BY <1>1, <2>1 DEF reminderVars, NoOutcome
<1>2. CASE task[d].phase \in Handling /\ task[d].msg = r
  <2>0. task[d].phase \in {"send", "persist", "announce"}
    <3>1. task[d] \in Tasks
      BY DEF IInv, TypeOK
    <3>2. r \notin Outcome /\ r \in Messages
      BY MessageKinds DEF Messages
    <3>. QED  BY <1>2, <3>1, <3>2, TaskFacts DEF Handling
  <2>1. CASE Send(d) \/ SendFails(d)
    <3>1. /\ task[d].phase = "send" /\ task'[d].phase = "persist" /\ UNCHANGED <<notifications, outcomes>>
          /\ \/ task'[d].status = "sent" /\ handed' = [handed EXCEPT ![r] = handed[r] + 1]
             \/ task'[d].status = "failed"
      BY <1>2, <2>1, SendEffect DEF Moves
    <3>. QED  BY <1>0, <1>2, <3>1 DEF NoOutcome
  <2>2. CASE InsertNotification(d)
    <3>1. /\ task[d].phase = "persist" /\ task'[d].phase = "announce" /\ UNCHANGED <<handed, outcomes>>
          /\ task'[d].status = task[d].status
          /\ notifications' = [notifications EXCEPT ![r] = Append(notifications[r], task[d].status)]
      BY <1>2, <2>2, InsertNotificationEffect DEF Moves
    <3>2. Append(<<>>, task[d].status) = <<task[d].status>>
      OBVIOUS
    <3>. QED  BY <1>0, <1>2, <3>1, <3>2 DEF NoOutcome
  <2>3. CASE WriteOutcome(d)
    BY <2>3, WriteOutcomeEffect DEF Moves
  <2>4. CASE task'[d] = Idle
    BY <2>4 DEF Idle
  <2>5. CASE task'[d] = task[d] /\ ~Send(d) /\ ~SendFails(d) /\ ~InsertNotification(d) /\ ~WriteOutcome(d)
    <3>1. handed'[r] = handed[r] /\ notifications'[r] = notifications[r] /\ (NoOutcome(r)' <=> NoOutcome(r))
      BY <1>2, <2>0, <2>5, OnReminder DEF At
    <3>. QED  BY <1>0, <1>2, <2>5, <3>1
  <2>. QED  BY <1>2, <2>0, <2>1, <2>2, <2>3, <2>4, <2>5, OnReminder DEF At
<1>3. task'[d].phase \in Handling
  BY DEF Handling
<1>. QED  BY <1>1, <1>2, <1>3, HandlingStep

LEMMA OutcomesStep ==
  ASSUME IInv, [Next]_vars
  PROVE  Outcomes'
<1>0. /\ handed \in [Reminders -> Nat] /\ notifications \in [Reminders -> Seq(Statuses)]
      /\ outcomes \in Seq(Outcome) /\ outcomes' \in Seq(Outcome)
  BY OutcomesGrow DEF IInv, TypeOK
<1>1. ASSUME NEW r \in Reminders  PROVE handed'[r] \in {0, 1}
  <2>1. handed[r] \in {0, 1}
    BY DEF IInv, Outcomes
  <2>2. ASSUME NEW c \in Consumers, At(c, {"send", "persist", "announce"}, r),
               Send(c) \/ SendFails(c)
        PROVE  handed'[r] \in {0, 1}
    <3>1. /\ task[c].msg = r /\ At(c, {"send"}, r)
          /\ handed' \in {handed, [handed EXCEPT ![r] = handed[r] + 1]}
      BY <2>2, SendEffect DEF At, Moves
    <3>2. handed[r] = 0
      BY <3>1 DEF IInv, Progress
    <3>. QED  BY <1>0, <3>1, <3>2
  <2>. QED  BY <2>1, <2>2, InsertNotificationEffect, WriteOutcomeEffect, ReminderSteps
<1>2. ASSUME NEW c \in Consumers, WriteOutcome(c)
      PROVE  /\ \A n, m \in DOMAIN outcomes' : outcomes'[n].of = outcomes'[m].of => n = m
             /\ \A n \in DOMAIN outcomes' :
                  /\ notifications'[outcomes'[n].of] = <<outcomes'[n].status>>
                  /\ outcomes'[n].status = "sent" => handed'[outcomes'[n].of] = 1
  <2>. DEFINE r == task[c].msg
  <2>1. PICK o \in Outcome : o.of = r /\ o.status = task[c].status /\ outcomes' = Append(outcomes, o)
    BY <1>2, WriteOutcomeEffect
  <2>2. /\ DOMAIN outcomes' = DOMAIN outcomes \union {Len(outcomes) + 1}
        /\ outcomes'[Len(outcomes) + 1] = o
        /\ \A n \in DOMAIN outcomes : outcomes'[n] = outcomes[n]
    BY <1>0, <2>1, AppendFacts
  <2>3. /\ r \in Reminders /\ At(c, {"announce"}, r) /\ At(c, {"persist", "announce"}, r)
        /\ UNCHANGED <<handed, notifications>>
    BY <1>2, WriteOutcomeEffect DEF Moves, At
  <2>4. NoOutcome(r) /\ notifications[r] = <<o.status>> /\ (o.status = "sent" => handed[r] = 1)
    BY <2>1, <2>3 DEF IInv, Progress
  <2>5. /\ \A n, m \in DOMAIN outcomes : outcomes[n].of = outcomes[m].of => n = m
        /\ \A n \in DOMAIN outcomes :
             /\ notifications[outcomes[n].of] = <<outcomes[n].status>>
             /\ outcomes[n].status = "sent" => handed[outcomes[n].of] = 1
    BY DEF IInv, Outcomes
  <2>6. \A n \in DOMAIN outcomes : outcomes[n].of # r
    BY <2>4 DEF NoOutcome
  <2>. HIDE DEF r
  <2>7. \A n, m \in DOMAIN outcomes' : outcomes'[n].of = outcomes'[m].of => n = m
    BY <2>1, <2>2, <2>5, <2>6
  <2>8. \A n \in DOMAIN outcomes' :
          /\ notifications'[outcomes'[n].of] = <<outcomes'[n].status>>
          /\ outcomes'[n].status = "sent" => handed'[outcomes'[n].of] = 1
    BY <2>1, <2>2, <2>3, <2>4, <2>5
  <2>. QED  BY <2>7, <2>8
<1>3. ASSUME outcomes' = outcomes
      PROVE  /\ \A n, m \in DOMAIN outcomes' : outcomes'[n].of = outcomes'[m].of => n = m
             /\ \A n \in DOMAIN outcomes' :
                  /\ notifications'[outcomes'[n].of] = <<outcomes'[n].status>>
                  /\ outcomes'[n].status = "sent" => handed'[outcomes'[n].of] = 1
  <2>1. ASSUME NEW n \in DOMAIN outcomes
        PROVE  /\ notifications'[outcomes[n].of] = <<outcomes[n].status>>
               /\ outcomes[n].status = "sent" => handed'[outcomes[n].of] = 1
    <3>. DEFINE r == outcomes[n].of
    <3>1. r \in Reminders /\ ~NoOutcome(r)
      <4>1. outcomes[n] \in Outcome
        BY <1>0
      <4>2. r \in Reminders
        BY <4>1 DEF Outcome
      <4>. QED  BY <4>2 DEF NoOutcome
    <3>2. notifications[r] = <<outcomes[n].status>> /\ (outcomes[n].status = "sent" => handed[r] = 1)
      BY DEF IInv, Outcomes
    <3>3. \A c \in Consumers : ~At(c, {"send", "persist", "announce"}, r)
      BY <3>1 DEF IInv, Progress, At
    <3>. QED  BY <3>1, <3>2, <3>3, ReminderSteps
  <2>2. \A n, m \in DOMAIN outcomes : outcomes[n].of = outcomes[m].of => n = m
    BY DEF IInv, Outcomes
  <2>. QED  BY <1>3, <2>1, <2>2
<1>4. \/ outcomes' = outcomes
      \/ \E c \in Consumers : WriteOutcome(c)
  <2>1. ASSUME NEW c \in Consumers, Step(c) \/ SendFails(c) \/ HandlerFails(c), ~WriteOutcome(c)
        PROVE outcomes' = outcomes
    BY <2>1, RecordEffect, SendEffect, InsertNotificationEffect, InsertMetricEffect,
       BumpEffect, InsertBookingEventEffect, CountAppointmentEffect, CommitBookingEventEffect,
       HandlerFailsEffect DEF Step, reminderVars
  <2>. QED  BY <2>1, ReadEffect, StepCases DEF Quiet, reminderVars
<1>. QED  BY <1>1, <1>2, <1>3, <1>4 DEF Outcomes

LEMMA FaultsGrow ==
  ASSUME IInv, [Next]_vars
  PROVE  faults' = faults \/ faults' = faults + 1
<1>1. ASSUME NEW c \in Consumers, Step(c) \/ SendFails(c) \/ HandlerFails(c)
      PROVE  faults' = faults \/ faults' = faults + 1
  BY <1>1, RecordEffect, SendEffect, InsertNotificationEffect, WriteOutcomeEffect, InsertMetricEffect,
     BumpEffect, InsertBookingEventEffect, CountAppointmentEffect, CommitBookingEventEffect,
     HandlerFailsEffect DEF Step
<1>. QED  BY <1>1, ReadEffect, StepCases DEF Quiet

LEMMA NoneLostStep ==
  ASSUME IInv, [Next]_vars
  PROVE  NoneLost'
<1>. SUFFICES ASSUME faults' = 0, NEW r \in Reminders, handed'[r] = 1
              PROVE  \/ ~NoOutcome(r)'
                     \/ \E c \in Notifiers : At(c, {"persist", "announce"}, r)'
  BY DEF NoneLost
<1>0. faults = 0 /\ faults' # faults + 1
  BY FaultsGrow DEF IInv, TypeOK
<1>1. ASSUME NEW c \in Consumers, At(c, {"send", "persist", "announce"}, r),
             Send(c) \/ SendFails(c) \/ InsertNotification(c) \/ WriteOutcome(c)
      PROVE  \/ ~NoOutcome(r)'
             \/ \E d \in Notifiers : At(d, {"persist", "announce"}, r)'
  <2>0. c \in Notifiers /\ task[c].msg = r
    BY <1>1 DEF At, IInv, Readers, ReadersOf, Idle
  <2>1. CASE Send(c) \/ SendFails(c)
    <3>1. task'[c].phase = "persist" /\ task'[c].msg = r
      BY <2>0, <2>1, SendEffect DEF Moves
    <3>. QED  BY <2>0, <3>1 DEF At
  <2>2. CASE InsertNotification(c)
    <3>1. task'[c].phase = "announce" /\ task'[c].msg = r
      BY <2>0, <2>2, InsertNotificationEffect DEF Moves
    <3>. QED  BY <2>0, <3>1 DEF At
  <2>3. CASE WriteOutcome(c)
    <3>1. PICK o \in Outcome : o.of = r /\ outcomes' = Append(outcomes, o)
      BY <2>0, <2>3, WriteOutcomeEffect
    <3>2. Len(outcomes) + 1 \in DOMAIN outcomes' /\ outcomes'[Len(outcomes) + 1] = o
      BY <3>1, AppendFacts DEF IInv, TypeOK
    <3>. QED  BY <3>1, <3>2 DEF NoOutcome
  <2>. QED  BY <1>1, <2>1, <2>2, <2>3
<1>2. CASE /\ handed'[r] = handed[r] /\ notifications'[r] = notifications[r]
           /\ NoOutcome(r)' <=> NoOutcome(r)
  <2>1. CASE ~NoOutcome(r)
    BY <1>2, <2>1
  <2>2. ASSUME NEW c \in Notifiers, At(c, {"persist", "announce"}, r)
        PROVE  \/ ~NoOutcome(r)'
               \/ \E d \in Notifiers : At(d, {"persist", "announce"}, r)'
    <3>1. c \in Consumers /\ At(c, {"send", "persist", "announce"}, r)
      BY <2>2 DEF Consumers, At
    <3>2. CASE task'[c] = task[c]
      BY <2>2, <3>2 DEF At
    <3>. QED  BY <1>0, <1>1, <3>1, <3>2, OnReminder
  <2>. QED  BY <1>0, <1>2, <2>1, <2>2 DEF IInv, NoneLost
<1>. QED  BY <1>1, <1>2, ReminderSteps

------------------------------------------------------------------------------
(* The counts of notifications.                                             *)

LEMMA KeyFacts ==
  /\ \A o \in Outcome : Key(o) \in Channels \X Statuses
  /\ \A k \in Channels \X Statuses :
       MetricsOf(k[1], k[2]) = Cardinality(Places(metrics, k))
<1>1. ASSUME NEW o \in Outcome  PROVE Key(o) \in Channels \X Statuses
  <2>1. o.of \in Reminders /\ o.status \in Statuses
    BY DEF Outcome
  <2>2. o.of.channel \in Channels
    BY <2>1 DEF Channels
  <2>. QED  BY <2>1, <2>2 DEF Key
<1>2. ASSUME NEW k \in Channels \X Statuses
      PROVE  MetricsOf(k[1], k[2]) = Cardinality(Places(metrics, k))
  <2>1. <<k[1], k[2]>> = k
    OBVIOUS
  <2>. QED  BY <2>1 DEF MetricsOf, Places
<1>. QED  BY <1>1, <1>2

\* The consumers between their two statements, and the rows, are finitely many.
LEMMA CountsAreNumbers ==
  ASSUME IInv, NEW k \in Channels \X Statuses
  PROVE  /\ IsFiniteSet(Between(k)) /\ Cardinality(Between(k)) \in Nat
         /\ MetricsOf(k[1], k[2]) \in Nat
         /\ overlaps \in Nat /\ faults \in Nat
<1>1. IsFiniteSet(Between(k))
  BY NotificationsAssumption, FS_Subset DEF Between
<1>2. Cardinality(Between(k)) \in Nat
  BY <1>1, FS_CardinalityType
<1>3. MetricsOf(k[1], k[2]) \in Nat
  <2>1. CASE Outcome = {}
    <3>1. Places(metrics, k) = {}
      BY <2>1 DEF IInv, TypeOK, Places
    <3>. QED  BY <3>1, KeyFacts, FS_EmptySet
  <2>2. ASSUME NEW e \in Outcome  PROVE MetricsOf(k[1], k[2]) \in Nat
    <3>1. metrics \in Seq(Outcome)
      BY DEF IInv, TypeOK
    <3>2. Cardinality(Places(metrics, k)) \in Nat
      BY <3>1, PlacesAppend
    <3>. QED  BY <3>2, KeyFacts
  <2>. QED  BY <2>1, <2>2
<1>. QED  BY <1>1, <1>2, <1>3 DEF IInv, TypeOK

\* A consumer enters or leaves the place between the two statements.
LEMMA BetweenMoves ==
  ASSUME IInv, NEW c \in Consumers, NEW from, NEW to, Moves(c, from, to),
         NEW k \in Channels \X Statuses
  PROVE  /\ from # "bump" /\ to # "bump" => Between(k)' = Between(k)
         /\ c \in Analysts /\ from # "bump" /\ to = "bump" =>
              Cardinality(Between(k)') =
                Cardinality(Between(k)) + (IF Key(task'[c].msg) = k THEN 1 ELSE 0)
         /\ c \in Analysts /\ from = "bump" /\ to # "bump" =>
              Cardinality(Between(k)') =
                Cardinality(Between(k)) - (IF Key(task[c].msg) = k THEN 1 ELSE 0)
<1>0. /\ task[c].phase = from /\ task'[c].phase = to
      /\ \A d \in Analysts : d # c => task'[d] = task[d]
  BY DEF Moves, Consumers
<1>1. ASSUME from # "bump", to # "bump"  PROVE Between(k)' = Between(k)
  BY <1>0, <1>1 DEF Between
<1>2. ASSUME c \in Analysts, from # "bump", to = "bump"
      PROVE  Cardinality(Between(k)') =
               Cardinality(Between(k)) + (IF Key(task'[c].msg) = k THEN 1 ELSE 0)
  <2>1. Between(k)' = (IF Key(task'[c].msg) = k THEN Between(k) \union {c} ELSE Between(k))
        /\ c \notin Between(k)
    BY <1>0, <1>2 DEF Between, Key
  <2>2. Cardinality(Between(k) \union {c}) = Cardinality(Between(k)) + 1
    BY <2>1, CountsAreNumbers, FS_AddElement
  <2>. QED  BY <2>1, <2>2, CountsAreNumbers
<1>3. ASSUME c \in Analysts, from = "bump", to # "bump"
      PROVE  Cardinality(Between(k)') =
               Cardinality(Between(k)) - (IF Key(task[c].msg) = k THEN 1 ELSE 0)
  <2>1. Between(k)' = Between(k) \ {c} /\ (c \in Between(k) <=> Key(task[c].msg) = k)
    BY <1>0, <1>3 DEF Between, Key
  <2>2. Cardinality(Between(k) \ {c}) =
          IF c \in Between(k) THEN Cardinality(Between(k)) - 1 ELSE Cardinality(Between(k))
    BY CountsAreNumbers, FS_RemoveElement
  <2>. QED  BY <2>1, <2>2, CountsAreNumbers
<1>. QED  BY <1>1, <1>2, <1>3

LEMMA AnalystsCount ==
  ASSUME IInv, NEW c \in Consumers,
         task[c].phase \in {"insert", "bump", "store", "count", "commit"}
  PROVE  c \in Analysts
<1>1. task[c] \in Tasks /\ task[c] # Idle
  BY DEF IInv, TypeOK, Idle
<1>2. task[c].msg \in Messages /\ task[c].msg \notin Reminders
  BY <1>1, TaskFacts, MessageKinds
<1>. QED  BY <1>1, <1>2 DEF IInv, Readers, ReadersOf

LEMMA OverlapsGrow ==
  ASSUME IInv, NEW t \in DOMAIN rebuild, Truncate(t) \/ CommitRebuild(t)
  PROVE  overlaps' \in Nat /\ overlaps' >= overlaps
<1>. DEFINE between == {c \in Analysts : task[c].phase = "bump"}
<1>1. IsFiniteSet(between)
  BY NotificationsAssumption, FS_Subset
<1>2. Cardinality(between) \in Nat /\ overlaps \in Nat
  BY <1>1, FS_CardinalityType DEF IInv, TypeOK
<1>3. overlaps' \in {overlaps, overlaps + 0, overlaps + Cardinality(between)}
  BY DEF Truncate, CommitRebuild
<1>. HIDE DEF between
<1>. QED  BY <1>2, <1>3

\* Whatever the counts are, every step but the update of the table itself
\* leaves them within their bounds.
LEMMA CountsStay ==
  ASSUME IInv, [Next]_vars, ~\E c \in Consumers : BumpNotificationAggregate(c),
         NEW f \in DailyCounts, CountsFollow(f)
  PROVE  CountsFollow(f)'
<1>. SUFFICES ASSUME NEW k \in Channels \X Statuses
              PROVE  /\ f[k] + Cardinality(Between(k)') <= MetricsOf(k[1], k[2])' + overlaps'
                     /\ f[k] + Cardinality(Between(k)') >= MetricsOf(k[1], k[2])' - faults'
  BY DEF CountsFollow
<1>0. /\ f[k] \in Nat
      /\ f[k] + Cardinality(Between(k)) <= MetricsOf(k[1], k[2]) + overlaps
      /\ f[k] + Cardinality(Between(k)) >= MetricsOf(k[1], k[2]) - faults
      /\ Cardinality(Between(k)) \in Nat /\ MetricsOf(k[1], k[2]) \in Nat
      /\ overlaps \in Nat /\ faults \in Nat
  BY CountsAreNumbers DEF CountsFollow, DailyCounts
<1>. DEFINE Good == /\ f[k] + Cardinality(Between(k)') <= MetricsOf(k[1], k[2])' + overlaps'
                    /\ f[k] + Cardinality(Between(k)') >= MetricsOf(k[1], k[2])' - faults'
<1>1. ASSUME Between(k)' = Between(k), metrics' = metrics,
             overlaps' \in Nat, overlaps' >= overlaps, faults' = faults \/ faults' = faults + 1
      PROVE  Good
  <2>1. MetricsOf(k[1], k[2])' = MetricsOf(k[1], k[2])
    BY <1>1 DEF MetricsOf
  <2>. QED  BY <1>0, <1>1, <2>1
<1>2. CASE Quiet
  <2>1. Between(k)' = Between(k) /\ metrics' = metrics
    BY <1>2 DEF Quiet, Between
  <2>2. overlaps' \in Nat /\ overlaps' >= overlaps
    BY <1>0, <1>2, OverlapsGrow DEF Quiet
  <2>. QED  BY <1>1, <2>1, <2>2, FaultsGrow
<1>3. ASSUME NEW c \in Consumers, NEW m \in DOMAIN unread, Read(c, m)  PROVE Good
  <2>1. Moves(c, "idle", "record") /\ UNCHANGED <<metrics, overlaps, faults>>
    BY <1>3, ReadEffect DEF dailyVars
  <2>2. Between(k)' = Between(k)
    BY <2>1, BetweenMoves
  <2>. QED  BY <1>0, <1>1, <2>1, <2>2
<1>4. ASSUME NEW c \in Consumers, InsertMetric(c)  PROVE Good
  <2>. DEFINE o == task[c].msg
  <2>1. /\ Moves(c, "insert", "bump") /\ o \in Outcome /\ task'[c].msg = o
        /\ metrics' = Append(metrics, o) /\ UNCHANGED <<overlaps, faults>>
    BY <1>4, InsertMetricEffect
  <2>2. c \in Analysts
    BY <2>1, AnalystsCount DEF Moves
  <2>3. Cardinality(Between(k)') = Cardinality(Between(k)) + (IF Key(o) = k THEN 1 ELSE 0)
    BY <2>1, <2>2, BetweenMoves
  <2>4. MetricsOf(k[1], k[2])' = MetricsOf(k[1], k[2]) + (IF Key(o) = k THEN 1 ELSE 0)
    <3>1. metrics \in Seq(Outcome) /\ <<k[1], k[2]>> = k
      BY DEF IInv, TypeOK
    <3>2. Cardinality(Places(Append(metrics, o), k))
            = Cardinality(Places(metrics, k)) + (IF Key(o) = k THEN 1 ELSE 0)
      BY <2>1, <3>1, PlacesAppend
    <3>3. MetricsOf(k[1], k[2])' = Cardinality(Places(Append(metrics, o), k))
      BY <2>1, <3>1, Zenon DEF MetricsOf, Places, Key
    <3>. QED  BY <3>2, <3>3, KeyFacts
  <2>. QED  BY <1>0, <2>1, <2>3, <2>4
<1>5. ASSUME NEW c \in Consumers, HandlerFails(c)  PROVE Good
  <2>1. /\ Moves(c, task[c].phase, "idle") /\ faults' = faults + 1 /\ UNCHANGED <<metrics, overlaps>>
    BY <1>5, HandlerFailsEffect DEF dailyVars
  <2>2. CASE task[c].phase = "bump"
    <3>1. Cardinality(Between(k)') = Cardinality(Between(k)) - (IF Key(task[c].msg) = k THEN 1 ELSE 0)
      BY <2>1, <2>2, AnalystsCount, BetweenMoves
    <3>2. MetricsOf(k[1], k[2])' = MetricsOf(k[1], k[2])
      BY <2>1 DEF MetricsOf
    <3>. QED  BY <1>0, <2>1, <3>1, <3>2
  <2>3. CASE task[c].phase # "bump"
    BY <1>0, <1>1, <2>1, <2>3, BetweenMoves
  <2>. QED  BY <2>2, <2>3
<1>6. ASSUME NEW c \in Consumers, Step(c) \/ SendFails(c),
             ~InsertMetric(c), ~BumpNotificationAggregate(c)
      PROVE  Good
  <2>1. UNCHANGED <<metrics, overlaps>>
    BY <1>6, RecordEffect, SendEffect, InsertNotificationEffect, WriteOutcomeEffect,
       InsertBookingEventEffect, CountAppointmentEffect, CommitBookingEventEffect DEF Step, dailyVars
  <2>2. \E from, to : Moves(c, from, to) /\ from # "bump" /\ to # "bump"
    <3>1. HandlerOf(task[c].msg) # "bump"
      BY DEF HandlerOf
    <3>. QED  BY <1>6, <3>1, RecordEffect, SendEffect, InsertNotificationEffect, WriteOutcomeEffect,
                 InsertBookingEventEffect, CountAppointmentEffect, CommitBookingEventEffect DEF Step
  <2>3. Between(k)' = Between(k)
    BY <2>2, BetweenMoves
  <2>. QED  BY <1>0, <1>1, <2>1, <2>3, FaultsGrow
<1>. QED  BY <1>2, <1>3, <1>4, <1>5, <1>6, StepCases

\* The table is updated: the handler leaves the place between its statements.
LEMMA BumpCounts ==
  ASSUME IInv, NEW c \in Consumers, BumpNotificationAggregate(c)
  PROVE  CountsFollow(daily)'
<1>. DEFINE o == task[c].msg
<1>1. /\ Moves(c, "bump", "idle") /\ o \in Outcome
      /\ daily' = [daily EXCEPT ![Key(o)] = daily[Key(o)] + 1]
      /\ UNCHANGED <<metrics, overlaps, faults>>
  BY BumpEffect
<1>2. c \in Analysts /\ daily \in DailyCounts
  BY <1>1, AnalystsCount DEF Moves, IInv, TypeOK
<1>. SUFFICES ASSUME NEW k \in Channels \X Statuses
              PROVE  /\ daily'[k] + Cardinality(Between(k)') <= MetricsOf(k[1], k[2])' + overlaps'
                     /\ daily'[k] + Cardinality(Between(k)') >= MetricsOf(k[1], k[2])' - faults'
  BY DEF CountsFollow
<1>3. Cardinality(Between(k)') = Cardinality(Between(k)) - (IF Key(o) = k THEN 1 ELSE 0)
  BY <1>1, <1>2, BetweenMoves
<1>4. daily'[k] = daily[k] + (IF Key(o) = k THEN 1 ELSE 0) /\ daily[k] \in Nat
  <2>1. DOMAIN daily = Channels \X Statuses /\ daily[k] \in Nat
    BY <1>2 DEF DailyCounts
  <2>. QED  BY <1>1, <2>1
<1>5. MetricsOf(k[1], k[2])' = MetricsOf(k[1], k[2])
  BY <1>1 DEF MetricsOf
<1>6. /\ daily[k] + Cardinality(Between(k)) <= MetricsOf(k[1], k[2]) + overlaps
      /\ daily[k] + Cardinality(Between(k)) >= MetricsOf(k[1], k[2]) - faults
  BY DEF IInv, DailyFollow, CountsFollow
<1>. QED  BY <1>1, <1>3, <1>4, <1>5, <1>6, CountsAreNumbers

\* The script counts the metrics of the handlers between their statements as
\* well, and they will update what it commits.
LEMMA TruncateCounts ==
  ASSUME IInv, Truncate("notifications"), UNCHANGED <<metrics, task, faults>>
  PROVE  CountsFollow(rebuild["notifications"])' /\ rebuild'["notifications"] \in DailyCounts
<1>. DEFINE f == [k \in DOMAIN daily |-> MetricsOf(k[1], k[2])]
            between == {c \in Analysts : task[c].phase = "bump"}
<1>1. /\ DOMAIN daily = Channels \X Statuses
      /\ DOMAIN rebuild = {"notifications", "appointments"}
  BY DEF IInv, TypeOK, DailyCounts
<1>2. rebuild'["notifications"] = f /\ overlaps' = overlaps + Cardinality(between)
  BY <1>1 DEF Truncate, Recount
<1>3. f \in DailyCounts
  BY <1>1, CountsAreNumbers DEF DailyCounts
<1>4. ASSUME NEW k \in Channels \X Statuses
      PROVE  /\ f[k] + Cardinality(Between(k)') <= MetricsOf(k[1], k[2])' + overlaps'
             /\ f[k] + Cardinality(Between(k)') >= MetricsOf(k[1], k[2])' - faults'
  <2>1. f[k] = MetricsOf(k[1], k[2])
    BY <1>1
  <2>2. MetricsOf(k[1], k[2])' = MetricsOf(k[1], k[2])
    BY DEF MetricsOf
  <2>3. Between(k)' = Between(k)
    BY DEF Between
  <2>4. IsFiniteSet(between) /\ Between(k) \subseteq between
    <3>1. IsFiniteSet(between)
      BY NotificationsAssumption, FS_Subset
    <3>. QED  BY <3>1 DEF Between
  <2>5. Cardinality(Between(k)) <= Cardinality(between) /\ Cardinality(between) \in Nat
    BY <2>4, FS_Subset, FS_CardinalityType
  <2>. HIDE DEF f, between
  <2>. QED  BY <1>2, <2>1, <2>2, <2>3, <2>5, CountsAreNumbers
<1>. HIDE DEF f
<1>5. \A k \in Channels \X Statuses :
        /\ rebuild'["notifications"][k] + Cardinality(Between(k)') <= MetricsOf(k[1], k[2])' + overlaps'
        /\ rebuild'["notifications"][k] + Cardinality(Between(k)') >= MetricsOf(k[1], k[2])' - faults'
  BY <1>2, <1>4
<1>. QED  BY <1>2, <1>3, <1>5 DEF CountsFollow

\* What becomes of the table and of the counts that the script holds.
LEMMA DailySteps ==
  ASSUME IInv, [Next]_vars
  PROVE  \/ UNCHANGED <<daily, rebuild>> /\ ~\E c \in Consumers : BumpNotificationAggregate(c)
         \/ \E c \in Consumers : BumpNotificationAggregate(c)
         \/ \E t \in DOMAIN rebuild : (Truncate(t) \/ CommitRebuild(t)) /\ UNCHANGED <<metrics, task, faults>>
<1>1. ASSUME NEW c \in Consumers, Step(c) \/ SendFails(c) \/ HandlerFails(c), ~BumpNotificationAggregate(c)
      PROVE  UNCHANGED <<daily, rebuild>>
  BY <1>1, RecordEffect, SendEffect, InsertNotificationEffect, WriteOutcomeEffect, InsertMetricEffect,
     InsertBookingEventEffect, CountAppointmentEffect, CommitBookingEventEffect, HandlerFailsEffect
  DEF Step, dailyVars
<1>2. CASE Quiet
  BY <1>2 DEF Quiet
<1>3. ASSUME NEW c \in Consumers, NEW m \in DOMAIN unread, Read(c, m)  PROVE UNCHANGED <<daily, rebuild>>
  BY <1>3, ReadEffect DEF dailyVars
<1>. QED  BY <1>1, <1>2, <1>3, StepCases

LEMMA DailyFollowStep ==
  ASSUME IInv, [Next]_vars
  PROVE  DailyFollow'
<1>0. /\ CountsFollow(daily) /\ daily \in DailyCounts
      /\ DOMAIN rebuild = {"notifications", "appointments"}
      /\ rebuild["notifications"] # NoCounts =>
           rebuild["notifications"] \in DailyCounts /\ CountsFollow(rebuild["notifications"])
  BY DEF IInv, TypeOK, DailyFollow
<1>. DEFINE Bump == \E c \in Consumers : BumpNotificationAggregate(c)
<1>1. ASSUME ~Bump, daily' = daily  PROVE CountsFollow(daily)'
  <2>1. PICK f : f = daily
    OBVIOUS
  <2>2. CountsFollow(f)'
    <3>1. f \in DailyCounts /\ CountsFollow(f)
      BY <1>0, <2>1
    <3>. QED  BY <1>1, <3>1, CountsStay
  <2>. QED  BY <1>1, <2>1, <2>2 DEF CountsFollow
<1>2. ASSUME ~Bump, rebuild'["notifications"] = rebuild["notifications"], rebuild["notifications"] # NoCounts
      PROVE  CountsFollow(rebuild["notifications"])'
  <2>1. PICK f : f = rebuild["notifications"]
    OBVIOUS
  <2>2. CountsFollow(f)'
    <3>1. f \in DailyCounts /\ CountsFollow(f)
      BY <1>0, <1>2, <2>1
    <3>. QED  BY <1>2, <3>1, CountsStay
  <2>. QED  BY <1>2, <2>1, <2>2 DEF CountsFollow
<1>3. CASE UNCHANGED <<daily, rebuild>> /\ ~Bump
  BY <1>1, <1>2, <1>3 DEF DailyFollow
<1>4. ASSUME NEW c \in Consumers, BumpNotificationAggregate(c)  PROVE DailyFollow'
  <2>1. CountsFollow(daily)' /\ rebuild'["notifications"] = NoCounts
    BY <1>4, BumpCounts, BumpEffect
  <2>. QED  BY <2>1 DEF DailyFollow
<1>5. CASE ~Bump /\ Truncate("notifications") /\ UNCHANGED <<metrics, task, faults>>
  <2>1. CountsFollow(rebuild["notifications"])' /\ daily' = daily
    BY <1>5, TruncateCounts DEF Truncate, countVars
  <2>. QED  BY <1>1, <1>5, <2>1 DEF DailyFollow
<1>6. CASE ~Bump /\ Truncate("appointments")
  <2>1. daily' = daily /\ rebuild'["notifications"] = rebuild["notifications"]
    BY <1>0, <1>6 DEF Truncate, countVars
  <2>. QED  BY <1>1, <1>2, <1>6, <2>1 DEF DailyFollow
<1>7. CASE ~Bump /\ CommitRebuild("notifications")
  <2>1. /\ rebuild["notifications"] # NoCounts /\ daily' = rebuild["notifications"]
        /\ rebuild'["notifications"] = NoCounts
    BY <1>0, <1>7 DEF CommitRebuild
  <2>2. PICK f : f = rebuild["notifications"]
    OBVIOUS
  <2>3. CountsFollow(f)'
    <3>1. f \in DailyCounts /\ CountsFollow(f)
      BY <1>0, <2>1, <2>2
    <3>. QED  BY <1>7, <3>1, CountsStay
  <2>4. CountsFollow(daily)'
    BY <2>1, <2>2, <2>3 DEF CountsFollow
  <2>. QED  BY <2>1, <2>4 DEF DailyFollow
<1>8. CASE ~Bump /\ CommitRebuild("appointments")
  <2>1. daily' = daily /\ rebuild'["notifications"] = rebuild["notifications"]
    BY <1>0, <1>8 DEF CommitRebuild
  <2>. QED  BY <1>1, <1>2, <1>8, <2>1 DEF DailyFollow
<1>. QED  BY <1>0, <1>3, <1>4, <1>5, <1>6, <1>7, <1>8, DailySteps

------------------------------------------------------------------------------
(* Booking events.                                                          *)

\* The three statements of the transaction of handleBookingEvent, as steps of
\* the one consumer that has the event.
LEMMA TransactionSteps ==
  ASSUME IInv, [Next]_vars, NEW d \in Consumers, task'[d].phase \in {"count", "commit"}
  PROVE  \/ task[d].phase \in {"count", "commit"} /\ task[d].msg = task'[d].msg
         \/ /\ task'[d].msg \notin bookingEvents /\ ~Uncommitted(task'[d].msg)
            /\ \A e \in Consumers \ {d} : task'[e] = task[e]
            /\ bookingEvents' = bookingEvents
<1>1. CASE Quiet
  BY <1>1 DEF Quiet
<1>2. ASSUME NEW c \in Consumers, NEW m \in DOMAIN unread, Read(c, m)
      PROVE  task[d].phase \in {"count", "commit"} /\ task[d].msg = task'[d].msg
  <2>1. Moves(c, "idle", "record")
    BY <1>2, ReadEffect
  <2>. QED  BY <2>1 DEF Moves
<1>3. ASSUME NEW c \in Consumers, Step(c) \/ SendFails(c) \/ HandlerFails(c), c # d
      PROVE  task'[d] = task[d]
  BY <1>3, OthersStay
<1>4. CASE InsertBookingEvent(d)
  BY <1>4, InsertBookingEventEffect DEF Moves, bookingVars
<1>5. CASE CountAppointment(d)
  BY <1>5, CountAppointmentEffect DEF Moves
<1>6. CASE Record(d)
  BY <1>6, RecordEffect DEF Moves, HandlerOf
<1>7. CASE \/ Send(d) \/ SendFails(d) \/ InsertNotification(d) \/ WriteOutcome(d) \/ InsertMetric(d)
           \/ BumpNotificationAggregate(d) \/ CommitBookingEvent(d) \/ HandlerFails(d)
  <2>1. task'[d].phase \in {"persist", "announce", "idle", "bump"}
    BY <1>7, SendEffect, InsertNotificationEffect, WriteOutcomeEffect, InsertMetricEffect, BumpEffect,
       CommitBookingEventEffect, HandlerFailsEffect DEF Moves
  <2>. QED  BY <2>1
<1>. QED  BY <1>1, <1>2, <1>3, <1>4, <1>5, <1>6, <1>7, StepCases DEF Step

LEMMA BookingEventsGrow ==
  ASSUME IInv, [Next]_vars
  PROVE  \/ UNCHANGED <<bookingEvents, appointments, rebuild>>
         \/ \E c \in Consumers : CommitBookingEvent(c)
         \/ /\ \E t \in DOMAIN rebuild : Truncate(t) \/ CommitRebuild(t)
            /\ UNCHANGED <<bookingEvents, task>>
<1>1. ASSUME NEW c \in Consumers, Step(c) \/ SendFails(c) \/ HandlerFails(c), ~CommitBookingEvent(c)
      PROVE  UNCHANGED <<bookingEvents, appointments, rebuild>>
  BY <1>1, RecordEffect, SendEffect, InsertNotificationEffect, WriteOutcomeEffect, InsertMetricEffect,
     BumpEffect, InsertBookingEventEffect, CountAppointmentEffect, HandlerFailsEffect
  DEF Step, bookingVars
<1>2. CASE Quiet
  BY <1>2 DEF Quiet
<1>3. ASSUME NEW c \in Consumers, NEW m \in DOMAIN unread, Read(c, m)
      PROVE  UNCHANGED <<bookingEvents, appointments, rebuild>>
  BY <1>3, ReadEffect DEF bookingVars
<1>. QED  BY <1>1, <1>2, <1>3, StepCases

LEMMA StoringStep ==
  ASSUME IInv, [Next]_vars
  PROVE  Storing'
<1>1. IsFiniteSet(bookingEvents')
  <2>1. IsFiniteSet(bookingEvents)
    BY DEF IInv, Storing
  <2>2. ASSUME NEW c \in Consumers, CommitBookingEvent(c)  PROVE IsFiniteSet(bookingEvents')
    <3>1. bookingEvents' = bookingEvents \union {task[c].msg}
      BY <2>2, CommitBookingEventEffect
    <3>. QED  BY <2>1, <3>1, FS_AddElement
  <2>. QED  BY <2>1, <2>2, BookingEventsGrow
<1>2. ASSUME NEW m \in Bookings, NEW c \in Consumers, At(c, {"count", "commit"}, m)
      PROVE  /\ m \notin bookingEvents /\ Uncommitted(m)
             /\ \A d \in Consumers : At(d, {"count", "commit"}, m) => d = c
  <2>1. c \in Analysts
    BY <1>2, AnalystsCount DEF At
  <2>. QED  BY <1>2, <2>1 DEF IInv, Storing, Uncommitted, At
<1>3. ASSUME NEW m \in Bookings, NEW c \in Consumers, At(c, {"count", "commit"}, m)'
      PROVE  /\ m \notin bookingEvents'
             /\ \A d \in Consumers : At(d, {"count", "commit"}, m)' => d = c
  <2>0. task'[c].phase \in {"count", "commit"} /\ task'[c].msg = m
    BY <1>3 DEF At
  <2>1. CASE At(c, {"count", "commit"}, m)
    <3>1. m \notin bookingEvents'
      <4>1. m \notin bookingEvents
        BY <1>2, <2>1
      <4>2. ASSUME NEW d \in Consumers, CommitBookingEvent(d)  PROVE m \notin bookingEvents'
        <5>1. /\ Moves(d, "commit", "idle") /\ bookingEvents' = bookingEvents \union {task[d].msg}
          BY <4>2, CommitBookingEventEffect
        <5>2. d # c
          BY <2>0, <5>1 DEF Moves
        <5>3. task[d].msg # m
          BY <1>2, <2>1, <5>1, <5>2 DEF At, Moves
        <5>. QED  BY <4>1, <5>1, <5>3
      <4>. QED  BY <4>1, <4>2, BookingEventsGrow
    <3>2. ASSUME NEW d \in Consumers, At(d, {"count", "commit"}, m)'  PROVE d = c
      <4>1. task'[d].phase \in {"count", "commit"} /\ task'[d].msg = m
        BY <3>2 DEF At
      <4>2. CASE At(d, {"count", "commit"}, m)
        BY <1>2, <2>1, <4>2
      <4>3. CASE ~Uncommitted(m)
        BY <1>2, <2>1, <4>3
      <4>. QED  BY <4>1, <4>2, <4>3, TransactionSteps DEF At
    <3>. QED  BY <3>1, <3>2
  <2>2. CASE ~At(c, {"count", "commit"}, m)
    <3>1. /\ m \notin bookingEvents /\ ~Uncommitted(m)
          /\ \A e \in Consumers \ {c} : task'[e] = task[e]
          /\ bookingEvents' = bookingEvents
      BY <2>0, <2>2, TransactionSteps DEF At
    <3>2. ASSUME NEW d \in Consumers, At(d, {"count", "commit"}, m)', d # c  PROVE FALSE
      <4>1. At(d, {"count", "commit"}, m)
        BY <3>1, <3>2 DEF At
      <4>. QED  BY <1>2, <3>1, <4>1
    <3>. QED  BY <3>1, <3>2
  <2>. QED  BY <2>1, <2>2
<1>. QED  BY <1>1, <1>3 DEF Storing

\* The counts of a set of events with an event more.
LEMMA EventsOfFacts ==
  ASSUME IInv, NEW k \in Days \X {"booked", "canceled"}
  PROVE  /\ EventsOf(k[1], k[2]) \in Nat
         /\ \A m \in Bookings \ bookingEvents : bookingEvents' = bookingEvents \union {m} =>
              EventsOf(k[1], k[2])' =
                EventsOf(k[1], k[2]) + (IF <<m.day, m.kind>> = k THEN 1 ELSE 0)
<1>. DEFINE old == {e \in bookingEvents : e.day = k[1] /\ e.kind = k[2]}
<1>1. IsFiniteSet(old)
  BY FS_Subset DEF IInv, Storing
<1>2. Cardinality(old) \in Nat /\ EventsOf(k[1], k[2]) = Cardinality(old)
  BY <1>1, FS_CardinalityType DEF EventsOf
<1>3. ASSUME NEW m \in Bookings \ bookingEvents, bookingEvents' = bookingEvents \union {m}
      PROVE  EventsOf(k[1], k[2])' = EventsOf(k[1], k[2]) + (IF <<m.day, m.kind>> = k THEN 1 ELSE 0)
  <2>. DEFINE new == {e \in bookingEvents' : e.day = k[1] /\ e.kind = k[2]}
  <2>1. m \notin old /\ EventsOf(k[1], k[2])' = Cardinality(new)
    BY DEF EventsOf
  <2>2. <<m.day, m.kind>> = k <=> m.day = k[1] /\ m.kind = k[2]
    OBVIOUS
  <2>3. new = IF <<m.day, m.kind>> = k THEN old \union {m} ELSE old
    BY <1>3, <2>2
  <2>. HIDE DEF old, new
  <2>4. Cardinality(old \union {m}) = Cardinality(old) + 1
    BY <1>1, <2>1, FS_AddElement
  <2>. QED  BY <1>2, <2>1, <2>3, <2>4
<1>. QED  BY <1>2, <1>3

LEMMA AppointmentsFollowStep ==
  ASSUME IInv, [Next]_vars
  PROVE  AppointmentsFollow'
<1>0. /\ EventsCounted(appointments) /\ appointments \in AppointmentCounts
      /\ DOMAIN rebuild = {"notifications", "appointments"}
      /\ rebuild["appointments"] # NoCounts =>
           EventsCounted(rebuild["appointments"]) /\ \A c \in Consumers : task[c].phase # "commit"
  BY DEF IInv, TypeOK, AppointmentsFollow
<1>1. ASSUME NEW c \in Consumers, task'[c].phase = "commit", task[c].phase # "commit"
      PROVE  rebuild'["appointments"] = NoCounts
  <2>1. CountAppointment(c)
    <3>1. CASE Quiet
      BY <1>1, <3>1 DEF Quiet
    <3>2. ASSUME NEW d \in Consumers, NEW m \in DOMAIN unread, Read(d, m)  PROVE FALSE
      <4>1. Moves(d, "idle", "record")
        BY <3>2, ReadEffect
      <4>. QED  BY <1>1, <4>1 DEF Moves
    <3>3. ASSUME NEW d \in Consumers, Step(d) \/ SendFails(d) \/ HandlerFails(d)  PROVE d = c
      BY <1>1, <3>3, OthersStay
    <3>4. CASE Record(c)
      BY <1>1, <3>4, RecordEffect DEF Moves, HandlerOf
    <3>5. CASE \/ Send(c) \/ SendFails(c) \/ InsertNotification(c) \/ WriteOutcome(c) \/ InsertMetric(c)
               \/ BumpNotificationAggregate(c) \/ InsertBookingEvent(c) \/ CommitBookingEvent(c)
               \/ HandlerFails(c)
      BY <1>1, <3>5, SendEffect, InsertNotificationEffect, WriteOutcomeEffect, InsertMetricEffect, BumpEffect,
         InsertBookingEventEffect, CommitBookingEventEffect, HandlerFailsEffect DEF Moves
    <3>. QED  BY <3>1, <3>2, <3>3, <3>4, <3>5, StepCases DEF Step
  <2>. QED  BY <2>1, CountAppointmentEffect
<1>2. CASE UNCHANGED <<bookingEvents, appointments, rebuild>>
  <2>1. EventsCounted(appointments)'
    BY <1>0, <1>2 DEF EventsCounted, EventsOf
  <2>2. rebuild["appointments"] # NoCounts => EventsCounted(rebuild["appointments"])'
    BY <1>0, <1>2 DEF EventsCounted, EventsOf
  <2>. QED  BY <1>0, <1>1, <1>2, <2>1, <2>2 DEF AppointmentsFollow
<1>3. ASSUME NEW c \in Consumers, CommitBookingEvent(c)  PROVE AppointmentsFollow'
  <2>. DEFINE m == task[c].msg
              e == <<m.day, m.kind>>
  <2>1. /\ Moves(c, "commit", "idle") /\ m \in Bookings /\ rebuild' = rebuild
        /\ bookingEvents' = bookingEvents \union {m}
        /\ appointments' = [appointments EXCEPT ![e] = appointments[e] + 1]
    BY <1>3, CommitBookingEventEffect
  <2>2. m \notin bookingEvents
    <3>1. At(c, {"count", "commit"}, m)
      BY <2>1 DEF At, Moves
    <3>. QED  BY <2>1, <3>1 DEF IInv, Storing
  <2>3. rebuild'["appointments"] = NoCounts
    BY <1>0, <2>1 DEF Moves
  <2>4. e \in Days \X {"booked", "canceled"}
    BY <2>1, NotificationsAssumption DEF Days
  <2>. HIDE DEF m, e
  <2>5. ASSUME NEW k \in Days \X {"booked", "canceled"}
        PROVE  appointments'[k] = EventsOf(k[1], k[2])'
    <3>1. EventsOf(k[1], k[2])' = EventsOf(k[1], k[2]) + (IF e = k THEN 1 ELSE 0)
      BY <2>1, <2>2, EventsOfFacts DEF e
    <3>2. appointments[k] = EventsOf(k[1], k[2]) /\ EventsOf(k[1], k[2]) \in Nat
      BY <1>0, EventsOfFacts DEF EventsCounted
    <3>3. appointments'[k] = appointments[k] + (IF e = k THEN 1 ELSE 0)
      BY <1>0, <2>1, <2>4, <3>2 DEF AppointmentCounts
    <3>. QED  BY <3>1, <3>2, <3>3
  <2>. QED  BY <2>3, <2>5 DEF AppointmentsFollow, EventsCounted
<1>4. CASE Truncate("appointments") /\ UNCHANGED <<bookingEvents, task>>
  <2>1. /\ appointments' = appointments
        /\ rebuild'["appointments"] = [k \in DOMAIN appointments |-> EventsOf(k[1], k[2])]
        /\ \A c \in Analysts : task[c].phase # "commit"
    BY <1>0, <1>4 DEF Truncate, Recount, countVars
  <2>2. EventsCounted(appointments)'
    BY <1>0, <1>4, <2>1 DEF EventsCounted, EventsOf
  <2>3. EventsCounted(rebuild["appointments"])'
    BY <1>0, <1>4, <2>1 DEF EventsCounted, EventsOf, AppointmentCounts
  <2>4. \A c \in Consumers : task'[c].phase # "commit"
    BY <1>4, <2>1, AnalystsCount
  <2>. QED  BY <2>2, <2>3, <2>4 DEF AppointmentsFollow
<1>5. CASE CommitRebuild("appointments") /\ UNCHANGED <<bookingEvents, task>>
  <2>1. /\ rebuild["appointments"] # NoCounts /\ appointments' = rebuild["appointments"]
        /\ rebuild'["appointments"] = NoCounts
    BY <1>0, <1>5 DEF CommitRebuild
  <2>2. EventsCounted(appointments)'
    BY <1>0, <1>5, <2>1 DEF EventsCounted, EventsOf
  <2>. QED  BY <2>1, <2>2 DEF AppointmentsFollow
<1>6. CASE (Truncate("notifications") \/ CommitRebuild("notifications")) /\ UNCHANGED <<bookingEvents, task>>
  <2>1. appointments' = appointments /\ rebuild'["appointments"] = rebuild["appointments"]
    BY <1>0, <1>6 DEF Truncate, CommitRebuild, countVars
  <2>2. EventsCounted(appointments)'
    BY <1>0, <1>6, <2>1 DEF EventsCounted, EventsOf
  <2>3. rebuild["appointments"] # NoCounts => EventsCounted(rebuild["appointments"])'
    BY <1>0, <1>6, <2>1 DEF EventsCounted, EventsOf
  <2>. QED  BY <1>0, <1>6, <2>1, <2>2, <2>3 DEF AppointmentsFollow
<1>. QED  BY <1>0, <1>2, <1>3, <1>4, <1>5, <1>6, BookingEventsGrow

------------------------------------------------------------------------------
(* Types, and the theorems.                                                 *)

\* The variables that no other proof speaks of.
LEMMA BoundsStep ==
  ASSUME TypeOK, [Next]_vars
  PROVE  /\ pending' \subseteq Reminders \union Bookings
         /\ rebuilds' \in 0..MaxRebuilds /\ faults' \in 0..MaxFaults
<1>. USE NotificationsAssumption DEF TypeOK, Fault
<1>1. CASE \E m \in pending : Commit(m)
  BY <1>1 DEF Commit, scriptVars
<1>2. CASE \E m \in Reminders \union Bookings \union ToSet(outcomes) : Repeat(m)
  BY <1>2 DEF Repeat, scriptVars
<1>3. CASE ReadAny(Notifiers) \/ ReadAny(Analysts)
  BY <1>3 DEF ReadAny, Read, scriptVars
<1>4. ASSUME NEW c \in Consumers, Step(c)  PROVE UNCHANGED <<pending, rebuilds, faults>>
  BY <1>4 DEF Step, Record, Send, InsertNotification, WriteOutcome, InsertMetric, BumpNotificationAggregate,
              InsertBookingEvent, CountAppointment, CommitBookingEvent, scriptVars
<1>5. CASE \E c \in Consumers : SendFails(c) \/ HandlerFails(c)
  BY <1>5 DEF SendFails, HandlerFails, scriptVars
<1>6. CASE \E t \in DOMAIN rebuild : Truncate(t) \/ CommitRebuild(t)
  BY <1>6 DEF Truncate, CommitRebuild
<1>7. CASE UNCHANGED vars
  BY <1>7 DEF vars, scriptVars
<1>. QED  BY <1>1, <1>2, <1>3, <1>4, <1>5, <1>6, <1>7 DEF Next

LEMMA RecordsStep ==
  ASSUME IInv, [Next]_vars
  PROVE  /\ handed' \in [Reminders -> Nat] /\ notifications' \in [Reminders -> Seq(Statuses)]
         /\ metrics' \in Seq(Outcome) /\ ToSet(metrics') \subseteq ToSet(outcomes')
         /\ bookingEvents' \subseteq Bookings
<1>0. /\ handed \in [Reminders -> Nat] /\ notifications \in [Reminders -> Seq(Statuses)]
      /\ metrics \in Seq(Outcome) /\ ToSet(metrics) \subseteq ToSet(outcomes')
      /\ bookingEvents \subseteq Bookings
  BY OutcomesGrow DEF IInv, TypeOK
<1>1. ASSUME NEW c \in Consumers, Step(c) \/ SendFails(c) \/ HandlerFails(c)
      PROVE  handed' \in [Reminders -> Nat] /\ notifications' \in [Reminders -> Seq(Statuses)]
  <2>1. CASE Send(c) \/ SendFails(c)
    <3>1. /\ handed' \in {handed, [handed EXCEPT ![task[c].msg] = handed[task[c].msg] + 1]}
          /\ task[c].msg \in Reminders /\ notifications' = notifications
      BY <2>1, SendEffect
    <3>. QED  BY <1>0, <3>1
  <2>2. CASE InsertNotification(c)
    <3>1. /\ notifications' = [notifications EXCEPT ![task[c].msg] =
               Append(notifications[task[c].msg], task[c].status)]
          /\ task[c].msg \in Reminders /\ task[c].status \in Statuses /\ handed' = handed
      BY <2>2, InsertNotificationEffect
    <3>2. Append(notifications[task[c].msg], task[c].status) \in Seq(Statuses)
      BY <1>0, <3>1
    <3>. QED  BY <1>0, <3>1, <3>2
  <2>3. CASE Step(c) \/ HandlerFails(c)
    <3>1. CASE ~Send(c) /\ ~InsertNotification(c)
      BY <1>0, <2>3, <3>1, RecordEffect, WriteOutcomeEffect, InsertMetricEffect, BumpEffect,
         InsertBookingEventEffect, CountAppointmentEffect, CommitBookingEventEffect, HandlerFailsEffect
      DEF Step, reminderVars
    <3>. QED  BY <2>1, <2>2, <3>1
  <2>. QED  BY <1>1, <2>1, <2>3
<1>2. handed' \in [Reminders -> Nat] /\ notifications' \in [Reminders -> Seq(Statuses)]
  BY <1>0, <1>1, ReadEffect, StepCases DEF Quiet, reminderVars
<1>3. metrics' \in Seq(Outcome) /\ ToSet(metrics') \subseteq ToSet(outcomes')
  <2>1. ASSUME NEW c \in Consumers, InsertMetric(c)
        PROVE  metrics' \in Seq(Outcome) /\ ToSet(metrics') \subseteq ToSet(outcomes')
    <3>1. metrics' = Append(metrics, task[c].msg) /\ task[c].msg \in Outcome /\ task[c].phase = "insert"
      BY <2>1, InsertMetricEffect DEF Moves
    <3>2. task[c].msg \in ToSet(outcomes')
      BY <3>1, OutcomesGrow DEF IInv, OutcomesAreWritten, Idle
    <3>. QED  BY <1>0, <3>1, <3>2, AppendFacts
  <2>. QED  BY <1>0, <2>1, MetricsGrow
<1>4. bookingEvents' \subseteq Bookings
  BY <1>0, CommitBookingEventEffect, BookingEventsGrow
<1>. QED  BY <1>2, <1>3, <1>4

LEMMA MessagesStep ==
  ASSUME IInv, [Next]_vars
  PROVE  /\ IsABag(unread') /\ DOMAIN unread' \subseteq Messages
         /\ inbox' \subseteq Messages /\ task' \in [Consumers -> Tasks]
<1>0. /\ IsABag(unread) /\ DOMAIN unread \subseteq Messages
      /\ inbox \subseteq Messages /\ task \in [Consumers -> Tasks]
  BY DEF IInv, TypeOK, BagToSet
<1>1. ASSUME NEW m \in Messages, unread' = unread (+) SetToBag({m})
      PROVE  IsABag(unread') /\ DOMAIN unread' \subseteq Messages
  <2>1. IsABag(unread') /\ DOMAIN unread' = DOMAIN unread \union {m}
    BY <1>0, <1>1, BagFacts
  <2>. QED  BY <1>0, <1>1, <2>1
<1>2. CASE Quiet
  <2>1. ToSet(outcomes) \subseteq Outcome
    BY DEF IInv, TypeOK, ToSet
  <2>. QED  BY <1>0, <1>1, <1>2, <2>1 DEF Quiet, Messages
<1>3. ASSUME NEW c \in Consumers, NEW m \in DOMAIN unread, Read(c, m)
      PROVE  /\ IsABag(unread') /\ DOMAIN unread' \subseteq Messages
             /\ inbox' \subseteq Messages /\ task' \in [Consumers -> Tasks]
  <2>1. unread' = unread (-) SetToBag({m}) /\ inbox' = inbox /\ task' \in [Consumers -> Tasks]
    BY <1>3, ReadEffect DEF Moves
  <2>2. IsABag(unread') /\ DOMAIN unread' \subseteq DOMAIN unread
    BY <1>0, <2>1, BagFacts
  <2>. QED  BY <1>0, <2>1, <2>2
<1>4. ASSUME NEW c \in Consumers, WriteOutcome(c)
      PROVE  /\ IsABag(unread') /\ DOMAIN unread' \subseteq Messages
             /\ inbox' \subseteq Messages /\ task' \in [Consumers -> Tasks]
  <2>1. /\ \E o \in Outcome : unread' = unread (+) SetToBag({o})
        /\ inbox' = inbox /\ task' \in [Consumers -> Tasks]
    BY <1>4, WriteOutcomeEffect DEF Moves
  <2>. QED  BY <1>0, <1>1, <2>1 DEF Messages
<1>5. ASSUME NEW c \in Consumers, Step(c) \/ SendFails(c) \/ HandlerFails(c), ~WriteOutcome(c)
      PROVE  unread' = unread /\ inbox' \subseteq Messages /\ task' \in [Consumers -> Tasks]
  <2>1. CASE Record(c)
    BY <1>0, <2>1, RecordEffect DEF Moves
  <2>2. CASE ~Record(c)
    BY <1>0, <1>5, <2>2, SendEffect, InsertNotificationEffect, InsertMetricEffect, BumpEffect,
       InsertBookingEventEffect, CountAppointmentEffect, CommitBookingEventEffect, HandlerFailsEffect
    DEF Step, Moves
  <2>. QED  BY <2>1, <2>2
<1>. QED  BY <1>0, <1>2, <1>3, <1>4, <1>5, StepCases

LEMMA TablesStep ==
  ASSUME IInv, [Next]_vars
  PROVE  /\ daily' \in DailyCounts /\ appointments' \in AppointmentCounts
         /\ DOMAIN rebuild' = {"notifications", "appointments"}
         /\ rebuild'["notifications"] \in DailyCounts \union {NoCounts}
         /\ rebuild'["appointments"] \in AppointmentCounts \union {NoCounts}
<1>0. /\ daily \in DailyCounts /\ appointments \in AppointmentCounts
      /\ DOMAIN rebuild = {"notifications", "appointments"}
      /\ rebuild["notifications"] \in DailyCounts \union {NoCounts}
      /\ rebuild["appointments"] \in AppointmentCounts \union {NoCounts}
  BY DEF IInv, TypeOK
<1>1. ASSUME NEW c \in Consumers, BumpNotificationAggregate(c)
      PROVE  daily' \in DailyCounts /\ UNCHANGED <<appointments, rebuild>>
  <2>1. /\ daily' = [daily EXCEPT ![Key(task[c].msg)] = daily[Key(task[c].msg)] + 1]
        /\ Key(task[c].msg) \in Channels \X Statuses
        /\ UNCHANGED <<appointments, rebuild>>
    BY <1>1, BumpEffect, KeyFacts DEF bookingVars
  <2>. QED  BY <1>0, <2>1 DEF DailyCounts
<1>2. ASSUME NEW c \in Consumers, CommitBookingEvent(c)
      PROVE  appointments' \in AppointmentCounts /\ UNCHANGED <<daily, rebuild>>
  <2>. DEFINE e == <<task[c].msg.day, task[c].msg.kind>>
  <2>1. /\ appointments' = [appointments EXCEPT ![e] = appointments[e] + 1]
        /\ UNCHANGED <<daily, rebuild>> /\ task[c].msg \in Bookings
    BY <1>2, CommitBookingEventEffect DEF dailyVars
  <2>2. e \in Days \X {"booked", "canceled"}
    BY <2>1, NotificationsAssumption DEF Days
  <2>. HIDE DEF e
  <2>. QED  BY <1>0, <2>1, <2>2 DEF AppointmentCounts
<1>3. CASE \E t \in DOMAIN rebuild : Truncate(t) \/ CommitRebuild(t)
  <2>1. \A k \in DOMAIN daily : MetricsOf(k[1], k[2]) \in Nat
    BY <1>0, CountsAreNumbers DEF DailyCounts
  <2>2. \A k \in DOMAIN appointments : EventsOf(k[1], k[2]) \in Nat
    BY <1>0, EventsOfFacts DEF AppointmentCounts
  <2>3. Recount("notifications") \in DailyCounts /\ Recount("appointments") \in AppointmentCounts
    BY <1>0, <2>1, <2>2 DEF Recount, DailyCounts, AppointmentCounts
  <2>4. CASE Truncate("notifications") \/ Truncate("appointments")
    BY <1>0, <2>3, <2>4 DEF Truncate, countVars
  <2>5. CASE CommitRebuild("notifications") \/ CommitRebuild("appointments")
    BY <1>0, <2>5 DEF CommitRebuild
  <2>. QED  BY <1>0, <1>3, <2>4, <2>5
<1>4. ASSUME NEW c \in Consumers, Step(c) \/ SendFails(c) \/ HandlerFails(c),
             ~BumpNotificationAggregate(c), ~CommitBookingEvent(c)
      PROVE  UNCHANGED <<daily, appointments, rebuild>>
  BY <1>4, RecordEffect, SendEffect, InsertNotificationEffect, WriteOutcomeEffect, InsertMetricEffect,
     InsertBookingEventEffect, CountAppointmentEffect, HandlerFailsEffect DEF Step, dailyVars, bookingVars
<1>5. CASE UNCHANGED <<daily, appointments, rebuild>>
  BY <1>0, <1>5
<1>. QED  BY <1>0, <1>1, <1>2, <1>3, <1>4, <1>5, ReadEffect, StepCases DEF Quiet, dailyVars, bookingVars

LEMMA TypeOKStep ==
  ASSUME IInv, [Next]_vars
  PROVE  TypeOK'
<1>1. overlaps' \in Nat
  <2>1. overlaps \in Nat
    BY DEF IInv, TypeOK
  <2>2. ASSUME NEW c \in Consumers, Step(c) \/ SendFails(c) \/ HandlerFails(c)  PROVE overlaps' = overlaps
    BY <2>2, RecordEffect, SendEffect, InsertNotificationEffect, WriteOutcomeEffect, InsertMetricEffect,
       BumpEffect, InsertBookingEventEffect, CountAppointmentEffect, CommitBookingEventEffect,
       HandlerFailsEffect DEF Step, dailyVars
  <2>. QED  BY <2>1, <2>2, OverlapsGrow, ReadEffect, StepCases DEF Quiet, dailyVars
<1>2. TypeOK
  BY DEF IInv
<1>. QED  BY <1>1, <1>2, BoundsStep, RecordsStep, MessagesStep, TablesStep, OutcomesGrow DEF TypeOK, BagToSet

LEMMA InitInv ==
  ASSUME Init
  PROVE  IInv
<1>. USE DEF Init
<1>1. EmptyBag = <<>> /\ DOMAIN EmptyBag = {} /\ IsABag(EmptyBag)
  BY DEF EmptyBag, SetToBag, IsABag
<1>2. \A c \in Consumers : task[c] = Idle /\ task[c].phase = "idle"
  BY DEF Idle
<1>3. TypeOK
  <2>1. task \in [Consumers -> Tasks]
    BY DEF Tasks
  <2>2. pending \subseteq Reminders \union Bookings /\ inbox \subseteq Messages /\ bookingEvents \subseteq Bookings
    OBVIOUS
  <2>3. IsABag(unread) /\ BagToSet(unread) \subseteq Messages
    BY <1>1 DEF BagToSet
  <2>4. handed \in [Reminders -> Nat] /\ notifications \in [Reminders -> Seq(Statuses)]
    OBVIOUS
  <2>5. /\ outcomes \in Seq(Outcome) /\ \A n \in DOMAIN outcomes : outcomes[n].row = n
        /\ metrics \in Seq(Outcome) /\ ToSet(metrics) \subseteq ToSet(outcomes)
    OBVIOUS
  <2>6. daily \in DailyCounts /\ appointments \in AppointmentCounts
    BY DEF DailyCounts, AppointmentCounts
  <2>7. /\ DOMAIN rebuild = {"notifications", "appointments"}
        /\ rebuild["notifications"] = NoCounts /\ rebuild["appointments"] = NoCounts
        /\ rebuilds \in 0..MaxRebuilds /\ faults \in 0..MaxFaults /\ overlaps \in Nat
    BY NotificationsAssumption
  <2>. QED  BY <2>1, <2>2, <2>3, <2>4, <2>5, <2>6, <2>7 DEF TypeOK
<1>4. Readers /\ OutcomesAreWritten /\ OneHandler /\ Progress
  BY <1>1, <1>2 DEF Readers, OutcomesAreWritten, OneHandler, Progress, At, Handling
<1>5. Fresh
  BY <1>2 DEF Fresh, At, Handling, NoOutcome, ToSet
<1>6. Outcomes /\ NoneLost
  BY DEF Outcomes, NoneLost
<1>7. Inserting
  BY <1>2 DEF Inserting, IsInjective, ToSet
<1>8. DailyFollow
  <2>1. ASSUME NEW k \in Channels \X Statuses
        PROVE  daily[k] = 0 /\ Cardinality(Between(k)) = 0 /\ MetricsOf(k[1], k[2]) = 0
    <3>1. Between(k) = {}
      BY <1>2 DEF Between, Consumers
    <3>2. Places(metrics, k) = {}
      BY DEF Places
    <3>. QED  BY <3>1, <3>2, KeyFacts, FS_EmptySet
  <2>2. rebuild["notifications"] = NoCounts
    OBVIOUS
  <2>. QED  BY <2>1, <2>2 DEF DailyFollow, CountsFollow
<1>9. Storing
  BY <1>2, FS_EmptySet DEF Storing, At
<1>10. AppointmentsFollow
  <2>1. ASSUME NEW k \in Days \X {"booked", "canceled"}
        PROVE  appointments[k] = 0 /\ EventsOf(k[1], k[2]) = 0
    <3>1. {e \in bookingEvents : e.day = k[1] /\ e.kind = k[2]} = {}
      OBVIOUS
    <3>. QED  BY <3>1, FS_EmptySet DEF EventsOf
  <2>2. rebuild["appointments"] = NoCounts
    OBVIOUS
  <2>. QED  BY <2>1, <2>2 DEF AppointmentsFollow, EventsCounted
<1>. QED  BY <1>3, <1>4, <1>5, <1>6, <1>7, <1>8, <1>9, <1>10 DEF IInv

LEMMA NextInv ==
  ASSUME IInv, [Next]_vars
  PROVE  IInv'
  BY TypeOKStep, ReadersStep, OutcomesAreWrittenStep, FreshStep, OneHandlerStep, ProgressStep, OutcomesStep,
     NoneLostStep, InsertingStep, DailyFollowStep, StoringStep, AppointmentsFollowStep DEF IInv

\* The inductive invariant that all the others follow from.
THEOREM Inductive == Spec => []IInv
<1>1. Init => IInv
  BY InitInv
<1>2. IInv /\ [Next]_vars => IInv'
  BY NextInv
<1>. QED  BY <1>1, <1>2, PTL DEF Spec

\* Every variable of the handlers of notification-service and of
\* analytics-service has its type, and the metrics are of written outcomes.
THEOREM TypeCorrect == Spec => []TypeOK
<1>1. IInv => TypeOK
  BY DEF IInv
<1>. QED  BY <1>1, Inductive, PTL

\* The outbox rows of a reminder: one, or none.
LEMMA OutcomesOfReminder ==
  ASSUME IInv, NEW r \in Reminders
  PROVE  Cardinality({n \in DOMAIN outcomes : outcomes[n].of = r}) = IF NoOutcome(r) THEN 0 ELSE 1
<1>. DEFINE rows == {n \in DOMAIN outcomes : outcomes[n].of = r}
<1>1. CASE NoOutcome(r)
  <2>1. rows = {}
    BY <1>1 DEF NoOutcome
  <2>. QED  BY <1>1, <2>1, FS_EmptySet
<1>2. CASE ~NoOutcome(r)
  <2>1. PICK n \in DOMAIN outcomes : outcomes[n].of = r
    BY <1>2 DEF NoOutcome
  <2>2. rows = {n}
    BY <2>1 DEF IInv, Outcomes
  <2>. QED  BY <1>2, <2>2, FS_Singleton
<1>. QED  BY <1>1, <1>2

\* A reminder goes out once and has one outcome, however often its message is
\* delivered, to how many consumers, and wherever the handler stops.
THEOREM RemindedOnce == Spec => []OneMessagePerReminder
<1>1. IInv => OneMessagePerReminder
  <2>1. ASSUME IInv, NEW r \in Reminders
        PROVE  handed[r] <= 1 /\ Cardinality({n \in DOMAIN outcomes : outcomes[n].of = r}) <= 1
    <3>1. handed[r] \in {0, 1}
      BY <2>1 DEF IInv, Outcomes
    <3>. QED  BY <2>1, <3>1, OutcomesOfReminder
  <2>. QED  BY <2>1 DEF OneMessagePerReminder
<1>. QED  BY <1>1, Inductive, PTL

\* What is announced of a reminder is what was stored of it, "sent" went out,
\* and without a fault none that went out is left without its outcome.
THEOREM AnnouncedIsStored == Spec => []OutcomesAreTrue
<1>1. IInv => OutcomesAreTrue
  <2>. SUFFICES ASSUME IInv  PROVE OutcomesAreTrue
    OBVIOUS
  <2>1. ASSUME faults = 0, NEW r \in Reminders,
               handed[r] > Cardinality({n \in DOMAIN outcomes : outcomes[n].of = r})
        PROVE  \E c \in Notifiers : task[c].phase \in {"persist", "announce"} /\ task[c].msg = r
    <3>1. handed[r] \in {0, 1}
      BY DEF IInv, Outcomes
    <3>2. handed[r] = 1 /\ NoOutcome(r)
      BY <2>1, <3>1, OutcomesOfReminder
    <3>. QED  BY <2>1, <3>2 DEF IInv, NoneLost, At
  <2>. QED  BY <2>1 DEF OutcomesAreTrue, IInv, Outcomes
<1>. QED  BY <1>1, Inductive, PTL

\* daily_notification_metrics follows notification_metrics, but for the
\* handlers between the two statements, the faults, and what a rebuild overtook.
THEOREM NotificationsAreCounted == Spec => []NotificationCountsFollowMetrics
<1>1. IInv => NotificationCountsFollowMetrics
  <2>. SUFFICES ASSUME IInv  PROVE NotificationCountsFollowMetrics
    OBVIOUS
  <2>1. DOMAIN daily = Channels \X Statuses
    BY DEF IInv, TypeOK, DailyCounts
  <2>. QED  BY <2>1 DEF NotificationCountsFollowMetrics, IInv, Inserting, DailyFollow, CountsFollow, Between
<1>. QED  BY <1>1, Inductive, PTL

\* daily_appointment_metrics is what booking_events says, at every moment: under
\* replay, under faults and under a rebuild.
THEOREM AppointmentsAreCounted == Spec => []AppointmentCountsFollowEvents
<1>1. IInv => AppointmentCountsFollowEvents
  BY DEF AppointmentCountsFollowEvents, IInv, TypeOK, AppointmentsFollow, EventsCounted, AppointmentCounts
<1>. QED  BY <1>1, Inductive, PTL
==============================================================================
