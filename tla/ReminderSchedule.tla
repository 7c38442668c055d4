--------------------------- MODULE ReminderSchedule ---------------------------
(***************************************************************************)
(* What the scheduler-service promises the services on either side of it:  *)
(* a reminder that was asked for is announced at most once, by one key     *)
(* (appointment, time, channel), and never before its time.                *)
(***************************************************************************)
EXTENDS Integers

CONSTANTS
  Keys,      \* idempotency keys: appointment_id|remind_at|channel
  RemindAt   \* the time each key names

VARIABLES
  clock,     \* time
  asked,     \* keys with a job
  announced  \* keys whose scheduler.reminder.due.v1 is on its way

sched == <<clock, asked, announced>>

Init == clock = 0 /\ asked = {} /\ announced = {}

Pass == clock' > clock /\ UNCHANGED <<asked, announced>>

Ask(k) == k \notin asked /\ asked' = asked \union {k} /\ UNCHANGED <<clock, announced>>

\* A batch of due reminders, none of them announced before.
Announce(batch) ==
  /\ batch # {}
  /\ batch \subseteq asked \ announced
  /\ \A k \in batch : RemindAt[k] <= clock
  /\ announced' = announced \union batch
  /\ UNCHANGED <<clock, asked>>

Next == Pass \/ (\E k \in Keys : Ask(k)) \/ (\E batch \in SUBSET Keys : Announce(batch))

Spec == Init /\ [][Next]_sched

===============================================================================
