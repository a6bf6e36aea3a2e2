------------------------------ MODULE Reminders ------------------------------
(***************************************************************************)
(* The reminders of the event of EventPlanning.  Attendees save it and     *)
(* book it; each change of the event or of a save cancels the reminders    *)
(* that are planned and plans them again, row by row, in a job that may be *)
(* overtaken by further changes, saves and payments.                       *)
(***************************************************************************)
EXTENDS EventPlanning

CONSTANTS
  Users,    \* attendees, each with at most one save and one booking
  Day, Eve, \* 24 and 2 hours before the start
  Batch,    \* rows a transaction of the refresh job reads
  NotSaved

ASSUME TimesAssumption == Day \in Nat /\ Eve \in Nat /\ Eve < Day
ASSUME BatchAssumption == Batch \in Nat \ {0} /\ IsFiniteSet(Users)

VARIABLES
  saved,   \* the reminders that the attendee's save enables
  booking, \* PAID; CONTESTED while a refund is asked for; VOIDED when it is approved;
           \* USED once its last valid ticket is scanned
  job,     \* SEND_EVENT_REMINDER of the current versions; those of earlier ones do nothing
  refresh, \* REFRESH_EVENT_REMINDERS of the current version: its phase
  behind,  \* rows of the phase that its cursor has passed
  written  \* reminders written

attendeeVars == <<saved, booking>>
refreshVars == <<refresh, behind>>
reminderVars == <<attendeeVars, job, refreshVars, written>>
vars == <<planningVars, reminderVars>>

\* A tier stands for the reminder that its sales have opened.
SavedKinds == Tiers \cup {"SAVED_EVENT"}
BookingKinds == {"BOOKING_24H", "BOOKING_2H"}
Kinds == SavedKinds \cup BookingKinds
ASSUME KindsAssumption == Tiers \cap ({"SAVED_EVENT"} \cup BookingKinds) = {}
Preferences == SUBSET {"SALE", "EVENT"}
Intents == Users \X Kinds

\* Has a paid order with an ACTIVE ticket.
Holder(u) == booking[u] \in {"PAID", "CONTESTED"}

TypeOK ==
  /\ PlanningTypeOK
  /\ saved \in [Users -> Preferences \cup {NotSaved}]
  /\ booking \in [Users -> {"NONE", "PAID", "CONTESTED", "USED", "VOIDED"}]
  /\ job \in [Intents -> {"NONE", "PENDING", "DONE"}]
  /\ refresh \in {"NONE", "SAVES", "ORDERS", "DONE"}
  /\ behind \subseteq Users
  /\ written \subseteq Intents

\* Bookings of an earlier release have no reminders yet.
Init ==
  /\ PlanningInit
  /\ saved = [u \in Users |-> NotSaved]
  /\ booking \in [Users -> IF event = "PUBLISHED" THEN {"NONE", "PAID"} ELSE {"NONE"}]
  /\ job = [i \in Intents |-> "NONE"]
  /\ refresh = "NONE" /\ behind = {}
  /\ written = {}

-----------------------------------------------------------------------------
(* reminder-plan.                                                          *)

RunAt(k) ==
  IF k \in Tiers THEN tier[k].from ELSE IF k = "BOOKING_2H" THEN start - Eve ELSE start - Day
ExpiresAt(k) ==
  IF k \in Tiers THEN tier[k].to ELSE IF k = "BOOKING_24H" THEN start - Eve ELSE start

Enabled(u, k) ==
  /\ saved[u] # NotSaved
  /\ IF k \in Tiers THEN "SALE" \in saved[u] /\ k \in Live ELSE "EVENT" \in saved[u]

\* savedReminderPlan, bookingReminderPlan.
Planned(u, k) ==
  /\ Upcoming
  /\ IF k \in BookingKinds THEN Holder(u) ELSE Enabled(u, k)
  /\ k \in Tiers => ~tier[k].paused
  /\ RunAt(k) > clock

\* persistIntents, for the rows of these users; duplicates are skipped.
PersistIntents(jobs, users, kinds) ==
  job' = [i \in Intents |->
    IF i[1] \in users /\ i[2] \in kinds /\ jobs[i] = "NONE" /\ Planned(i[1], i[2])'
      THEN "PENDING" ELSE jobs[i]]

\* The jobs once those of the user's save are cancelled.
CancelSavedReminders(u) ==
  [i \in Intents |-> IF i[1] = u /\ i[2] \in SavedKinds THEN "NONE" ELSE job[i]]

-----------------------------------------------------------------------------
(* saved-events.service, and what payments and refunds do to the bookings. *)

SaveEvent(u, preferences) ==
  LET changed == saved[u] \notin {NotSaved, preferences}
  IN /\ saved[u] = NotSaved => Upcoming
     /\ saved' = [saved EXCEPT ![u] = preferences]
     /\ UNCHANGED <<planningVars, booking, refreshVars, written>>
     /\ PersistIntents(IF changed THEN CancelSavedReminders(u) ELSE job, {u}, SavedKinds)

RemoveSavedEvent(u) ==
  /\ saved[u] # NotSaved
  /\ saved' = [saved EXCEPT ![u] = NotSaved]
  /\ job' = CancelSavedReminders(u)
  /\ UNCHANGED <<planningVars, booking, refreshVars, written>>

SetBooking(u, new) ==
  /\ booking' = [booking EXCEPT ![u] = new]
  /\ UNCHANGED <<planningVars, saved, refreshVars, written>>

\* fulfillValidatedPayment, with scheduleBookingReminders.
FulfilBooking(u) ==
  /\ booking[u] = "NONE" /\ Upcoming
  /\ \E t \in Live : tier[t].from <= clock
  /\ SetBooking(u, "PAID")
  /\ PersistIntents(job, {u}, BookingKinds)

\* refundEligibility: until a day before the start.
RequestRefund(u) ==
  /\ booking[u] = "PAID" /\ Upcoming /\ clock <= start - Day
  /\ SetBooking(u, "CONTESTED")
  /\ UNCHANGED job

RejectRefund(u) == booking[u] = "CONTESTED" /\ SetBooking(u, "PAID") /\ UNCHANGED job
ApproveRefund(u) == booking[u] = "CONTESTED" /\ SetBooking(u, "VOIDED") /\ UNCHANGED job

\* checkInTicket: the doors open two hours before the start.
CheckIn(u) ==
  /\ booking[u] = "PAID" /\ event = "PUBLISHED"
  /\ start - Eve <= clock /\ clock <= start
  /\ SetBooking(u, "USED")
  /\ UNCHANGED job

-----------------------------------------------------------------------------
(* reminders.service.                                                      *)

\* In the transaction that changes the event: nothing that was planned is sent.
RefreshEventReminders ==
  /\ job' = [i \in Intents |-> "NONE"]
  /\ refresh' = IF Upcoming' THEN "SAVES" ELSE "NONE"
  /\ behind' = {}
  /\ UNCHANGED <<saved, written>>

MoreRows_Never(rows) == FALSE                             \* mutant: one batch is taken for all rows
MoreRows(rows) == Cardinality(rows) = Batch

\* refreshReminderBatch: the next rows behind the cursor, in the order of ids
\* that say nothing of when the row was written.
RefreshBatch(rows, kinds, next) ==
  /\ Upcoming
  /\ refresh' = IF MoreRows(rows) THEN refresh ELSE next
  /\ behind' = IF MoreRows(rows) THEN behind \cup rows ELSE {}
  /\ UNCHANGED <<planningVars, attendeeVars, written>>
  /\ PersistIntents(job, rows, kinds)

NextRows(candidates) ==
  {rows \in SUBSET candidates :
     Cardinality(rows) = IF Cardinality(candidates) < Batch THEN Cardinality(candidates) ELSE Batch}

RefreshSaves ==
  /\ refresh = "SAVES"
  /\ \E rows \in NextRows({u \in Users : saved[u] # NotSaved} \ behind) :
       RefreshBatch(rows, SavedKinds, "ORDERS")

RefreshOrders ==
  /\ refresh = "ORDERS"
  /\ \E rows \in NextRows({u \in Users : Holder(u)} \ behind) :
       RefreshBatch(rows, BookingKinds, "DONE")

Bootstrapped_Saves == \E u \in Users : saved[u] # NotSaved  \* mutant: bookings are not looked for
\* An order stays PAID when its tickets are used or void, until it is refunded.
Bootstrapped == \E u \in Users : saved[u] # NotSaved \/ booking[u] # "NONE"

\* bootstrapReminderJobs: an event of an earlier release gets its first refresh.
BootstrapReminderJobs ==
  /\ refresh = "NONE" /\ Upcoming /\ Bootstrapped
  /\ refresh' = "SAVES"
  /\ UNCHANGED <<planningVars, attendeeVars, job, behind, written>>

Suppressed_Never(u) == FALSE                              \* mutant: bookings are not looked for
\* The booking reminder takes the place of the saved one while a ticket is ACTIVE.
Suppressed(u) == Holder(u)

\* reminderStillRelevant, but for what is not modelled: the account is that of
\* an active attendee who has not switched booking updates off, and a sale reminder
\* wants stock, and no order.
StillRelevant(u, k) ==
  /\ RunAt(k) <= clock /\ clock < ExpiresAt(k)
  /\ Upcoming
  /\ IF k \in BookingKinds THEN booking[u] = "PAID" ELSE Enabled(u, k) /\ ~Suppressed(u)
  /\ k \in Tiers => ~tier[k].paused

SendEventReminder(u, k) ==
  /\ job[<<u, k>>] = "PENDING" /\ RunAt(k) <= clock
  /\ job' = [job EXCEPT ![<<u, k>>] = "DONE"]
  /\ \/ StillRelevant(u, k) /\ written' = written \cup {<<u, k>>}
     \/ written' = written
  /\ UNCHANGED <<planningVars, attendeeVars, refreshVars>>

-----------------------------------------------------------------------------

ChangeEvent(a) ==
  /\ \/ (TierStep(a) \/ EventStep(a)) /\ booking' = booking
     \/ /\ CancelEvent(a)
        /\ booking' = [u \in Users |-> IF booking[u] = "NONE" THEN "NONE" ELSE "VOIDED"]
  /\ RefreshEventReminders

OtherPlanning == AccountStep \/ CreationStep \/ CompleteEvent \/ TimePasses

AttendeeStep(u) ==
  \/ \E preferences \in Preferences : SaveEvent(u, preferences)
  \/ RemoveSavedEvent(u)
  \/ FulfilBooking(u) \/ RequestRefund(u) \/ RejectRefund(u) \/ ApproveRefund(u) \/ CheckIn(u)

Refresh == RefreshSaves \/ RefreshOrders \/ BootstrapReminderJobs

Next ==
  \/ \E a \in Actors : ChangeEvent(a)
  \/ OtherPlanning /\ UNCHANGED reminderVars
  \/ \E u \in Users : AttendeeStep(u) \/ \E k \in Kinds : SendEventReminder(u, k)
  \/ Refresh

\* The worker's refresh job; the rest is free.
Fairness == WF_vars(Refresh)

Spec == Init /\ [][Next]_vars /\ Fairness

-----------------------------------------------------------------------------
(* Properties.                                                             *)

\* A draft or a published event belongs to an account that can still manage it:
\* organizers are not demoted or deleted while they have one, nor get one by a
\* request that was admitted before.  (A suspension leaves it to administrators.)
OwnersKeepTheirEvents ==
  \A o \in Organizers : Unfinished(o) => role[o] = "ORGANIZER" /\ account[o] # "DELETED"

\* However the dates of the event and the windows of its tiers were moved, sales
\* end before the event starts, and an event that is published has a tier.
SalesFitTheEvent ==
  /\ \A t \in Live : tier[t].from < tier[t].to /\ tier[t].to <= start
  /\ event \in {"PUBLISHED", "COMPLETED"} => Live # {}

\* Each reminder that a save or a booking of the upcoming event calls for has its
\* job, or the refresh of the event has not come to its row yet.
NothingForgotten ==
  \A u \in Users, k \in Kinds :
    Planned(u, k) =>
      \/ job[<<u, k>>] # "NONE"
      \/ refresh = "NONE"
      \/ refresh = "SAVES" /\ (k \in SavedKinds => u \notin behind)
      \/ refresh = "ORDERS" /\ k \in BookingKinds /\ u \notin behind

\* Nobody with a valid ticket has been reminded of the day before the event twice,
\* by his save and by his booking.  Both are written only for a booking that was
\* voided in between, or whose tickets were all scanned: the job of the saved
\* reminder runs until the start, and a late one finds no ACTIVE ticket.
OneDayReminder ==
  \A u \in Users :
    {<<u, "SAVED_EVENT">>, <<u, "BOOKING_24H">>} \subseteq written => ~Holder(u)

\* A step that puts the refresh back to its start.
Restarts ==
  refresh' = "SAVES" /\ (refresh \in {"ORDERS", "DONE"} \/ ~(behind \subseteq behind'))

\* Unless changes of the event restart its refresh for ever, whatever calls for a
\* reminder gets its job, for events of an earlier release too.
RemindersPlanned ==
  \/ []<>(\A u \in Users, k \in Kinds : Planned(u, k) => job[<<u, k>>] # "NONE")
  \/ []<><<Restarts>>_refreshVars
=============================================================================
