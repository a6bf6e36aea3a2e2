-------------------------- MODULE RemindersProofs --------------------------
(***************************************************************************)
(* Safety of EventPlanning and Reminders, for any accounts, tiers, users,  *)
(* dates and batches.                                                      *)
(***************************************************************************)
EXTENDS Reminders, FiniteSetTheorems, TLAPS

\* What the change of an event by its managers does to the reminders.
LEMMA ChangeRefreshes ==
  ASSUME NEW a \in Actors, ChangeEvent(a)
  PROVE  RefreshEventReminders /\ (TierStep(a) \/ EventStep(a) \/ CancelEvent(a))
  BY DEF ChangeEvent

-----------------------------------------------------------------------------
(* Types.                                                                  *)

AttendeeTypes ==
  /\ saved \in [Users -> Preferences \cup {NotSaved}]
  /\ booking \in [Users -> {"NONE", "PAID", "CONTESTED", "USED", "VOIDED"}]
  /\ job \in [Intents -> {"NONE", "PENDING", "DONE"}]
  /\ refresh \in {"NONE", "SAVES", "ORDERS", "DONE"}
  /\ behind \subseteq Users
  /\ written \subseteq Intents

LEMMA StepPlanningTypes ==
  ASSUME PlanningTypeOK, [Next]_vars PROVE PlanningTypeOK'
<1> USE StartsAssumption
<1> USE DEF PlanningTypeOK, Actors, EventStatus, organizerVars, eventVars, planningVars
<1>1. ASSUME NEW o \in Organizers, ChangeUserRole(o) \/ ChangeUserStatus(o) \/ SoftDeleteUser(o)
      PROVE  PlanningTypeOK'
  BY <1>1 DEF ChangeUserRole, ChangeUserStatus, SoftDeleteUser
<1>2. CreationStep => PlanningTypeOK'
  BY DEF CreationStep, RequestCreation, CreateEvent
<1>3. CompleteEvent \/ TimePasses => PlanningTypeOK'
  BY DEF CompleteEvent, TimePasses
<1>4. ASSUME NEW a \in Actors, NEW t \in Tiers, NEW w \in Windows \cup {NoTier}, SetTier(a, t, w)
      PROVE  PlanningTypeOK'
  BY <1>4 DEF SetTier
<1>5. ASSUME NEW a \in Actors, TierStep(a) PROVE PlanningTypeOK'
  <2>1. ASSUME NEW t \in Tiers, CloseSales(a, t) PROVE PlanningTypeOK'
    <3>1. tier[t] \in Windows /\ clock \in 1 .. LastInstant
      BY <2>1 DEF CloseSales, Closable, Live, Windows
    <3>2. [tier[t] EXCEPT !.to = clock] \in Windows
      BY <3>1 DEF Windows
    <3> QED
      BY <1>4, <2>1, <3>2 DEF CloseSales
  <2> QED
    BY <1>4, <1>5, <2>1 DEF TierStep, CreateTicketTier, UpdateTicketTier, SoftDeleteTicketTier
<1>6. ASSUME NEW a \in Actors, EventStep(a) \/ CancelEvent(a) PROVE PlanningTypeOK'
  BY <1>6 DEF EventStep, UpdateEvent, SoftDeleteEvent, PublishEvent, CancelEvent, SetStatus
<1>7. UNCHANGED planningVars => PlanningTypeOK'
  OBVIOUS
<1>8. ASSUME NEW u \in Users, AttendeeStep(u) \/ \E k \in Kinds : SendEventReminder(u, k)
      PROVE  UNCHANGED planningVars
  BY <1>8 DEF AttendeeStep, SaveEvent, RemoveSavedEvent, FulfilBooking, RequestRefund, RejectRefund,
              ApproveRefund, CheckIn, SetBooking, SendEventReminder
<1>9. Refresh \/ UNCHANGED vars => UNCHANGED planningVars
  BY DEF Refresh, RefreshSaves, RefreshOrders, RefreshBatch, BootstrapReminderJobs, vars
<1> QED
  BY <1>1, <1>2, <1>3, <1>5, <1>6, <1>7, <1>8, <1>9, ChangeRefreshes
  DEF Next, OtherPlanning, AccountStep

LEMMA PersistTypes ==
  ASSUME NEW jobs \in [Intents -> {"NONE", "PENDING", "DONE"}], NEW users, NEW kinds,
         PersistIntents(jobs, users, kinds)
  PROVE  job' \in [Intents -> {"NONE", "PENDING", "DONE"}]
  BY DEF PersistIntents

LEMMA StepAttendeeTypes == ASSUME TypeOK, [Next]_vars PROVE AttendeeTypes'
<1> USE DEF TypeOK, AttendeeTypes, attendeeVars, refreshVars, reminderVars
<1>1. ASSUME NEW a \in Actors, ChangeEvent(a) PROVE AttendeeTypes'
  BY <1>1 DEF ChangeEvent, RefreshEventReminders, Holder
<1>2. ASSUME NEW u \in Users PROVE CancelSavedReminders(u) \in [Intents -> {"NONE", "PENDING", "DONE"}]
  BY DEF CancelSavedReminders
<1>3. ASSUME NEW u \in Users, NEW preferences \in Preferences, SaveEvent(u, preferences)
      PROVE  AttendeeTypes'
  <2>1. job' \in [Intents -> {"NONE", "PENDING", "DONE"}]
    <3>1. CASE PersistIntents(CancelSavedReminders(u), {u}, SavedKinds)
      BY <1>2, <3>1, PersistTypes
    <3>2. CASE PersistIntents(job, {u}, SavedKinds)
      BY <3>2, PersistTypes
    <3> QED
      BY <1>3, <3>1, <3>2 DEF SaveEvent
  <2> QED
    BY <1>3, <2>1 DEF SaveEvent
<1>4. ASSUME NEW u \in Users, RemoveSavedEvent(u) PROVE AttendeeTypes'
  BY <1>2, <1>4 DEF RemoveSavedEvent
<1>5. ASSUME NEW u \in Users, FulfilBooking(u) PROVE AttendeeTypes'
  BY <1>5, PersistTypes DEF FulfilBooking, SetBooking
<1>6. ASSUME NEW u \in Users, RequestRefund(u) \/ RejectRefund(u) \/ ApproveRefund(u) \/ CheckIn(u)
      PROVE  AttendeeTypes'
  BY <1>6 DEF RequestRefund, RejectRefund, ApproveRefund, CheckIn, SetBooking
<1>7. ASSUME NEW u \in Users, NEW k \in Kinds, SendEventReminder(u, k) PROVE AttendeeTypes'
  BY <1>7 DEF SendEventReminder, Intents
<1>8. ASSUME NEW rows \in SUBSET Users, NEW kinds, NEW next \in {"ORDERS", "DONE"},
             RefreshBatch(rows, kinds, next)
      PROVE  AttendeeTypes'
  BY <1>8, PersistTypes DEF RefreshBatch
<1>9. RefreshSaves \/ RefreshOrders => AttendeeTypes'
  BY <1>8 DEF RefreshSaves, RefreshOrders, NextRows
<1>10. BootstrapReminderJobs => AttendeeTypes'
  BY DEF BootstrapReminderJobs
<1>11. UNCHANGED vars \/ (OtherPlanning /\ UNCHANGED reminderVars) => AttendeeTypes'
  BY DEF vars
<1> HIDE DEF TypeOK, AttendeeTypes, attendeeVars, refreshVars, reminderVars
<1>12. ASSUME NEW u \in Users, AttendeeStep(u) PROVE AttendeeTypes'
  BY <1>3, <1>4, <1>5, <1>6, <1>12 DEF AttendeeStep
<1> QED
  BY <1>1, <1>7, <1>9, <1>10, <1>11, <1>12 DEF Next, Refresh

LEMMA StepTypeOK == TypeOK /\ [Next]_vars => TypeOK'
  BY StepPlanningTypes, StepAttendeeTypes DEF TypeOK, AttendeeTypes

-----------------------------------------------------------------------------
(* The event, its owner and its tiers.                                     *)

\* Tiers are created only for an event that is there.
NoTierBefore == event = "NONE" => Live = {}

LEMMA StepPlanningUnchanged ==
  ASSUME [Next]_vars
  PROVE  \/ \E a \in Actors : TierStep(a) \/ EventStep(a) \/ CancelEvent(a)
         \/ OtherPlanning
         \/ UNCHANGED planningVars
<1>1. ASSUME NEW u \in Users, AttendeeStep(u) \/ \E k \in Kinds : SendEventReminder(u, k)
      PROVE  UNCHANGED planningVars
  BY <1>1 DEF AttendeeStep, SaveEvent, RemoveSavedEvent, FulfilBooking, RequestRefund, RejectRefund,
              ApproveRefund, CheckIn, SetBooking, SendEventReminder
<1>2. Refresh \/ UNCHANGED vars => UNCHANGED planningVars
  BY DEF Refresh, RefreshSaves, RefreshOrders, RefreshBatch, BootstrapReminderJobs, vars
<1> QED
  BY <1>1, <1>2, ChangeRefreshes DEF Next

LEMMA StepOwners ==
  ASSUME PlanningTypeOK, OwnersKeepTheirEvents, [Next]_vars PROVE OwnersKeepTheirEvents'
<1> USE AdminAssumption DEF PlanningTypeOK, OwnersKeepTheirEvents, Unfinished
<1> USE DEF organizerVars, eventVars, planningVars
<1>1. ASSUME NEW o \in Organizers, ChangeUserRole(o) \/ ChangeUserStatus(o) \/ SoftDeleteUser(o)
      PROVE  OwnersKeepTheirEvents'
  BY <1>1 DEF ChangeUserRole, ChangeUserStatus, SoftDeleteUser, Releasable
<1>2. CreationStep => OwnersKeepTheirEvents'
  BY DEF CreationStep, RequestCreation, CreateEvent, CurrentOrganizer, Managing
<1>3. CompleteEvent \/ TimePasses => OwnersKeepTheirEvents'
  BY DEF CompleteEvent, TimePasses
<1>4. ASSUME NEW a \in Actors, TierStep(a) PROVE OwnersKeepTheirEvents'
  BY <1>4 DEF TierStep, CreateTicketTier, UpdateTicketTier, CloseSales, SoftDeleteTicketTier, SetTier
<1>5. ASSUME NEW a \in Actors, EventStep(a) \/ CancelEvent(a) PROVE OwnersKeepTheirEvents'
  BY <1>5 DEF EventStep, UpdateEvent, SoftDeleteEvent, PublishEvent, CancelEvent, SetStatus
<1>6. UNCHANGED planningVars => OwnersKeepTheirEvents'
  OBVIOUS
<1> QED
  BY <1>1, <1>2, <1>3, <1>4, <1>5, <1>6, StepPlanningUnchanged DEF OtherPlanning, AccountStep

LEMMA StepSales ==
  ASSUME PlanningTypeOK, SalesFitTheEvent, NoTierBefore, [Next]_vars
  PROVE  SalesFitTheEvent' /\ NoTierBefore'
<1> DEFINE Fits == SalesFitTheEvent /\ NoTierBefore
<1> USE StartsAssumption, NullAssumption DEF PlanningTypeOK, SalesFitTheEvent, NoTierBefore, Live
<1> USE DEF organizerVars, eventVars, planningVars
<1>1. AccountStep \/ TimePasses => Fits'
  BY DEF AccountStep, ChangeUserRole, ChangeUserStatus, SoftDeleteUser, TimePasses
<1>2. CreationStep => Fits'
  BY DEF CreationStep, RequestCreation, CreateEvent
<1>3. CompleteEvent => Fits'
  BY DEF CompleteEvent
<1>4. ASSUME NEW a \in Actors, NEW t \in Tiers, NEW w \in Windows, SalesWindow(w), SetTier(a, t, w),
             event # "NONE"
      PROVE  Fits'
  BY <1>4 DEF SetTier, SalesWindow
<1>5. ASSUME NEW a \in Actors, TierStep(a) PROVE Fits'
  <2>1. ASSUME NEW t \in Tiers, NEW w \in Windows, CreateTicketTier(a, t, w) \/ UpdateTicketTier(a, t, w)
        PROVE  Fits'
    BY <1>4, <2>1 DEF CreateTicketTier, UpdateTicketTier, Upcoming
  <2>2. ASSUME NEW t \in Tiers, CloseSales(a, t) PROVE Fits'
    <3>1. tier[t] \in Windows /\ clock \in 1 .. LastInstant
      BY <2>2 DEF CloseSales, Closable, Windows
    <3>2. [tier[t] EXCEPT !.to = clock] \in Windows
      BY <3>1 DEF Windows
    <3>3. SalesWindow([tier[t] EXCEPT !.to = clock])
      BY <2>2, <3>1 DEF CloseSales, Closable, SalesWindow, Windows
    <3> QED
      BY <1>4, <2>2, <3>2, <3>3 DEF CloseSales, Upcoming
  <2>3. ASSUME NEW t \in Tiers, SoftDeleteTicketTier(a, t) PROVE Fits'
    BY <2>3 DEF SoftDeleteTicketTier, SetTier
  <2> QED
    BY <1>5, <2>1, <2>2, <2>3 DEF TierStep
<1>6. ASSUME NEW a \in Actors, NEW s \in Starts, UpdateEvent(a, s) PROVE Fits'
  BY <1>6 DEF UpdateEvent, WindowsFit
<1>7. ASSUME NEW a \in Actors, SoftDeleteEvent(a) \/ PublishEvent(a) \/ CancelEvent(a) PROVE Fits'
  BY <1>7 DEF SoftDeleteEvent, PublishEvent, CancelEvent, SetStatus
<1>8. UNCHANGED planningVars => Fits'
  OBVIOUS
<1> QED
  BY <1>1, <1>2, <1>3, <1>5, <1>6, <1>7, <1>8, StepPlanningUnchanged DEF OtherPlanning, EventStep

-----------------------------------------------------------------------------
(* No reminder is forgotten.                                               *)

\* The cursor is at the start whenever no phase has begun.
CursorAtStart == refresh = "NONE" => behind = {}

\* The refresh of the event will still come to this row for this kind.
Ahead(u, k) ==
  \/ refresh = "NONE"
  \/ refresh = "SAVES" /\ (k \in SavedKinds => u \notin behind)
  \/ refresh = "ORDERS" /\ k \in BookingKinds /\ u \notin behind

LEMMA PersistCovers ==
  ASSUME NEW jobs, NEW users, NEW kinds, PersistIntents(jobs, users, kinds),
         NEW u \in Users, NEW k \in Kinds
  PROVE  /\ u \in users /\ k \in kinds /\ Planned(u, k)' => job'[<<u, k>>] # "NONE"
         /\ jobs[<<u, k>>] # "NONE" => job'[<<u, k>>] # "NONE"
  BY DEF PersistIntents, Intents

LEMMA KindsDisjoint == SavedKinds \cap BookingKinds = {} /\ Tiers \cap BookingKinds = {}
  BY KindsAssumption DEF SavedKinds, BookingKinds

\* Accounts, time and completion call for nothing new.
LEMMA OtherPlanningPlansNothing ==
  ASSUME TypeOK, OtherPlanning, UNCHANGED reminderVars, NEW u \in Users, NEW k \in Kinds, Planned(u, k)'
  PROVE  Planned(u, k)
<1> USE DEF Planned, Upcoming, Holder, Enabled, RunAt, Live, reminderVars, attendeeVars
<1>1. AccountStep => Planned(u, k)
  BY DEF AccountStep, ChangeUserRole, ChangeUserStatus, SoftDeleteUser, eventVars
<1>2. CreationStep => Planned(u, k)
  BY DEF CreationStep, RequestCreation, CreateEvent, eventVars
<1>3. ~CompleteEvent
  BY DEF CompleteEvent
<1>4. TimePasses => Planned(u, k)
  <2>1. ASSUME TimePasses PROVE RunAt(k) > clock
    <3>1. start \in Nat /\ clock \in Nat
      BY StartsAssumption DEF TypeOK, PlanningTypeOK
    <3>2. k \in Tiers => tier[k] \in Windows
      BY <2>1, KindsDisjoint DEF TypeOK, PlanningTypeOK, TimePasses
    <3>3. k \in Tiers => tier[k].from \in Nat
      BY <3>2, StartsAssumption DEF Windows
    <3>4. CASE k \in Tiers
      BY <2>1, <3>1, <3>3, <3>4 DEF TimePasses, eventVars
    <3>5. CASE k \notin Tiers
      BY <2>1, <3>1, <3>5, TimesAssumption DEF TimePasses, eventVars
    <3> QED
      BY <3>4, <3>5
  <2>2. ASSUME TimePasses PROVE start > clock
    <3>1. start \in Int /\ clock \in Int
      BY StartsAssumption DEF TypeOK, PlanningTypeOK
    <3> QED
      BY <2>2, <3>1 DEF TimePasses, eventVars
  <2> QED
    BY <2>1, <2>2 DEF TimePasses, eventVars
<1> QED
  BY <1>1, <1>2, <1>3, <1>4 DEF OtherPlanning

\* A batch that is not full takes all the rows that are left.
LEMMA LastRows ==
  ASSUME NEW candidates \in SUBSET Users, NEW rows \in NextRows(candidates), ~MoreRows(rows)
  PROVE  rows = candidates
<1>1. IsFiniteSet(candidates) /\ rows \in SUBSET candidates
  BY BatchAssumption, FS_Subset DEF NextRows
<1>2. Cardinality(rows) = Cardinality(candidates)
  BY DEF NextRows, MoreRows
<1> QED
  BY <1>1, <1>2, FS_Subset

Kept(u, k) == Planned(u, k) => job[<<u, k>>] # "NONE" \/ Ahead(u, k)

\* A step of one attendee.
LEMMA AttendeesKeep ==
  ASSUME NEW v \in Users, AttendeeStep(v), NEW u \in Users, NEW k \in Kinds, TypeOK, Kept(u, k)
  PROVE  Kept(u, k)'
<1> SUFFICES ASSUME Planned(u, k)' PROVE job'[<<u, k>>] # "NONE" \/ Ahead(u, k)'
  BY DEF Kept
<1> USE KindsDisjoint DEF Kept, Ahead, Planned, Upcoming, RunAt, Enabled, Live, Holder
<1> USE DEF planningVars, eventVars, refreshVars
<1>0. k \in SavedKinds \/ k \in BookingKinds
  BY DEF Kinds
<1>1. ASSUME NEW preferences \in Preferences, SaveEvent(v, preferences)
      PROVE  job'[<<u, k>>] # "NONE" \/ Ahead(u, k)'
  <2>1. PICK jobs : jobs \in {job, CancelSavedReminders(v)} /\ PersistIntents(jobs, {v}, SavedKinds)
    BY <1>1 DEF SaveEvent
  <2>2. CASE u = v /\ k \in SavedKinds
    BY <2>1, <2>2, PersistCovers
  <2>3. CASE ~(u = v /\ k \in SavedKinds)
    <3>1. Planned(u, k) /\ (Ahead(u, k) => Ahead(u, k)')
      BY <1>0, <1>1, <2>3 DEF SaveEvent, TypeOK
    <3>2. jobs[<<u, k>>] = job[<<u, k>>]
      BY <2>1, <2>3 DEF CancelSavedReminders, Intents
    <3> QED
      BY <2>1, <3>1, <3>2, PersistCovers
  <2> QED
    BY <2>2, <2>3
<1>2. CASE RemoveSavedEvent(v)
  <2>1. CASE u = v /\ k \in SavedKinds
    BY <1>2, <2>1 DEF RemoveSavedEvent, TypeOK
  <2>2. CASE ~(u = v /\ k \in SavedKinds)
    <3>1. Planned(u, k) /\ (Ahead(u, k) => Ahead(u, k)')
      BY <1>0, <1>2, <2>2 DEF RemoveSavedEvent, TypeOK
    <3>2. job'[<<u, k>>] = job[<<u, k>>]
      BY <1>2, <2>2 DEF RemoveSavedEvent, CancelSavedReminders, Intents
    <3> QED
      BY <3>1, <3>2
  <2> QED
    BY <2>1, <2>2
<1>3. CASE FulfilBooking(v)
  <2>1. CASE u = v /\ k \in BookingKinds
    BY <1>3, <2>1, PersistCovers DEF FulfilBooking
  <2>2. CASE ~(u = v /\ k \in BookingKinds)
    <3>1. Planned(u, k) /\ (Ahead(u, k) => Ahead(u, k)')
      BY <1>0, <1>3, <2>2 DEF FulfilBooking, SetBooking, TypeOK
    <3> QED
      BY <1>3, <3>1, PersistCovers DEF FulfilBooking
  <2> QED
    BY <2>1, <2>2
<1>4. CASE RequestRefund(v) \/ RejectRefund(v) \/ ApproveRefund(v) \/ CheckIn(v)
  <2>1. booking' = [booking EXCEPT ![v] = booking'[v]] /\ Holder(v) /\ UNCHANGED job
    BY <1>4 DEF RequestRefund, RejectRefund, ApproveRefund, CheckIn, SetBooking, TypeOK
  <2>2. UNCHANGED <<planningVars, saved, refreshVars>>
    BY <1>4 DEF RequestRefund, RejectRefund, ApproveRefund, CheckIn, SetBooking
  <2> QED
    BY <2>1, <2>2 DEF TypeOK
<1> QED
  BY <1>1, <1>2, <1>3, <1>4 DEF AttendeeStep

\* A batch of the refresh.
LEMMA BatchKeeps ==
  ASSUME NEW candidates \in SUBSET Users, NEW rows \in NextRows(candidates \ behind),
         NEW kinds \in {SavedKinds, BookingKinds}, NEW next \in {"ORDERS", "DONE"},
         refresh = IF kinds = SavedKinds THEN "SAVES" ELSE "ORDERS",
         next = IF kinds = SavedKinds THEN "ORDERS" ELSE "DONE",
         RefreshBatch(rows, kinds, next),
         NEW u \in Users, NEW k \in Kinds, TypeOK, Kept(u, k),
         k \in kinds /\ Planned(u, k) => u \in candidates
  PROVE  Kept(u, k)'
<1> SUFFICES ASSUME Planned(u, k)' PROVE job'[<<u, k>>] # "NONE" \/ Ahead(u, k)'
  BY DEF Kept
<1>0. k \in SavedKinds \/ k \in BookingKinds
  BY DEF Kinds
<1>1. Planned(u, k)
  BY DEF RefreshBatch, planningVars, eventVars, attendeeVars, Planned, Upcoming, RunAt, Enabled, Live, Holder
<1>2. job[<<u, k>>] # "NONE" \/ (u \in rows /\ k \in kinds) => job'[<<u, k>>] # "NONE"
  BY PersistCovers DEF RefreshBatch
<1>3. SavedKinds # BookingKinds
  BY KindsDisjoint DEF SavedKinds, BookingKinds
<1>4. CASE MoreRows(rows)
  BY <1>0, <1>1, <1>2, <1>3, <1>4, KindsDisjoint DEF Kept, Ahead, RefreshBatch
<1>5. CASE ~MoreRows(rows)
  <2>1. rows = candidates \ behind
    BY <1>5, LastRows
  <2> QED
    BY <1>0, <1>1, <1>2, <1>3, <1>5, <2>1, KindsDisjoint DEF Kept, Ahead, RefreshBatch
<1> QED
  BY <1>4, <1>5

LEMMA StepNothingForgotten ==
  ASSUME TypeOK, CursorAtStart, NothingForgotten, [Next]_vars PROVE NothingForgotten'
<1> SUFFICES ASSUME NEW u \in Users, NEW k \in Kinds PROVE Kept(u, k)'
  BY DEF NothingForgotten, Kept, Ahead
<1>0. Kept(u, k)
  BY DEF NothingForgotten, Kept, Ahead
<1>1. ASSUME NEW a \in Actors, ChangeEvent(a) PROVE Kept(u, k)'
  BY <1>1 DEF ChangeEvent, RefreshEventReminders, Kept, Planned, Ahead
<1>2. OtherPlanning /\ UNCHANGED reminderVars => Kept(u, k)'
  BY <1>0, OtherPlanningPlansNothing DEF reminderVars, refreshVars, Kept, Ahead
<1>3. ASSUME NEW v \in Users, AttendeeStep(v) PROVE Kept(u, k)'
  BY <1>0, <1>3, AttendeesKeep
<1>4. ASSUME NEW v \in Users, NEW i \in Kinds, SendEventReminder(v, i) PROVE Kept(u, k)'
  <2>1. Planned(u, k)' => Planned(u, k)
    BY <1>4 DEF SendEventReminder, planningVars, eventVars, attendeeVars, Planned, Upcoming, RunAt, Enabled,
                Live, Holder
  <2>2. job[<<u, k>>] # "NONE" => job'[<<u, k>>] # "NONE"
    BY <1>4 DEF SendEventReminder, TypeOK, Intents
  <2>3. Ahead(u, k) => Ahead(u, k)'
    BY <1>4 DEF SendEventReminder, refreshVars, Ahead
  <2> QED
    BY <1>0, <2>1, <2>2, <2>3 DEF Kept
<1>5. CASE RefreshSaves
  <2> DEFINE candidates == {v \in Users : saved[v] # NotSaved}
  <2>1. PICK rows \in NextRows(candidates \ behind) : RefreshBatch(rows, SavedKinds, "ORDERS")
    BY <1>5 DEF RefreshSaves
  <2>2. k \in SavedKinds /\ Planned(u, k) => u \in candidates
    BY KindsDisjoint DEF Planned, Enabled
  <2> QED
    BY <1>0, <1>5, <2>1, <2>2, BatchKeeps DEF RefreshSaves
<1>6. CASE RefreshOrders
  <2> DEFINE candidates == {v \in Users : Holder(v)}
  <2>1. PICK rows \in NextRows(candidates \ behind) : RefreshBatch(rows, BookingKinds, "DONE")
    BY <1>6 DEF RefreshOrders
  <2>2. k \in BookingKinds /\ Planned(u, k) => u \in candidates
    BY DEF Planned
  <2>3. SavedKinds # BookingKinds
    BY KindsDisjoint DEF SavedKinds, BookingKinds
  <2> QED
    BY <1>0, <1>6, <2>1, <2>2, <2>3, BatchKeeps DEF RefreshOrders
<1>7. CASE BootstrapReminderJobs
  BY <1>7 DEF BootstrapReminderJobs, CursorAtStart, Kept, Ahead
<1>8. CASE UNCHANGED vars
  BY <1>0, <1>8 DEF vars, reminderVars, attendeeVars, refreshVars, planningVars, eventVars,
                    Kept, Planned, Ahead, Upcoming, RunAt, Enabled, Live, Holder
<1> QED
  BY <1>1, <1>2, <1>3, <1>4, <1>5, <1>6, <1>7, <1>8 DEF Next, Refresh

LEMMA StepCursor == ASSUME TypeOK, CursorAtStart, [Next]_vars PROVE CursorAtStart'
<1> USE DEF CursorAtStart, refreshVars
<1>1. ASSUME NEW a \in Actors, ChangeEvent(a) PROVE CursorAtStart'
  BY <1>1 DEF ChangeEvent, RefreshEventReminders
<1>2. ASSUME NEW v \in Users, AttendeeStep(v) PROVE UNCHANGED refreshVars
  BY <1>2 DEF AttendeeStep, SaveEvent, RemoveSavedEvent, FulfilBooking, RequestRefund, RejectRefund,
              ApproveRefund, CheckIn, SetBooking
<1>3. ASSUME NEW v \in Users, NEW i \in Kinds, SendEventReminder(v, i) PROVE UNCHANGED refreshVars
  BY <1>3 DEF SendEventReminder
<1>4. RefreshSaves \/ RefreshOrders \/ BootstrapReminderJobs => CursorAtStart'
  BY DEF RefreshSaves, RefreshOrders, RefreshBatch, BootstrapReminderJobs
<1>5. UNCHANGED vars \/ UNCHANGED reminderVars => UNCHANGED refreshVars
  BY DEF vars, reminderVars
<1> QED
  BY <1>1, <1>2, <1>3, <1>4, <1>5 DEF Next, Refresh

-----------------------------------------------------------------------------
(* One reminder a day before.                                              *)

\* No ticket that was issued is valid any more; it stays so.
Spent(u) == booking[u] \in {"USED", "VOIDED"}

\* The reminder of the save is written when that of a booking can no longer be
\* planned: a published event keeps its dates.
OneDay(u) ==
  /\ \A k \in BookingKinds : job[<<u, k>>] # "NONE" => booking[u] # "NONE"
  /\ <<u, "BOOKING_24H">> \in written => booking[u] # "NONE"
  /\ <<u, "SAVED_EVENT">> \in written =>
       /\ event \notin {"NONE", "DRAFT"} /\ start - Day <= clock
       /\ Spent(u) \/ job[<<u, "BOOKING_24H">>] = "NONE"
  /\ {<<u, "SAVED_EVENT">>, <<u, "BOOKING_24H">>} \subseteq written => Spent(u)

LEMMA DatesStay ==
  ASSUME TypeOK, [Next]_vars, event \notin {"NONE", "DRAFT"}
  PROVE  event' \notin {"NONE", "DRAFT"} /\ start' = start /\ clock <= clock'
<1> USE DEF planningVars, eventVars
<1>0. clock \in Int
  BY StartsAssumption DEF TypeOK, PlanningTypeOK
<1>1. ASSUME NEW a \in Actors, TierStep(a) PROVE UNCHANGED <<clock, eventVars>>
  BY <1>1 DEF TierStep, CreateTicketTier, UpdateTicketTier, CloseSales, SoftDeleteTicketTier, SetTier
<1>2. ASSUME NEW a \in Actors, EventStep(a) \/ CancelEvent(a)
      PROVE  clock' = clock /\ start' = start /\ event' \in {event, "CANCELLED"}
  BY <1>2 DEF EventStep, UpdateEvent, SoftDeleteEvent, PublishEvent, CancelEvent, SetStatus
<1>3. AccountStep \/ CreationStep => UNCHANGED <<clock, eventVars>>
  BY DEF AccountStep, CreationStep, ChangeUserRole, ChangeUserStatus, SoftDeleteUser,
         RequestCreation, CreateEvent
<1>4. CompleteEvent => UNCHANGED <<clock, start>> /\ event' = "COMPLETED"
  BY DEF CompleteEvent
<1>5. TimePasses => UNCHANGED eventVars /\ clock' = clock + 1
  BY DEF TimePasses
<1> QED
  BY <1>0, <1>1, <1>2, <1>3, <1>4, <1>5, StepPlanningUnchanged DEF OtherPlanning

LEMMA BookingStays ==
  ASSUME TypeOK, [Next]_vars, NEW u \in Users
  PROVE  /\ booking[u] # "NONE" => booking'[u] # "NONE"
         /\ Spent(u) => Spent(u)'
<1> USE DEF TypeOK, attendeeVars, reminderVars
<1>1. ASSUME NEW a \in Actors, ChangeEvent(a)
      PROVE  booking'[u] \in {booking[u], IF booking[u] = "NONE" THEN "NONE" ELSE "VOIDED"}
  BY <1>1 DEF ChangeEvent
<1>2. ASSUME NEW v \in Users, SendEventReminder(v, "SAVED_EVENT") \/ AttendeeStep(v)
      PROVE  /\ booking[u] # "NONE" => booking'[u] # "NONE"
             /\ Spent(u) => Spent(u)'
  BY <1>2 DEF SendEventReminder, AttendeeStep, SaveEvent, RemoveSavedEvent, FulfilBooking,
              RequestRefund, RejectRefund, ApproveRefund, CheckIn, SetBooking, Spent
<1>3. ASSUME NEW v \in Users, NEW k \in Kinds, SendEventReminder(v, k) PROVE UNCHANGED booking
  BY <1>3 DEF SendEventReminder
<1>4. Refresh \/ UNCHANGED reminderVars \/ UNCHANGED vars => UNCHANGED booking
  BY DEF Refresh, RefreshSaves, RefreshOrders, RefreshBatch, BootstrapReminderJobs, vars
<1> HIDE DEF TypeOK, attendeeVars, reminderVars
<1> QED
  BY <1>1, <1>2, <1>3, <1>4 DEF Next, Spent

LEMMA JobsArePlanned ==
  ASSUME TypeOK, [Next]_vars, NEW u \in Users, NEW k \in BookingKinds,
         job[<<u, k>>] = "NONE", job'[<<u, k>>] # "NONE"
  PROVE  Planned(u, k)'
<1>0. <<u, k>> \in Intents /\ k \notin SavedKinds
  BY KindsDisjoint DEF Intents, Kinds
<1>1. ASSUME NEW jobs, NEW users, NEW kinds, PersistIntents(jobs, users, kinds), jobs[<<u, k>>] = "NONE"
      PROVE  Planned(u, k)'
  BY <1>0, <1>1 DEF PersistIntents
<1>2. ASSUME NEW a \in Actors, ChangeEvent(a) PROVE FALSE
  BY <1>0, <1>2 DEF ChangeEvent, RefreshEventReminders
<1>3. ASSUME NEW v \in Users PROVE CancelSavedReminders(v)[<<u, k>>] = "NONE"
  BY <1>0 DEF CancelSavedReminders
<1>4. ASSUME NEW v \in Users, AttendeeStep(v) PROVE Planned(u, k)'
  <2>1. ASSUME NEW preferences \in Preferences, SaveEvent(v, preferences) PROVE Planned(u, k)'
    <3>1. PICK jobs : jobs \in {job, CancelSavedReminders(v)} /\ PersistIntents(jobs, {v}, SavedKinds)
      BY <2>1 DEF SaveEvent
    <3> QED
      BY <1>1, <1>3, <3>1
  <2>2. ~RemoveSavedEvent(v)
    BY <1>3 DEF RemoveSavedEvent
  <2>3. FulfilBooking(v) => Planned(u, k)'
    BY <1>1 DEF FulfilBooking
  <2>4. ~(RequestRefund(v) \/ RejectRefund(v) \/ ApproveRefund(v) \/ CheckIn(v))
    BY DEF RequestRefund, RejectRefund, ApproveRefund, CheckIn
  <2> QED
    BY <1>4, <2>1, <2>2, <2>3, <2>4 DEF AttendeeStep
<1>5. ASSUME NEW v \in Users, NEW i \in Kinds, SendEventReminder(v, i) PROVE FALSE
  BY <1>5 DEF SendEventReminder, TypeOK
<1>6. RefreshSaves \/ RefreshOrders => Planned(u, k)'
  BY <1>1 DEF RefreshSaves, RefreshOrders, RefreshBatch
<1>7. ~(BootstrapReminderJobs \/ UNCHANGED reminderVars \/ UNCHANGED vars)
  BY DEF BootstrapReminderJobs, reminderVars, vars
<1> QED
  BY <1>2, <1>4, <1>5, <1>6, <1>7 DEF Next, Refresh

\* What a step writes is the reminder whose job it runs.
LEMMA WrittenByJobs ==
  ASSUME TypeOK, [Next]_vars
  PROVE  \/ written' = written
         \/ \E v \in Users, i \in Kinds :
              /\ job[<<v, i>>] = "PENDING" /\ StillRelevant(v, i)
              /\ written' = written \cup {<<v, i>>}
              /\ job' = [job EXCEPT ![<<v, i>>] = "DONE"]
              /\ UNCHANGED <<planningVars, booking>>
<1>1. ASSUME NEW a \in Actors, ChangeEvent(a) PROVE written' = written
  BY <1>1 DEF ChangeEvent, RefreshEventReminders
<1>2. ASSUME NEW v \in Users, AttendeeStep(v) PROVE written' = written
  BY <1>2 DEF AttendeeStep, SaveEvent, RemoveSavedEvent, FulfilBooking, RequestRefund, RejectRefund,
              ApproveRefund, CheckIn, SetBooking
<1>3. Refresh \/ UNCHANGED reminderVars \/ UNCHANGED vars => written' = written
  BY DEF Refresh, RefreshSaves, RefreshOrders, RefreshBatch, BootstrapReminderJobs, reminderVars, vars
<1> QED
  BY <1>1, <1>2, <1>3 DEF Next, SendEventReminder, attendeeVars

LEMMA StepOneDay == ASSUME TypeOK, NEW u \in Users, OneDay(u), [Next]_vars PROVE OneDay(u)'
<1> USE DEF OneDay
<1>0. TypeOK'
  BY StepTypeOK
<1>a. /\ clock \in Int /\ start \in Int /\ Day \in Int
      /\ clock' \in Int /\ start' \in Int
  BY <1>0, StartsAssumption, TimesAssumption DEF TypeOK, PlanningTypeOK
<1>1. ~Planned(u, "BOOKING_24H")' \/ <<u, "SAVED_EVENT">> \notin written
  <2>1. RunAt("BOOKING_24H")' = start' - Day
    BY KindsAssumption DEF RunAt, BookingKinds
  <2> QED
    BY <1>a, <2>1, DatesStay DEF Planned
<1>2. \A k \in BookingKinds : job'[<<u, k>>] # "NONE" => booking'[u] # "NONE"
  <2>1. ASSUME NEW k \in BookingKinds, Planned(u, k)' PROVE booking'[u] # "NONE"
    BY <2>1 DEF Planned, Holder
  <2> QED
    BY <2>1, BookingStays, JobsArePlanned
<1>3. "BOOKING_24H" \in BookingKinds
  BY DEF BookingKinds
<1>4. CASE written' = written
  <2>1. <<u, "SAVED_EVENT">> \in written =>
          /\ event' \notin {"NONE", "DRAFT"} /\ start' - Day <= clock'
          /\ Spent(u)' \/ job'[<<u, "BOOKING_24H">>] = "NONE"
    <3> SUFFICES ASSUME <<u, "SAVED_EVENT">> \in written
        PROVE  /\ event' \notin {"NONE", "DRAFT"} /\ start' - Day <= clock'
               /\ Spent(u)' \/ job'[<<u, "BOOKING_24H">>] = "NONE"
      OBVIOUS
    <3>1. event' \notin {"NONE", "DRAFT"} /\ start' = start /\ clock <= clock'
      BY DatesStay
    <3>2. start' - Day <= clock'
      BY <1>a, <3>1
    <3>3. Spent(u)' \/ job'[<<u, "BOOKING_24H">>] = "NONE"
      BY <1>1, <1>3, BookingStays, JobsArePlanned
    <3> QED
      BY <3>1, <3>2, <3>3
  <2> QED
    BY <1>2, <1>4, <2>1, BookingStays
<1>5. CASE written' # written
  <2>1. PICK v \in Users, i \in Kinds :
          /\ job[<<v, i>>] = "PENDING" /\ StillRelevant(v, i)
          /\ written' = written \cup {<<v, i>>}
          /\ job' = [job EXCEPT ![<<v, i>>] = "DONE"]
          /\ UNCHANGED <<planningVars, booking>>
    BY <1>5, WrittenByJobs
  <2>2. UNCHANGED <<clock, start, event>> /\ Spent(u)' = Spent(u)
    BY <2>1 DEF planningVars, eventVars, Spent
  <2>3. job[<<u, "BOOKING_24H">>] = "NONE" => job'[<<u, "BOOKING_24H">>] = "NONE"
    BY <2>1 DEF TypeOK
  <2>4. CASE v = u /\ i = "SAVED_EVENT"
    <3>1. Upcoming /\ ~Holder(u) /\ start - Day <= clock
      BY <2>1, <2>4, KindsAssumption DEF StillRelevant, Suppressed, RunAt, BookingKinds
    <3>2. booking[u] = "NONE" \/ Spent(u)
      BY <3>1 DEF Holder, Spent, TypeOK
    <3>3. booking[u] = "NONE" => job[<<u, "BOOKING_24H">>] = "NONE"
      BY <1>3
    <3> QED
      BY <1>2, <2>1, <2>2, <2>3, <2>4, <3>1, <3>2, <3>3 DEF Upcoming
  <2>5. CASE v = u /\ i = "BOOKING_24H"
    <3>1. booking[u] = "PAID" /\ ~Spent(u)
      BY <2>1, <2>5, <1>3 DEF StillRelevant, Spent
    <3> QED
      BY <1>2, <2>1, <2>2, <2>3, <2>5, <3>1
  <2>6. CASE v # u \/ i \notin {"SAVED_EVENT", "BOOKING_24H"}
    BY <1>2, <2>1, <2>2, <2>3, <2>6
  <2> QED
    BY <2>4, <2>5, <2>6
<1> QED
  BY <1>4, <1>5

-----------------------------------------------------------------------------
(* The invariant, and the properties that follow.                          *)

IInv ==
  /\ TypeOK /\ OwnersKeepTheirEvents /\ SalesFitTheEvent /\ NoTierBefore
  /\ CursorAtStart /\ NothingForgotten
  /\ \A u \in Users : OneDay(u)

LEMMA InitIInv == Init => IInv
<1> SUFFICES ASSUME Init PROVE IInv
  OBVIOUS
<1> USE DEF Init
<1>1. TypeOK
  <2>1. PlanningTypeOK
    <3>1. start \in Starts /\ 1 \in 1 .. LastInstant /\ 0 \in 0 .. LastInstant
      BY StartsAssumption DEF PlanningInit
    <3>2. \A s \in Starts : [from |-> 1, to |-> s, paused |-> FALSE] \in Windows
      BY <3>1, StartsAssumption DEF Windows
    <3>3. tier \in [Tiers -> Windows \cup {NoTier}]
      BY <3>2 DEF PlanningInit
    <3> QED
      BY <3>1, <3>3 DEF PlanningInit, PlanningTypeOK, Actors, EventStatus
  <2>2. AttendeeTypes
    BY DEF AttendeeTypes, Intents
  <2> QED
    BY <2>1, <2>2 DEF TypeOK, AttendeeTypes
<1>2. OwnersKeepTheirEvents
  BY AdminAssumption DEF PlanningInit, OwnersKeepTheirEvents, Unfinished
<1>3. SalesFitTheEvent /\ NoTierBefore
  <2>1. CASE event = "NONE"
    BY <2>1 DEF PlanningInit, SalesFitTheEvent, NoTierBefore, Live
  <2>2. CASE event = "PUBLISHED"
    <3>1. /\ tier \in [Tiers -> {[from |-> 1, to |-> s, paused |-> FALSE] : s \in Starts}]
          /\ Tiers # {} /\ \A t \in Tiers : 1 < tier[t].to /\ tier[t].to <= start
      BY <2>2 DEF PlanningInit
    <3>2. ASSUME NEW t \in Tiers PROVE tier[t].from = 1 /\ tier[t] \in Windows
      <4>1. PICK s \in Starts : tier[t] = [from |-> 1, to |-> s, paused |-> FALSE]
        BY <3>1
      <4>2. 1 \in 1 .. LastInstant /\ s \in 1 .. LastInstant
        BY StartsAssumption
      <4> QED
        BY <4>1, <4>2 DEF Windows
    <3>3. Live = Tiers
      BY <3>2, NullAssumption DEF Live
    <3> QED
      BY <2>2, <3>1, <3>2, <3>3 DEF SalesFitTheEvent, NoTierBefore
  <2> QED
    BY <2>1, <2>2 DEF PlanningInit
<1>4. CursorAtStart /\ NothingForgotten
  BY DEF CursorAtStart, NothingForgotten
<1>5. ASSUME NEW u \in Users PROVE OneDay(u)
  BY DEF OneDay, Intents, Kinds
<1> QED
  BY <1>1, <1>2, <1>3, <1>4, <1>5 DEF IInv

LEMMA StepIInv == IInv /\ [Next]_vars => IInv'
<1> SUFFICES ASSUME IInv, [Next]_vars PROVE IInv'
  OBVIOUS
<1>1. TypeOK' /\ OwnersKeepTheirEvents' /\ SalesFitTheEvent' /\ NoTierBefore'
  BY StepTypeOK, StepOwners, StepSales DEF IInv, TypeOK
<1>2. CursorAtStart' /\ NothingForgotten'
  BY StepCursor, StepNothingForgotten DEF IInv
<1>3. \A u \in Users : OneDay(u)'
  BY StepOneDay DEF IInv
<1> QED
  BY <1>1, <1>2, <1>3 DEF IInv

\* However planning, attendees and the refresh interleave, IInv holds.
THEOREM RemindersInvariant == Spec => []IInv
  BY InitIInv, StepIInv, PTL DEF Spec

\* Every variable keeps its type.
THEOREM ReminderTypes == Spec => []TypeOK
  BY RemindersInvariant, PTL DEF IInv

\* The guards of changeUserRole, softDeleteUser and createEvent keep a draft or a
\* published event with an account that may manage it.
THEOREM OwnersKeepEvents == Spec => []OwnersKeepTheirEvents
  BY RemindersInvariant, PTL DEF IInv

\* The checks of events.service and ticket-tiers.service, each of one side only,
\* keep the windows of all tiers before the start of the event.
THEOREM SalesAlwaysFit == Spec => []SalesFitTheEvent
  BY RemindersInvariant, PTL DEF IInv

\* refreshReminderBatch and the transactions of saves and payments between them
\* leave no planned reminder without a job, whatever the size of a batch.
THEOREM NoReminderForgotten == Spec => []NothingForgotten
  BY RemindersInvariant, PTL DEF IInv

\* reminderStillRelevant never lets both reminders of a ticket holder through.
THEOREM OneReminderADay == Spec => []OneDayReminder
<1>1. IInv => OneDayReminder
  BY DEF IInv, OneDay, OneDayReminder, Spent, Holder
<1> QED
  BY <1>1, RemindersInvariant, PTL
=============================================================================
