---------------------------- MODULE EventPlanning ----------------------------
(***************************************************************************)
(* The life of one event: an organizer plans it and its ticket tiers,      *)
(* publishes it and changes what may still be changed, while                *)
(* administrators promote, demote, suspend and delete accounts.  Each      *)
(* operation is one serializable transaction; Reminders composes them.     *)
(***************************************************************************)
EXTENDS Integers, FiniteSets

CONSTANTS
  Organizers,  \* accounts that may become organizers
  Admin,       \* any administrator
  Tiers,
  Starts,      \* instants at which events start
  LastInstant, \* bound: of time
  NoTier

ASSUME StartsAssumption == LastInstant \in Nat /\ Starts \subseteq 1 .. LastInstant
ASSUME AdminAssumption == Admin \notin Organizers

VARIABLES
  clock,
  role, account, \* of the organizers
  admitted,      \* those whose request to create the event has passed authorize
  owner, event, start, \* organizerId, status and startAt of the event
  tier           \* the undeleted tiers

organizerVars == <<role, account, admitted>>
eventVars == <<owner, event, start>>
planningVars == <<clock, organizerVars, eventVars, tier>>

Actors == Organizers \cup {Admin}
EventStatus == {"NONE", "DRAFT", "PUBLISHED", "CANCELLED", "COMPLETED", "DELETED"}
Windows == [from : 1 .. LastInstant, to : 1 .. LastInstant, paused : BOOLEAN]

ASSUME NullAssumption == NoTier \notin Windows

PlanningTypeOK ==
  /\ clock \in 0 .. LastInstant
  /\ role \in [Organizers -> {"ATTENDEE", "ORGANIZER"}]
  /\ account \in [Organizers -> {"ACTIVE", "SUSPENDED", "DELETED"}]
  /\ admitted \subseteq Actors
  /\ owner \in Actors /\ event \in EventStatus /\ start \in Starts
  /\ tier \in [Tiers -> Windows \cup {NoTier}]

Live == {t \in Tiers : tier[t] # NoTier}
Upcoming == event = "PUBLISHED" /\ start > clock
Unfinished(o) == owner = o /\ event \in {"DRAFT", "PUBLISHED"}
Managing(a) == a \in Organizers => account[a] = "ACTIVE" /\ role[a] = "ORGANIZER"

\* Nothing is planned yet, or an earlier release has published the event.
PlanningInit ==
  /\ clock = 0
  /\ role \in [Organizers -> {"ATTENDEE", "ORGANIZER"}]
  /\ account = [o \in Organizers |-> "ACTIVE"]
  /\ admitted = {}
  /\ start \in Starts
  /\ \/ event = "NONE" /\ owner = Admin /\ tier = [t \in Tiers |-> NoTier]
     \/ /\ event = "PUBLISHED"
        /\ owner \in {Admin} \cup {o \in Organizers : role[o] = "ORGANIZER"}
        /\ tier \in [Tiers -> {[from |-> 1, to |-> s, paused |-> FALSE] : s \in Starts}]
        /\ Tiers # {} /\ \A t \in Tiers : 1 < tier[t].to /\ tier[t].to <= start

-----------------------------------------------------------------------------
(* users.service.                                                          *)

Releasable(o) == role[o] = "ORGANIZER" => ~Unfinished(o)

ChangeUserRole(o) ==
  /\ account[o] # "DELETED"
  /\ Releasable(o)
  /\ role' = [role EXCEPT ![o] = IF @ = "ORGANIZER" THEN "ATTENDEE" ELSE "ORGANIZER"]
  /\ UNCHANGED <<clock, account, admitted, eventVars, tier>>

ChangeUserStatus(o) ==
  /\ account[o] # "DELETED"
  /\ account' = [account EXCEPT ![o] = IF @ = "ACTIVE" THEN "SUSPENDED" ELSE "ACTIVE"]
  /\ UNCHANGED <<clock, role, admitted, eventVars, tier>>

SoftDeleteUser(o) ==
  /\ account[o] # "DELETED"
  /\ Releasable(o)
  /\ account' = [account EXCEPT ![o] = "DELETED"]
  /\ UNCHANGED <<clock, role, admitted, eventVars, tier>>

-----------------------------------------------------------------------------
(* events.service.                                                         *)

\* authenticate and authorize let a request through.
RequestCreation(a) ==
  /\ event = "NONE" /\ a \notin admitted
  /\ Managing(a)
  /\ admitted' = admitted \cup {a}
  /\ UNCHANGED <<clock, role, account, eventVars, tier>>

CurrentOrganizer_Admitted(a) == TRUE                      \* mutant: the role is not read again
\* currentOrganizer, in the transaction.
CurrentOrganizer(a) == Managing(a)

\* The transaction of createEvent.
CreateEvent(a, s) ==
  /\ event = "NONE" /\ a \in admitted
  /\ admitted' = {}
  /\ IF CurrentOrganizer(a) /\ s > clock
       THEN event' = "DRAFT" /\ owner' = a /\ start' = s
       ELSE UNCHANGED eventVars
  /\ UNCHANGED <<clock, role, account, tier>>

\* currentOrganizer and findOwnedEvent, read again in every transaction.
MayManage(a) == CurrentOrganizer(a) /\ a \in {owner, Admin}

WindowsFit_Unchecked(s) == TRUE                           \* mutant: saved tiers are not looked at
WindowsFit(s) == \A t \in Live : tier[t].to <= s

\* The other fields have no part here; a published event keeps its dates.
UpdateEvent(a, s) ==
  /\ MayManage(a)
  /\ \/ event = "DRAFT" /\ s > clock /\ WindowsFit(s)
     \/ event = "PUBLISHED" /\ s = start
  /\ start' = s
  /\ UNCHANGED <<clock, organizerVars, owner, event, tier>>

SetStatus(a, new) ==
  /\ MayManage(a)
  /\ event' = new
  /\ UNCHANGED <<clock, organizerVars, owner, start, tier>>

SoftDeleteEvent(a) == event = "DRAFT" /\ SetStatus(a, "DELETED")

\* publicationReadiness.
Eligible(t) ==
  LET w == tier[t]
  IN ~w.paused /\ w.from < w.to /\ w.to > clock /\ w.to <= start

PublishEvent(a) ==
  /\ event = "DRAFT" /\ start > clock
  /\ \E t \in Live : Eligible(t)
  /\ SetStatus(a, "PUBLISHED")

CancelEvent(a) ==
  /\ event \in {"DRAFT", "PUBLISHED"} /\ start > clock
  /\ SetStatus(a, "CANCELLED")

\* completeEvent, once the event has ended, an instant after its start.
CompleteEvent ==
  /\ event = "PUBLISHED" /\ clock > start
  /\ event' = "COMPLETED"
  /\ UNCHANGED <<clock, organizerVars, owner, start, tier>>

-----------------------------------------------------------------------------
(* ticket-tiers.service.                                                   *)

\* assertSalesWindow.
SalesWindow(w) == w.from < w.to /\ w.to <= start

SetTier(a, t, w) ==
  /\ MayManage(a)
  /\ tier' = [tier EXCEPT ![t] = w]
  /\ UNCHANGED <<clock, organizerVars, eventVars>>

CreateTicketTier(a, t, w) ==
  /\ event = "DRAFT" /\ tier[t] = NoTier
  /\ w.from > clock /\ SalesWindow(w)
  /\ SetTier(a, t, w)

\* Changes of the window, pauses, and fields that have no part here.
UpdateTicketTier(a, t, w) ==
  /\ t \in Live
  /\ event = "DRAFT" \/ Upcoming
  /\ w.from # tier[t].from => event = "DRAFT" /\ w.from > clock
  /\ w.to # tier[t].to /\ event = "PUBLISHED" => w.to > clock
  /\ tier[t].paused /\ ~w.paused => w.to > clock
  /\ SalesWindow(w)
  /\ SetTier(a, t, w)

Closable_Unopened(t) == ~tier[t].paused /\ clock < tier[t].to  \* mutant: sales need not be open
Closable(t) == ~tier[t].paused /\ tier[t].from < clock /\ clock < tier[t].to

\* updateTicketTier with closeSales.
CloseSales(a, t) ==
  /\ t \in Live /\ Upcoming /\ Closable(t)
  /\ SetTier(a, t, [tier[t] EXCEPT !.to = clock])

SoftDeleteTicketTier(a, t) ==
  /\ t \in Live /\ event = "DRAFT"
  /\ SetTier(a, t, NoTier)

-----------------------------------------------------------------------------

AccountStep ==
  \E o \in Organizers : ChangeUserRole(o) \/ ChangeUserStatus(o) \/ SoftDeleteUser(o)

CreationStep ==
  \E a \in Actors : RequestCreation(a) \/ \E s \in Starts : CreateEvent(a, s)

TimePasses ==
  /\ clock < LastInstant
  /\ clock' = clock + 1
  /\ UNCHANGED <<organizerVars, eventVars, tier>>

\* Transactions that call refreshEventReminders.
TierStep(a) ==
  \E t \in Tiers :
    \/ \E w \in Windows : CreateTicketTier(a, t, w) \/ UpdateTicketTier(a, t, w)
    \/ CloseSales(a, t) \/ SoftDeleteTicketTier(a, t)

EventStep(a) ==
  \/ \E s \in Starts : UpdateEvent(a, s)
  \/ SoftDeleteEvent(a) \/ PublishEvent(a)
=============================================================================
