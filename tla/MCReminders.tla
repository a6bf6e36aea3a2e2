---------------------------- MODULE MCReminders ----------------------------
(* An instance of Reminders small enough for TLC. *)
EXTENDS Reminders

CONSTANTS o1, t1, u1, u2

Attended == \E u \in Users : saved[u] # NotSaved \/ booking[u] # "NONE"

\* Bounds of the run.  It ends with the event, or goes on only without attendees;
\* administrators manage events, but create none while an organizer may, and leave
\* accounts alone while somebody attends; one attendee does everything, the other
\* saves the event.
EndsWithEvent == event \in {"NONE", "DRAFT"} \/ Upcoming \/ ~Attended
OrganizersCreate == owner = Admin => event = "NONE"
OneBooks == booking[u2] = "NONE" /\ saved[u2] \in {NotSaved, {"EVENT"}}
QuietAccounts == Attended => \A o \in Organizers : account[o] = "ACTIVE"
Bounds == EndsWithEvent /\ OrganizersCreate /\ OneBooks /\ QuietAccounts
=============================================================================
