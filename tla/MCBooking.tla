----------------------------- MODULE MCBooking -----------------------------
(* Instances of Booking small enough for TLC. *)
EXTENDS Booking

CONSTANTS o1, o2

OneTicketEach == [o \in Orders |-> 1]
OneAndTwo == [o \in Orders |-> IF o = o1 THEN 1 ELSE 2]

\* Bounds of the stock run: refunds go straight through (no attendee requests,
\* no failures, no lost answers), and declined payments, admission and the
\* time after the start are left to the capture run.
BeforeTheStart ==
  /\ uncertain = {} /\ declined = {}
  /\ \A r \in Refunds : refund[r] \notin {"UNKNOWN", "FAILED"}
  /\ \A a \in Attempts : requests[a] = 0 /\ gateway[a] # "rejected"
  /\ \A t \in Tickets : ticket[t] # "CHECKED_IN"
  /\ clock < DoorsOpen

\* Bounds of the capture run: at most one attempt is ever reported as failed,
\* and at most one refund at a time has failed or waits for a lost answer.
OneInTrouble ==
  /\ Cardinality(declined) <= 1
  /\ Cardinality(uncertain \cup {r \in Refunds : refund[r] \in {"UNKNOWN", "FAILED"}}) <= 1
=============================================================================
