--------------------------- MODULE EventsService ---------------------------
(***************************************************************************)
(* Cancelling and completing the event, the cancellation job that settles  *)
(* its orders, and admission at the door.                                  *)
(***************************************************************************)
EXTENDS Ticketing

CancelEvent ==
  /\ eventStatus = "PUBLISHED" /\ Upcoming
  /\ eventStatus' = "CANCELLED"
  /\ cancelJob' = "due"
  /\ MoveTickets(Orders, {"ACTIVE", "CHECKED_IN"}, "VOIDED")
  /\ UNCHANGED <<orderVars, tierVars, paymentVars, refundVars, listed, clock, gatewayVars>>

CompleteEvent ==
  /\ eventStatus = "PUBLISHED" /\ clock = Ended
  /\ eventStatus' = "COMPLETED"
  /\ UNCHANGED <<orderVars, tierVars, paymentVars, ticket, refundVars, cancelJob, listed, clock,
                 gatewayVars>>

\* mutant: a refund request counts as dispatched
PendingCaptures_Unrequested ==
  {o \in Orders :
     /\ order[o] = "PAID" /\ fulfilledBy[o] # NoAttempt
     /\ \A r \in RefundsOf(fulfilledBy[o]) : refund[r] \in {"NONE", "REJECTED"}}
\* mutant: the job waits until the provider has paid everything back
PendingCaptures_Unsettled ==
  {o \in Orders :
     /\ order[o] = "PAID" /\ fulfilledBy[o] # NoAttempt
     /\ \A r \in RefundsOf(fulfilledBy[o]) : refund[r] # "SUCCEEDED"}
\* Paid orders of the event whose capture no refund has been dispatched for.
PendingCaptures ==
  {o \in Orders :
     /\ order[o] = "PAID" /\ fulfilledBy[o] # NoAttempt
     /\ \A r \in RefundsOf(fulfilledBy[o]) : refund[r] \in {"NONE", "REQUESTED", "REJECTED"}}

\* A run of the job reads its batch, outside the transactions that act on it.
ListPendingCaptures ==
  /\ cancelJob = "due"
  /\ listed' = listed \cup PendingCaptures
  /\ UNCHANGED <<orderVars, tierVars, paymentVars, ticket, refundVars, eventStatus, cancelJob,
                 clock, gatewayVars>>

\* The order stays listed if a second run, left over from an expired lease, read it too.
DispatchRefund(o) ==
  /\ o \in listed
  /\ order[o] = "PAID" /\ fulfilledBy[o] # NoAttempt
  /\ Captured(fulfilledBy[o])
  /\ EnsureCaptureRefund(o, fulfilledBy[o], "EVENT_CANCELLATION")
  /\ listed' \in {listed, listed \ {o}}
  /\ UNCHANGED <<orderVars, tierVars, paymentVars, eventStatus, cancelJob, clock, gatewayVars>>

\* A run stops early, or skips orders that are no longer paid.
AbandonRun ==
  /\ listed # {}
  /\ listed' = {}
  /\ UNCHANGED <<orderVars, tierVars, paymentVars, ticket, refundVars, eventStatus, cancelJob,
                 clock, gatewayVars>>

FinishCancellation ==
  /\ cancelJob = "due"
  /\ \A o \in Orders : ~(order[o] = "PENDING_PAYMENT" /\ ~released[o])
  /\ PendingCaptures = {}
  /\ cancelJob' = "done"
  /\ UNCHANGED <<orderVars, tierVars, paymentVars, ticket, refundVars, eventStatus, listed, clock,
                 gatewayVars>>

CheckIn(t) ==
  /\ CheckInOpen
  /\ Admissible(t)
  /\ ticket' = [ticket EXCEPT ![t] = "CHECKED_IN"]
  /\ UNCHANGED <<orderVars, tierVars, paymentVars, refundVars, eventVars, gatewayVars>>
=============================================================================
