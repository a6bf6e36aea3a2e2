----------------------------- MODULE Ticketing -----------------------------
(***************************************************************************)
(* The database rows of one published event with one ticket tier, and the  *)
(* domain rules that every service reads them through.  The rows are what  *)
(* prisma/schema.prisma declares: the tier's counters, the orders with     *)
(* their payment attempts, tickets and refunds, the event and its          *)
(* cancellation job.  Every mutation in the code is one SERIALIZABLE       *)
(* transaction over these rows, so every mutation is one action of the     *)
(* modules that extend this one; the payment gateway, which no transaction *)
(* covers, has variables and actions of its own.                           *)
(***************************************************************************)
EXTENDS Integers, FiniteSets

CONSTANTS
  Orders,       \* the orders attendees may place
  Qty,          \* tickets asked for by each order
  MaxAttempts,  \* bound: payment attempts per order
  InitCapacity, \* the tier's capacity when the event is published
  MaxCapacity,  \* bound: the capacity an organizer may raise it to
  MaxRequests,  \* how often one capture's attendee refund may be requested
  NoAttempt     \* null, for references to a payment attempt

Attempts == Orders \X (1 .. MaxAttempts)
TicketsOf(o) == {o} \X (1 .. Qty[o])
Tickets == UNION {TicketsOf(o) : o \in Orders}

ASSUME OrdersAssumption == IsFiniteSet(Orders)
ASSUME QtyAssumption == Qty \in [Orders -> Nat \ {0}]
ASSUME AttemptsAssumption == MaxAttempts \in Nat \ {0}
ASSUME CapacityAssumption ==
  InitCapacity \in Nat /\ MaxCapacity \in Nat /\ InitCapacity <= MaxCapacity
ASSUME RequestsAssumption == MaxRequests \in Nat \ {0}
ASSUME NoAttemptAssumption == NoAttempt \notin Attempts

OrderStatus == {"NONE", "PENDING_PAYMENT", "PAID", "EXPIRED", "CANCELLED", "REFUNDED"}
PaymentStatus == {"NONE", "INITIATING", "PENDING", "UNKNOWN", "SUCCEEDED", "FAILED"}
TicketStatus == {"NONE", "ACTIVE", "CHECKED_IN", "VOIDED", "REFUNDED"}
RefundStatus == {"NONE", "REQUESTED", "APPROVED", "REJECTED", "PROCESSING", "UNKNOWN",
                 "SUCCEEDED", "FAILED"}
RefundReason == {"ATTENDEE_REQUEST", "EVENT_CANCELLATION", "DUPLICATE_PAYMENT", "LATE_PAYMENT"}

\* A refund row is identified by its unique (capture, reason) pair.
Refunds == Attempts \X RefundReason

\* The wall clock, as far as the rules look at it: a day or more before the
\* start, under a day before it, check-in open, started, ended.
DayBefore == 0
LastDay == 1
DoorsOpen == 2
Started == 3
Ended == 4

VARIABLES
  order,       \* status of each order
  age,         \* its 15-minute reservation: taken in this clock phase, carried over, lapsed
  released,    \* reservationReleasedAt is set
  fulfilledBy, \* fulfilledPaymentAttemptId
  reserved, sold, capacity, \* the tier's counters
  onSale,      \* the tier is not paused and inside its sales window
  attempt,     \* status of each payment attempt
  replayOf,    \* replayOfAttemptId
  ticket,      \* status of each ticket
  refund,      \* status of each refund
  uncertain,   \* refunds with needsInvestigation
  referenced,  \* refunds with a providerRefundId
  initiating,  \* refunds whose latest claim still waits for the provider's first answer
  requests,    \* requestCount of each capture's attendee refund
  eventStatus, \* status of the event
  cancelJob,   \* the event's PROCESS_EVENT_CANCELLATION job
  listed,      \* paid orders a cancellation run has read and not yet handled
  clock,       \* phase of the wall clock
  gateway,     \* what the payment provider holds for each attempt
  declined,    \* attempts the provider has reported as failed at some time
  bankTran     \* the bank transaction a capture was made with, named by its first attempt

orderVars == <<order, age, released, fulfilledBy>>
tierVars == <<reserved, sold, capacity, onSale>>
paymentVars == <<attempt, replayOf>>
refundVars == <<refund, uncertain, referenced, initiating, requests>>
eventVars == <<eventStatus, cancelJob, listed, clock>>
gatewayVars == <<gateway, declined, bankTran>>
vars == <<orderVars, tierVars, paymentVars, ticket, refundVars, eventVars, gatewayVars>>

TypeOK ==
  /\ order \in [Orders -> OrderStatus]
  /\ age \in [Orders -> {"fresh", "carried", "lapsed"}]
  /\ released \in [Orders -> BOOLEAN]
  /\ fulfilledBy \in [Orders -> Attempts \cup {NoAttempt}]
  /\ reserved \in Nat /\ sold \in Nat /\ capacity \in InitCapacity .. MaxCapacity
  /\ onSale \in BOOLEAN
  /\ attempt \in [Attempts -> PaymentStatus]
  /\ replayOf \in [Attempts -> Attempts \cup {NoAttempt}]
  /\ ticket \in [Tickets -> TicketStatus]
  /\ refund \in [Refunds -> RefundStatus]
  /\ uncertain \subseteq Refunds /\ referenced \subseteq Refunds /\ initiating \subseteq Refunds
  /\ requests \in [Attempts -> 0 .. MaxRequests]
  /\ eventStatus \in {"PUBLISHED", "CANCELLED", "COMPLETED"}
  /\ cancelJob \in {"none", "due", "done"}
  /\ listed \subseteq Orders
  /\ clock \in DayBefore .. Ended
  /\ gateway \in [Attempts -> {"idle", "rejected", "captured"}]
  /\ declined \subseteq Attempts
  /\ bankTran \in [Attempts -> Attempts \cup {NoAttempt}]

-----------------------------------------------------------------------------
(* Domain rules.                                                           *)

Attempt(o) == {o} \X (1 .. MaxAttempts)
ActiveAttempt_Known == {"INITIATING", "PENDING"}          \* mutant: lost answers are over
ActiveAttempt == {"INITIATING", "PENDING", "UNKNOWN"}

Upcoming == clock < Started
CheckInOpen == eventStatus = "PUBLISHED" /\ clock \in {DoorsOpen, Started}

\* A verified capture: settled, and not a replay of another attempt's capture.
Captured(a) == attempt[a] = "SUCCEEDED" /\ replayOf[a] = NoAttempt

LiveRefund == {"REQUESTED", "APPROVED", "PROCESSING", "UNKNOWN", "SUCCEEDED"}
RefundsOf(a) == {a} \X RefundReason
Live(r) == refund[r] \in LiveRefund
Contested_Never(rs) == FALSE                              \* mutant
\* One of the refunds rs owns, or may own, its capture.
Contested(rs) == \E r \in rs : Live(r) \/ r \in uncertain
\* The partial unique index Refund_one_live_capture lets r be live and certain.
LiveIndexAdmits(r) == \A q \in RefundsOf(r[1]) \ {r} : ~Live(q) \/ q \in uncertain

RefundEligible(o) ==
  /\ order[o] = "PAID"
  /\ fulfilledBy[o] # NoAttempt
  /\ eventStatus = "PUBLISHED"
  /\ clock = DayBefore
  /\ \A t \in TicketsOf(o) : ticket[t] = "ACTIVE"

\* mutant: admission looks at the ticket and its order only
Admissible_AnyRefund(t) == ticket[t] = "ACTIVE" /\ order[t[1]] = "PAID"
\* A ticket that would be let in at the door.
Admissible(t) ==
  LET a == fulfilledBy[t[1]] IN
  /\ ticket[t] = "ACTIVE" /\ order[t[1]] = "PAID"
  /\ a # NoAttempt /\ Captured(a)
  /\ \A r \in RefundsOf(a) : refund[r] \in {"NONE", "REJECTED"} /\ r \notin uncertain

\* ticket.updateMany over one order: the tickets in a status of "from" become "to".
MoveTickets(orders, from, to) ==
  ticket' = [t \in Tickets |-> IF t[1] \in orders /\ ticket[t] \in from THEN to ELSE ticket[t]]

VoidsTickets_AnyCapture(o, a, reason) == TRUE             \* mutant
VoidsTickets(o, a, reason) == reason = "EVENT_CANCELLATION" /\ fulfilledBy[o] = a

\* ensureCaptureRefund: inside the caller's transaction, on a verified capture.
EnsureCaptureRefund(o, a, reason) ==
  LET r == <<a, reason>>
      live == {q \in RefundsOf(a) : Live(q)}
      asked == {q \in live : reason = "EVENT_CANCELLATION" /\ refund[q] = "REQUESTED"}
      stopped == live = {} /\ refund[r] = "FAILED"
      approve == IF live = {} /\ ~stopped THEN {r} ELSE asked
  IN /\ RefundsOf(a) \cap uncertain = {}
     /\ refund' = [q \in Refunds |-> IF q \in approve THEN "APPROVED" ELSE refund[q]]
     /\ IF VoidsTickets(o, a, reason) /\ ~stopped
        THEN MoveTickets({o}, {"ACTIVE", "CHECKED_IN"}, "VOIDED")
        ELSE UNCHANGED ticket
     /\ UNCHANGED <<uncertain, referenced, initiating, requests>>
=============================================================================
