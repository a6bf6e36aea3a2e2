--------------------------- MODULE OrdersService ---------------------------
(***************************************************************************)
(* Placing, cancelling and expiring orders, the organizer's edits of the   *)
(* published tier, and the clock the reservation and sales windows run on. *)
(***************************************************************************)
EXTENDS Ticketing

\* mutant: pending reservations are not counted
CanReserve_SoldOnly(o) ==
  eventStatus = "PUBLISHED" /\ Upcoming /\ onSale /\ sold + Qty[o] <= capacity
\* UPDATE "TicketTier" ... WHERE reserved + sold + quantity <= capacity, on sale.
CanReserve(o) ==
  /\ eventStatus = "PUBLISHED" /\ Upcoming /\ onSale
  /\ reserved + sold + Qty[o] <= capacity

CreateOrder(o) ==
  /\ order[o] = "NONE"
  /\ CanReserve(o)
  /\ reserved' = reserved + Qty[o]
  /\ order' = [order EXCEPT ![o] = "PENDING_PAYMENT"]
  /\ UNCHANGED <<age, released, fulfilledBy, sold, capacity, onSale, paymentVars, ticket,
                 refundVars, eventVars, gatewayVars>>

\* The conditional update shared by cancellation, expiry and event cancellation:
\* it moves an unreleased pending order on and gives its units back, once.
ReleaseAs(o, status) ==
  /\ order[o] = "PENDING_PAYMENT" /\ ~released[o]
  /\ reserved >= Qty[o]
  /\ order' = [order EXCEPT ![o] = status]
  /\ released' = [released EXCEPT ![o] = TRUE]
  /\ reserved' = reserved - Qty[o]
  /\ UNCHANGED <<age, fulfilledBy, sold, capacity, onSale, paymentVars, ticket, refundVars,
                 eventVars, gatewayVars>>

CancelOrder(o) == ReleaseAs(o, "CANCELLED")

\* mutant: an order is kept while a payment of it is in progress
ExpireOrder_Unattempted(o) ==
  /\ age[o] = "lapsed" /\ \A a \in Attempt(o) : attempt[a] \notin ActiveAttempt
  /\ ReleaseAs(o, "EXPIRED")
\* The EXPIRE_ORDER_RESERVATION job, scheduled once the reservation has lapsed.
ExpireOrder(o) == age[o] = "lapsed" /\ ReleaseAs(o, "EXPIRED")

\* The PROCESS_EVENT_CANCELLATION job releases what is still pending.
ReleaseForCancellation(o) ==
  /\ eventStatus = "CANCELLED" /\ cancelJob = "due"
  /\ ReleaseAs(o, "CANCELLED")

\* updateTicketTier on a published event: capacity may only grow ...
CanEditTier == eventStatus = "PUBLISHED" /\ Upcoming

RaiseCapacity(n) ==
  /\ CanEditTier
  /\ n > capacity
  /\ capacity' = n
  /\ UNCHANGED <<orderVars, reserved, sold, onSale, paymentVars, ticket, refundVars,
                 eventVars, gatewayVars>>

\* ... and sales stop (paused, closed, or salesEndAt passes) and resume
\* (resumed, salesEndAt moved on, or salesStartAt reached).
SwitchSales ==
  /\ CanEditTier
  /\ onSale' = ~onSale
  /\ UNCHANGED <<orderVars, reserved, sold, capacity, paymentVars, ticket, refundVars,
                 eventVars, gatewayVars>>

\* Fifteen minutes pass for a reservation.
Lapse(o) ==
  /\ order[o] = "PENDING_PAYMENT" /\ age[o] # "lapsed"
  /\ age' = [age EXCEPT ![o] = "lapsed"]
  /\ UNCHANGED <<order, released, fulfilledBy, tierVars, paymentVars, ticket, refundVars,
                 eventVars, gatewayVars>>

\* The phases up to the start are hours apart, so a reservation never survives
\* two of them; an event may end within minutes.  Sales end by the start.
AdvanceClock ==
  /\ clock < Ended
  /\ clock' = clock + 1
  /\ onSale' = (onSale /\ clock' < Started)
  /\ age' = IF clock = Started THEN age
            ELSE [o \in Orders |->
                    IF order[o] = "NONE" THEN "fresh"
                    ELSE IF age[o] = "fresh" THEN "carried" ELSE "lapsed"]
  /\ UNCHANGED <<order, released, fulfilledBy, reserved, sold, capacity, paymentVars, ticket,
                 refundVars, eventStatus, cancelJob, listed, gatewayVars>>
=============================================================================
