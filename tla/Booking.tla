------------------------------ MODULE Booking ------------------------------
(***************************************************************************)
(* The ticketing core: the services composed over the rows of one event,   *)
(* with attendees, the organizer, administrators, the payment gateway and  *)
(* the maintenance worker taking steps in any order.                       *)
(***************************************************************************)
EXTENDS OrdersService, PaymentsService, RefundsService, EventsService

Init ==
  /\ order = [o \in Orders |-> "NONE"]
  /\ age = [o \in Orders |-> "fresh"]
  /\ released = [o \in Orders |-> FALSE]
  /\ fulfilledBy = [o \in Orders |-> NoAttempt]
  /\ reserved = 0 /\ sold = 0 /\ capacity = InitCapacity
  /\ onSale \in BOOLEAN
  /\ attempt = [a \in Attempts |-> "NONE"]
  /\ replayOf = [a \in Attempts |-> NoAttempt]
  /\ ticket = [t \in Tickets |-> "NONE"]
  /\ refund = [r \in Refunds |-> "NONE"]
  /\ uncertain = {} /\ referenced = {} /\ initiating = {}
  /\ requests = [a \in Attempts |-> 0]
  /\ eventStatus = "PUBLISHED" /\ cancelJob = "none" /\ listed = {}
  /\ clock = DayBefore
  /\ gateway = [a \in Attempts |-> "idle"]
  /\ declined = {}
  /\ bankTran = [a \in Attempts |-> NoAttempt]

OrderStep ==
  \/ \E o \in Orders : CreateOrder(o)
  \/ \E o \in Orders : CancelOrder(o)
  \/ \E o \in Orders : ExpireOrder(o)
  \/ \E o \in Orders : ReleaseForCancellation(o)
  \/ \E n \in InitCapacity .. MaxCapacity : RaiseCapacity(n)
  \/ SwitchSales
  \/ \E o \in Orders : Lapse(o)
  \/ AdvanceClock

PaymentStep ==
  \/ \E o \in Orders, n \in 1 .. MaxAttempts : PrepareCheckout(o, n)
  \/ \E a \in Attempts : CheckoutReady(a)
  \/ \E a \in Attempts : CheckoutRejected(a)
  \/ \E a \in Attempts : PaymentUnresolved(a)
  \/ \E a \in Attempts : ReconcileFailed(a)
  \/ \E a \in Attempts : GatewayDecline(a)
  \/ \E a, b \in Attempts : GatewayCapture(a, b)
  \/ \E a \in Attempts : Fulfil(a[1], a)

RefundStep ==
  \/ \E o \in Orders : RequestRefund(o)
  \/ \E r \in Refunds : ApproveRefund(r)
  \/ \E r \in Refunds : RejectRefund(r)
  \/ \E r \in Refunds : RetryRefund(r)
  \/ \E r \in Refunds : ClaimRefund(r)
  \/ \E r \in Refunds : RefundAccepted(r)
  \/ \E r \in Refunds : RefundRejected(r)
  \/ \E r \in Refunds : RefundUnclear(r)
  \/ \E r \in Refunds : ReferenceMissing(r)
  \/ \E r \in Refunds : ConfirmedFailed(r)
  \/ \E r \in Refunds : StatusUnresolved(r)
  \/ \E r \in Refunds : ConfirmedRefunded(r)

EventStep ==
  \/ CancelEvent
  \/ CompleteEvent
  \/ ListPendingCaptures
  \/ \E o \in Orders : DispatchRefund(o)
  \/ AbandonRun
  \/ FinishCancellation
  \/ \E t \in Tickets : CheckIn(t)

Next == OrderStep \/ PaymentStep \/ RefundStep \/ EventStep

Spec == Init /\ [][Next]_vars

-----------------------------------------------------------------------------
(* Safety.                                                                 *)

Units(os) == UNION {TicketsOf(o) : o \in os}
HoldsReserved == {o \in Orders : order[o] = "PENDING_PAYMENT" /\ ~released[o]}
HoldsSold == {o \in Orders : order[o] = "PAID"}

\* The tier's counters always equal the tickets of the orders that hold them,
\* and never exceed the capacity: no path through cancel, expire, late payment
\* or refund gives a reservation or a sale back twice or not at all.
InventoryAccounting ==
  /\ reserved = Cardinality(Units(HoldsReserved))
  /\ sold = Cardinality(Units(HoldsSold))
  /\ reserved + sold <= capacity

\* Captured money is never unaccounted for: every settled attempt fulfilled its
\* order, replays a settled capture, or has a refund that was not turned down.
CaptureSettled ==
  \A a \in Attempts : attempt[a] = "SUCCEEDED" =>
    \/ replayOf[a] # NoAttempt /\ Captured(replayOf[a])
    \/ fulfilledBy[a[1]] = a
    \/ \E r \in RefundsOf(a) : refund[r] \notin {"NONE", "REJECTED"}

\* A purchase stands on one capture of its own: an order is paid or refunded
\* exactly when a capture of that order, made at the gateway with a bank
\* transaction no other settled capture has, fulfilled it and issued its tickets.
PurchaseBacked ==
  /\ \A o \in Orders :
       /\ order[o] \in {"PAID", "REFUNDED"} <=> fulfilledBy[o] # NoAttempt
       /\ fulfilledBy[o] # NoAttempt =>
            /\ fulfilledBy[o][1] = o
            /\ Captured(fulfilledBy[o])
       /\ \A t \in TicketsOf(o) : ticket[t] # "NONE" <=> fulfilledBy[o] # NoAttempt
  /\ \A a, b \in Attempts :
       Captured(a) /\ Captured(b) /\ bankTran[a] = bankTran[b] => a = b
  /\ \A a \in Attempts : Captured(a) => gateway[a] = "captured"

\* Nobody is inside on a ticket whose purchase is refunded, being refunded or
\* requested to be.
InsideExclusive ==
  \A t \in Tickets : ticket[t] = "CHECKED_IN" =>
    /\ order[t[1]] = "PAID"
    /\ \A r \in RefundsOf(fulfilledBy[t[1]]) : refund[r] \in {"NONE", "REJECTED"}

\* "Approval blocks ticket use immediately" (docs/business-rules.md): from the
\* approval of a purchase's refund on, through its failures and retries, no
\* ticket of it admits anyone.
ApprovalBlocksEntry ==
  \A o \in Orders :
    fulfilledBy[o] # NoAttempt
      /\ (\E r \in RefundsOf(fulfilledBy[o]) : refund[r] \notin {"NONE", "REQUESTED", "REJECTED"})
      => \A t \in TicketsOf(o) : ticket[t] \in {"VOIDED", "REFUNDED"}

Unreturned(o) ==
  /\ order[o] = "PAID" /\ eventStatus # "CANCELLED"
  /\ \A r \in RefundsOf(fulfilledBy[o]) : refund[r] \in {"NONE", "REQUESTED", "REJECTED"}

\* Tickets are only given up for money: while a purchase is not being refunded,
\* its tickets stay valid or used, unless the event is cancelled as a whole.
\* Rejected requests and refunds of late, duplicate or excess captures of the
\* same order void nothing.
TicketsKept ==
  \A o \in Orders : Unreturned(o) => \A t \in TicketsOf(o) : ticket[t] \in {"ACTIVE", "CHECKED_IN"}

\* A refund request, its approval, a cancellation and a scan exclude each other.
AdmissionExclusive == InsideExclusive /\ ApprovalBlocksEntry

\* Of one capture's refunds at most one is, or may be, at the provider.
OneRefundAtProvider ==
  \A a \in Attempts : \A q, r \in RefundsOf(a) :
    refund[q] \in InFlight \cup {"SUCCEEDED"} /\ refund[r] \in InFlight \cup {"SUCCEEDED"}
      => q = r

\* An order is refunded, with all of its tickets, exactly when the provider has
\* confirmed the refund of the capture that fulfilled it; refunds of late,
\* duplicate or excess captures never touch it.
RefundFollowsProvider ==
  \A o \in Orders :
    /\ order[o] = "REFUNDED" <=>
         fulfilledBy[o] # NoAttempt /\ \E r \in RefundsOf(fulfilledBy[o]) : refund[r] = "SUCCEEDED"
    /\ \A t \in TicketsOf(o) : ticket[t] = "REFUNDED" <=> order[o] = "REFUNDED"

\* When the cancellation job has succeeded nothing is left behind: no pending
\* order holds stock, every paid order has a dispatched refund, and no ticket of
\* the event admits anyone.
CancellationComplete ==
  cancelJob = "done" =>
    /\ HoldsReserved = {}
    /\ \A o \in HoldsSold : \E r \in RefundsOf(fulfilledBy[o]) :
         refund[r] \in (LiveRefund \ {"REQUESTED"}) \cup {"FAILED"}
    /\ \A t \in Tickets : ticket[t] \notin {"ACTIVE", "CHECKED_IN"}

\* The invariants of the paid part assume at most one attempt in progress.
OneActiveAttempt ==
  \A a, b \in Attempts :
    a[1] = b[1] /\ attempt[a] \in ActiveAttempt /\ attempt[b] \in ActiveAttempt => a = b

-----------------------------------------------------------------------------
(* The lifecycles docs/business-rules.md gives.  The code departs from both. *)

\* "PENDING_PAYMENT -> PAID, EXPIRED, or CANCELLED; paid orders may become
\* REFUNDED": but a capture verified late may still pay an expired order.
OrderLifecycle ==
  [][\A o \in Orders : order'[o] # order[o] =>
       <<order[o], order'[o]>> \in {<<"NONE", "PENDING_PAYMENT">>, <<"PAID", "REFUNDED">>}
         \cup {"PENDING_PAYMENT"} \X {"PAID", "EXPIRED", "CANCELLED"}]_order

\* "ACTIVE -> CHECKED_IN or VOIDED; active or voided tickets may become
\* REFUNDED": but cancelling an event whose doors are open voids used tickets.
TicketLifecycle ==
  [][\A t \in Tickets : ticket'[t] # ticket[t] =>
       <<ticket[t], ticket'[t]>> \in {<<"NONE", "ACTIVE">>, <<"VOIDED", "REFUNDED">>}
         \cup {"ACTIVE"} \X {"CHECKED_IN", "VOIDED", "REFUNDED"}]_ticket

-----------------------------------------------------------------------------
(* What holds instead, and other rules of the same document.               *)

OrderTransitions ==
  {<<"NONE", "PENDING_PAYMENT">>, <<"EXPIRED", "PAID">>, <<"PAID", "REFUNDED">>}
    \cup {"PENDING_PAYMENT"} \X {"PAID", "EXPIRED", "CANCELLED"}
TicketTransitions ==
  {<<"NONE", "ACTIVE">>, <<"ACTIVE", "CHECKED_IN">>, <<"VOIDED", "REFUNDED">>}
    \cup {"ACTIVE", "CHECKED_IN"} \X {"VOIDED"}
RefundTransitions ==
  {"NONE", "REJECTED"} \X {"REQUESTED", "APPROVED"}
    \cup {"REQUESTED"} \X {"APPROVED", "REJECTED"}
    \cup {<<"APPROVED", "PROCESSING">>} \cup {"FAILED"} \X {"APPROVED", "PROCESSING"}
    \cup InFlight \X (InFlight \cup {"FAILED", "SUCCEEDED"})

\* The orders' lifecycle: an expired order may be paid late, and nothing else
\* leaves EXPIRED, CANCELLED or REFUNDED.
OrderMoves ==
  [][\A o \in Orders : order'[o] # order[o] => <<order[o], order'[o]>> \in OrderTransitions]_order

\* The tickets' lifecycle: a used ticket may be voided, only a voided ticket is
\* ever refunded, and none is valid again once it was used or voided.
TicketMoves ==
  [][\A t \in Tickets : ticket'[t] # ticket[t] => <<ticket[t], ticket'[t]>> \in TicketTransitions]_ticket

\* The refunds' lifecycle: what may be at the provider is not decided on again
\* before it has failed, and a refund that was paid stays paid.
RefundMovesOn ==
  [][\A r \in Refunds : refund'[r] # refund[r] => <<refund[r], refund'[r]>> \in RefundTransitions]_refund

\* The conditional updates that take units from a counter never fall short: a
\* pending order can always be released, a paid one always be refunded.
CountersCover ==
  \A o \in Orders :
    /\ order[o] = "PENDING_PAYMENT" /\ ~released[o] => reserved >= Qty[o]
    /\ order[o] = "PAID" => sold >= Qty[o]

-----------------------------------------------------------------------------
(* The stock as an abstract inventory: orders' states stand for holds.     *)

HoldOf(o) ==
  CASE order[o] = "NONE" -> "none"
    [] order[o] = "PENDING_PAYMENT" -> "reserved"
    [] order[o] = "PAID" -> "sold"
    [] order[o] = "EXPIRED" -> "expired"
    [] order[o] \in {"CANCELLED", "REFUNDED"} -> "returned"

Stock == INSTANCE Inventory WITH hold <- [o \in Orders |-> HoldOf(o)]

\* The conditional counter updates of all services together implement the
\* abstract inventory: each step takes, sells or gives back the units of one order.
ImplementsInventory == Stock!Spec

-----------------------------------------------------------------------------
(* The money as an abstract ledger: rows stand for what became of payments. *)

Returned(a) == \E reason \in RefundReason : refund[<<a, reason>>] = "SUCCEEDED"
Repaying == {"APPROVED", "FAILED", "PROCESSING", "UNKNOWN"}
Owed(a) == \E reason \in RefundReason : refund[<<a, reason>>] \in Repaying

MoneyOf(a) ==
  IF attempt[a] # "SUCCEEDED" THEN "unsettled"
  ELSE IF replayOf[a] # NoAttempt THEN "copied"
  ELSE IF Returned(a) THEN "returned"
  ELSE IF Owed(a) THEN "owed"
  ELSE "kept"
TransactionOf(a) == IF attempt[a] = "SUCCEEDED" THEN bankTran[a] ELSE NoAttempt
AtProvider == InFlight \cup {"SUCCEEDED"}
SentOf(a) == {reason \in RefundReason : refund[<<a, reason>>] \in AtProvider}

Money == INSTANCE Ledger WITH
  Reasons <- RefundReason, NoPayment <- NoAttempt,
  money <- [a \in Attempts |-> MoneyOf(a)],
  transaction <- [a \in Attempts |-> TransactionOf(a)],
  boughtBy <- fulfilledBy,
  sent <- [a \in Attempts |-> SentOf(a)],
  inside <- {t \in Tickets : ticket[t] = "CHECKED_IN"}

\* Payments, callbacks, refunds, cancellation and the door together implement the
\* abstract ledger: each step moves the money of one payment as it allows.
ImplementsLedger == Money!Spec

-----------------------------------------------------------------------------
(* Liveness.  Time passes, the maintenance worker keeps running its jobs,  *)
(* and gateway lookups are answered in the end; attendees, organizers and  *)
(* administrators may stop at any moment and every callback may be lost.   *)

ReconcileCaptured(a) == attempt[a] \in ActiveAttempt /\ Fulfil(a[1], a)

Fairness ==
  /\ \A o \in Orders :
       /\ WF_vars(Lapse(o)) /\ WF_vars(ExpireOrder(o)) /\ WF_vars(ReleaseForCancellation(o))
       /\ SF_vars(DispatchRefund(o))
  /\ WF_vars(ListPendingCaptures) /\ WF_vars(FinishCancellation)
  /\ \A a \in Attempts : WF_vars(ReconcileCaptured(a))

FairSpec == Spec /\ Fairness

\* No order waits for its payment forever.
PendingEnds == \A o \in Orders : order[o] = "PENDING_PAYMENT" ~> order[o] # "PENDING_PAYMENT"

\* The cancellation job gets through, whatever runs it loses on the way.
CancellationSettles == cancelJob = "due" ~> cancelJob = "done"

\* With every callback lost, reconciliation still records each captured payment,
\* unless the provider once reported that attempt as failed.
CaptureRecorded ==
  \A a \in Attempts :
    gateway[a] = "captured" /\ a \notin declined ~> attempt[a] = "SUCCEEDED"
=============================================================================
