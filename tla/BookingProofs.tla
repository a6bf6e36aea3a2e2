--------------------------- MODULE BookingProofs ---------------------------
(***************************************************************************)
(* Proofs about Booking for every number of orders, quantities, attempts   *)
(* and capacities: its variables keep their types, the tier's counters     *)
(* always equal the tickets of the orders that hold them, sales stay open, *)
(* and the services together implement the abstract inventory.             *)
(***************************************************************************)
EXTENDS Booking, FiniteSetTheorems, TLAPS

-----------------------------------------------------------------------------
(* Type correctness, one lemma per service.                                *)

LEMMA AttemptType ==
  ASSUME NEW a \in Attempts
  PROVE  a[1] \in Orders
BY DEF Attempts

LEMMA RefundType ==
  ASSUME NEW r \in Refunds
  PROVE  r[1] \in Attempts /\ r[1][1] \in Orders
BY AttemptType DEF Refunds

LEMMA QtyType ==
  ASSUME NEW o \in Orders
  PROVE  Qty[o] \in Nat /\ Qty[o] > 0
BY QtyAssumption

LEMMA InitType == Init => TypeOK
BY CapacityAssumption, RequestsAssumption
DEF Init, TypeOK, OrderStatus, PaymentStatus, TicketStatus, RefundStatus, DayBefore, Ended

LEMMA OrderStepType == TypeOK /\ OrderStep => TypeOK'
<1> SUFFICES ASSUME TypeOK, OrderStep
             PROVE  TypeOK'
  OBVIOUS
<1> USE QtyType DEF TypeOK, OrderStatus, paymentVars, refundVars, eventVars, gatewayVars, orderVars, tierVars
<1>1. ASSUME NEW o \in Orders, CreateOrder(o)
      PROVE  TypeOK'
  BY <1>1 DEF CreateOrder, CanReserve
<1>2. ASSUME NEW o \in Orders, NEW s \in OrderStatus, ReleaseAs(o, s)
      PROVE  TypeOK'
  BY <1>2 DEF ReleaseAs
<1>3. ASSUME NEW o \in Orders, CancelOrder(o)
      PROVE  TypeOK'
  BY <1>2, <1>3 DEF CancelOrder
<1>4. ASSUME NEW o \in Orders, ExpireOrder(o)
      PROVE  TypeOK'
  BY <1>2, <1>4 DEF ExpireOrder
<1>5. ASSUME NEW o \in Orders, ReleaseForCancellation(o)
      PROVE  TypeOK'
  BY <1>2, <1>5 DEF ReleaseForCancellation
<1>6. ASSUME NEW n \in InitCapacity .. MaxCapacity, RaiseCapacity(n)
      PROVE  TypeOK'
  BY <1>6 DEF RaiseCapacity
<1>7. ASSUME SwitchSales
      PROVE  TypeOK'
  BY <1>7 DEF SwitchSales
<1>8. ASSUME NEW o \in Orders, Lapse(o)
      PROVE  TypeOK'
  BY <1>8 DEF Lapse
<1>9. ASSUME AdvanceClock
      PROVE  TypeOK'
  BY <1>9 DEF AdvanceClock, DayBefore, Started, Ended
<1> QED
  BY <1>1, <1>3, <1>4, <1>5, <1>6, <1>7, <1>8, <1>9 DEF OrderStep

LEMMA EnsureCaptureRefundType ==
  ASSUME TypeOK, NEW o \in Orders, NEW a \in Attempts, NEW reason \in RefundReason,
         EnsureCaptureRefund(o, a, reason)
  PROVE  /\ refund' \in [Refunds -> RefundStatus]
         /\ ticket' \in [Tickets -> TicketStatus]
         /\ UNCHANGED <<uncertain, referenced, initiating, requests>>
BY DEF EnsureCaptureRefund, MoveTickets, TypeOK, RefundStatus, TicketStatus

LEMMA FulfilType ==
  ASSUME TypeOK, NEW a \in Attempts, Fulfil(a[1], a)
  PROVE  TypeOK'
<1> DEFINE o == a[1]
<1>o. o \in Orders
  BY AttemptType
<1> HIDE DEF o
<1>s. Settle(a) => attempt' \in [Attempts -> PaymentStatus]
  BY DEF Settle, TypeOK, PaymentStatus
<1> USE QtyType DEF TypeOK, orderVars, tierVars, paymentVars, refundVars, eventVars, gatewayVars
<1>1. CASE FulfilReplay(a)
  BY <1>1, <1>s DEF FulfilReplay, SameCapture
<1>2. CASE FulfilDuplicate(o, a)
  BY <1>2, <1>o, <1>s, EnsureCaptureRefundType DEF FulfilDuplicate, RefundReason
<1>3. CASE FulfilClosed(o, a)
  BY <1>3, <1>o, <1>s, EnsureCaptureRefundType DEF FulfilClosed, RefundReason
<1>4. CASE FulfilWithoutStock(o, a)
  <2>1. reserved' \in Nat
    BY <1>4, <1>o DEF FulfilWithoutStock, ReleaseApplies, ReservedAfterRelease
  <2>2. order' \in [Orders -> OrderStatus] /\ released' \in [Orders -> BOOLEAN]
    BY <1>4, <1>o DEF FulfilWithoutStock, OrderStatus, MustReacquire
  <2> QED
    BY <2>1, <2>2, <1>4, <1>o, <1>s, EnsureCaptureRefundType DEF FulfilWithoutStock, RefundReason
<1>5. CASE FulfilOrder(o, a)
  <2>1. reserved' \in Nat /\ sold' \in Nat
    BY <1>5, <1>o DEF FulfilOrder, ReleaseApplies, ReservedAfterRelease, Obtainable
  <2>2. /\ order' \in [Orders -> OrderStatus] /\ released' \in [Orders -> BOOLEAN]
        /\ fulfilledBy' \in [Orders -> Attempts \cup {NoAttempt}]
    BY <1>5, <1>o DEF FulfilOrder, OrderStatus, MustReacquire
  <2>3. ticket' \in [Tickets -> TicketStatus]
    BY <1>5 DEF FulfilOrder, MoveTickets, TicketStatus
  <2> QED
    BY <2>1, <2>2, <2>3, <1>5, <1>s DEF FulfilOrder
<1> QED
  BY <1>1, <1>2, <1>3, <1>4, <1>5 DEF Fulfil, o

LEMMA PaymentStepType == TypeOK /\ PaymentStep => TypeOK'
<1> SUFFICES ASSUME TypeOK, PaymentStep
             PROVE  TypeOK'
  OBVIOUS
<1> USE DEF TypeOK, PaymentStatus, orderVars, tierVars, paymentVars, refundVars, eventVars,
            gatewayVars
<1>1. ASSUME NEW o \in Orders, NEW n \in 1 .. MaxAttempts, PrepareCheckout(o, n)
      PROVE  TypeOK'
  BY <1>1 DEF PrepareCheckout
<1>2. ASSUME NEW a \in Attempts, CheckoutReady(a) \/ PaymentUnresolved(a) \/ ReconcileFailed(a)
      PROVE  TypeOK'
  BY <1>2 DEF CheckoutReady, PaymentUnresolved, ReconcileFailed
<1>3. ASSUME NEW a \in Attempts, CheckoutRejected(a)
      PROVE  TypeOK'
  BY <1>3 DEF CheckoutRejected
<1>4. ASSUME NEW a \in Attempts, GatewayDecline(a)
      PROVE  TypeOK'
  BY <1>4 DEF GatewayDecline
<1>5. ASSUME NEW a \in Attempts, NEW b \in Attempts, GatewayCapture(a, b)
      PROVE  TypeOK'
  BY <1>5 DEF GatewayCapture
<1>6. ASSUME NEW a \in Attempts, Fulfil(a[1], a)
      PROVE  TypeOK'
  BY <1>6, FulfilType
<1> QED
  BY <1>1, <1>2, <1>3, <1>4, <1>5, <1>6 DEF PaymentStep

LEMMA RefundStepType == TypeOK /\ RefundStep => TypeOK'
<1> SUFFICES ASSUME TypeOK, RefundStep
             PROVE  TypeOK'
  OBVIOUS
<1> USE RefundType, QtyType DEF TypeOK, RefundStatus, orderVars, tierVars, paymentVars,
    refundVars, eventVars, gatewayVars, SetRefund
<1>1. ASSUME NEW o \in Orders, RequestRefund(o)
      PROVE  TypeOK'
  <2>1. fulfilledBy[o] \in Attempts
    BY <1>1 DEF RequestRefund, RefundEligible
  <2>2. requests' \in [Attempts -> 0 .. MaxRequests]
    <3>1. /\ requests[fulfilledBy[o]] < MaxRequests
          /\ requests' = [requests EXCEPT ![fulfilledBy[o]] = @ + 1]
      BY <1>1 DEF RequestRefund
    <3> QED
      BY <2>1, <3>1, RequestsAssumption
  <2>3. refund' \in [Refunds -> RefundStatus]
    BY <1>1 DEF RequestRefund
  <2> QED
    BY <1>1, <2>2, <2>3 DEF RequestRefund
<1>2. ASSUME NEW r \in Refunds, ApproveRefund(r)
      PROVE  TypeOK'
  BY <1>2 DEF ApproveRefund, MoveTickets, TicketStatus
<1>3. ASSUME NEW r \in Refunds, RejectRefund(r) \/ RetryRefund(r) \/ ClaimRefund(r)
      PROVE  TypeOK'
  BY <1>3 DEF RejectRefund, RetryRefund, ClaimRefund
<1>4. ASSUME NEW r \in Refunds, RefundAccepted(r) \/ RefundRejected(r) \/ RefundUnclear(r)
      PROVE  TypeOK'
  BY <1>4 DEF RefundAccepted, RefundRejected, RefundUnclear, Answered
<1>5. ASSUME NEW r \in Refunds,
             ReferenceMissing(r) \/ ConfirmedFailed(r) \/ StatusUnresolved(r)
      PROVE  TypeOK'
  BY <1>5 DEF ReferenceMissing, ConfirmedFailed, StatusUnresolved
<1>6. ASSUME NEW r \in Refunds, ConfirmedRefunded(r)
      PROVE  TypeOK'
  <2>1. sold' \in Nat
    BY <1>6 DEF ConfirmedRefunded
  <2>2. order' \in [Orders -> OrderStatus] /\ ticket' \in [Tickets -> TicketStatus]
    BY <1>6 DEF ConfirmedRefunded, MoveTickets, OrderStatus, TicketStatus
  <2> QED
    BY <1>6, <2>1, <2>2 DEF ConfirmedRefunded
<1> QED
  BY <1>1, <1>2, <1>3, <1>4, <1>5, <1>6 DEF RefundStep

LEMMA EventStepType == TypeOK /\ EventStep => TypeOK'
<1> SUFFICES ASSUME TypeOK, EventStep
             PROVE  TypeOK'
  OBVIOUS
<1> USE DEF TypeOK, orderVars, tierVars, paymentVars, refundVars, eventVars, gatewayVars
<1>1. ASSUME CancelEvent
      PROVE  TypeOK'
  BY <1>1 DEF CancelEvent, MoveTickets, TicketStatus
<1>2. ASSUME CompleteEvent
      PROVE  TypeOK'
  BY <1>2 DEF CompleteEvent
<1>3. ASSUME ListPendingCaptures
      PROVE  TypeOK'
  BY <1>3 DEF ListPendingCaptures, PendingCaptures
<1>4. ASSUME NEW o \in Orders, DispatchRefund(o)
      PROVE  TypeOK'
  <2>1. fulfilledBy[o] \in Attempts
    BY <1>4 DEF DispatchRefund
  <2> QED
    BY <1>4, <2>1, EnsureCaptureRefundType DEF DispatchRefund, RefundReason
<1>5. ASSUME AbandonRun \/ FinishCancellation
      PROVE  TypeOK'
  BY <1>5 DEF AbandonRun, FinishCancellation
<1>6. ASSUME NEW t \in Tickets, CheckIn(t)
      PROVE  TypeOK'
  BY <1>6 DEF CheckIn, TicketStatus
<1> QED
  BY <1>1, <1>2, <1>3, <1>4, <1>5, <1>6 DEF EventStep

LEMMA TypeStep == TypeOK /\ [Next]_vars => TypeOK'
<1>1. TypeOK /\ UNCHANGED vars => TypeOK'
  BY DEF TypeOK, vars, orderVars, tierVars, paymentVars, refundVars, eventVars, gatewayVars
<1> QED
  BY <1>1, OrderStepType, PaymentStepType, RefundStepType, EventStepType DEF Next

\* Every variable keeps its type, whatever the orders, quantities and bounds:
\* in particular no counter of the tier is ever driven below zero, the check
\* constraints of the TicketTier table.
THEOREM TypeCorrect == Spec => []TypeOK
BY InitType, TypeStep, PTL DEF Spec

-----------------------------------------------------------------------------
(* What a step may do to the stock.  The counters alone are not inductive: *)
(* a reservation is given back exactly when its order leaves               *)
(* PENDING_PAYMENT unpaid, so the released mark and the status must agree. *)

ReservationState ==
  \A o \in Orders :
    /\ order[o] \in {"NONE", "PENDING_PAYMENT"} => ~released[o]
    /\ order[o] = "EXPIRED" => released[o]

\* The order moves on, and what the others have released stays so.
Moves(o, from, to) ==
  /\ order[o] = from
  /\ order' = [order EXCEPT ![o] = to]
  /\ \A p \in Orders \ {o} : released'[p] = released[p]

Takes(o) ==
  /\ Moves(o, "NONE", "PENDING_PAYMENT")
  /\ reserved + sold + Qty[o] <= capacity
  /\ ~released'[o]
  /\ reserved' = reserved + Qty[o]
  /\ UNCHANGED <<sold, capacity>>

GivesBack(o) ==
  /\ Moves(o, "PENDING_PAYMENT", "CANCELLED") \/ Moves(o, "PENDING_PAYMENT", "EXPIRED")
  /\ released'[o]
  /\ reserved' = reserved - Qty[o]
  /\ UNCHANGED <<sold, capacity>>

Sells(o) ==
  /\ Moves(o, "PENDING_PAYMENT", "PAID")
  /\ reserved' = reserved - Qty[o]
  /\ sold' = sold + Qty[o]
  /\ UNCHANGED capacity

SellsLate(o) ==
  /\ Moves(o, "EXPIRED", "PAID")
  /\ reserved + sold + Qty[o] <= capacity
  /\ sold' = sold + Qty[o]
  /\ UNCHANGED <<reserved, capacity>>

TakesBack(o) ==
  /\ Moves(o, "PAID", "REFUNDED")
  /\ sold' = sold - Qty[o]
  /\ UNCHANGED <<reserved, capacity>>

Grows ==
  /\ capacity' \in InitCapacity .. MaxCapacity /\ capacity' > capacity
  /\ UNCHANGED <<order, released, reserved, sold>>

Untouched == UNCHANGED <<order, released, reserved, sold, capacity>>

StockChange ==
  \/ \E o \in Orders : Takes(o) \/ GivesBack(o) \/ Sells(o) \/ SellsLate(o) \/ TakesBack(o)
  \/ Grows
  \/ Untouched

LEMMA OrderStepStock == TypeOK /\ ReservationState /\ OrderStep => StockChange
<1> SUFFICES ASSUME TypeOK, ReservationState, OrderStep
             PROVE  StockChange
  OBVIOUS
<1> USE DEF TypeOK, orderVars, tierVars
<1>1. ASSUME NEW o \in Orders, CreateOrder(o)
      PROVE  Takes(o)
  <2>1. reserved + sold + Qty[o] <= capacity
    BY <1>1 DEF CreateOrder, CanReserve
  <2>2. ~released[o]
    BY <1>1 DEF CreateOrder, ReservationState
  <2> QED
    BY <1>1, <2>1, <2>2 DEF CreateOrder, Takes, Moves
<1>2. ASSUME NEW o \in Orders, NEW s \in {"CANCELLED", "EXPIRED"}, ReleaseAs(o, s)
      PROVE  GivesBack(o)
  BY <1>2 DEF ReleaseAs, GivesBack, Moves
<1>3. ASSUME NEW o \in Orders, CancelOrder(o) \/ ExpireOrder(o) \/ ReleaseForCancellation(o)
      PROVE  GivesBack(o)
  BY <1>2, <1>3 DEF CancelOrder, ExpireOrder, ReleaseForCancellation
<1>4. ASSUME NEW n \in InitCapacity .. MaxCapacity, RaiseCapacity(n)
      PROVE  Grows
  BY <1>4 DEF RaiseCapacity, Grows
<1>5. ASSUME SwitchSales \/ AdvanceClock \/ \E o \in Orders : Lapse(o)
      PROVE  Untouched
  BY <1>5 DEF SwitchSales, AdvanceClock, Lapse, Untouched
<1> QED
  BY <1>1, <1>3, <1>4, <1>5 DEF OrderStep, StockChange

LEMMA FulfilStock ==
  ASSUME TypeOK, ReservationState, NEW o \in Orders, NEW a \in Attempts, Fulfil(o, a)
  PROVE  Untouched \/ GivesBack(o) \/ Sells(o) \/ SellsLate(o)
<1> USE DEF TypeOK, orderVars, tierVars
<1>1. CASE FulfilReplay(a) \/ FulfilDuplicate(o, a) \/ FulfilClosed(o, a)
  BY <1>1 DEF FulfilReplay, FulfilDuplicate, FulfilClosed, Untouched
<1>2. CASE FulfilWithoutStock(o, a)
  <2> USE <1>2 DEF FulfilWithoutStock, ReservedAfterRelease
  <2>1. CASE ~MustReacquire(o)
    BY <2>1 DEF Untouched
  <2>2. CASE MustReacquire(o) /\ released[o]
    <3>1. order[o] = "EXPIRED"
      BY <2>2 DEF ReservationState, AlreadyFulfilled, Closed, OrderStatus
    <3> QED
      BY <2>2, <3>1 DEF Untouched
  <2>3. CASE MustReacquire(o) /\ ~released[o]
    BY <2>3 DEF GivesBack, Moves, ReleaseApplies
  <2> QED
    BY <2>1, <2>2, <2>3
<1>3. CASE FulfilOrder(o, a)
  <2> USE <1>3 DEF FulfilOrder, ReservedAfterRelease
  <2>1. CASE order[o] = "PENDING_PAYMENT"
    <3>1. ~released[o]
      BY <2>1 DEF ReservationState
    <3>2. reserved' = reserved - Qty[o]
      BY <3>1
    <3> QED
      BY <2>1, <3>2 DEF Sells, Moves
  <2>2. CASE order[o] = "EXPIRED"
    <3>1. released[o] /\ MustReacquire(o)
      BY <2>2 DEF ReservationState, MustReacquire
    <3>2. reserved' = reserved /\ sold + reserved + Qty[o] <= capacity
      BY <3>1 DEF Obtainable
    <3>3. reserved + sold + Qty[o] <= capacity
      BY <3>2, QtyType
    <3> QED
      BY <2>2, <3>2, <3>3 DEF SellsLate, Moves
  <2> QED
    BY <2>1, <2>2
<1> QED
  BY <1>1, <1>2, <1>3 DEF Fulfil

LEMMA StockStep == TypeOK /\ ReservationState /\ [Next]_vars => StockChange
<1> SUFFICES ASSUME TypeOK, ReservationState, [Next]_vars
             PROVE  StockChange
  OBVIOUS
<1> USE DEF TypeOK, orderVars, tierVars
<1>1. ASSUME PaymentStep
      PROVE  StockChange
  <2>1. ASSUME NEW a \in Attempts, Fulfil(a[1], a)
        PROVE  StockChange
    BY <2>1, AttemptType, FulfilStock DEF StockChange
  <2>2. ASSUME ~\E a \in Attempts : Fulfil(a[1], a)
        PROVE  Untouched
    BY <1>1, <2>2 DEF PaymentStep, PrepareCheckout, CheckoutReady, CheckoutRejected,
       PaymentUnresolved, ReconcileFailed, GatewayDecline, GatewayCapture, Untouched
  <2> QED
    BY <2>1, <2>2 DEF StockChange
<1>2. ASSUME RefundStep
      PROVE  StockChange
  <2>1. ASSUME NEW r \in Refunds, ConfirmedRefunded(r)
        PROVE  TakesBack(r[1][1]) \/ Untouched
    BY <2>1, RefundType DEF ConfirmedRefunded, TakesBack, Moves, Untouched
  <2>2. ASSUME ~\E r \in Refunds : ConfirmedRefunded(r)
        PROVE  Untouched
    BY <1>2, <2>2 DEF RefundStep, RequestRefund, ApproveRefund, RejectRefund, RetryRefund,
       ClaimRefund, RefundAccepted, RefundRejected, RefundUnclear, Answered, ReferenceMissing,
       ConfirmedFailed, StatusUnresolved, Untouched
  <2> QED
    BY <2>1, <2>2, RefundType DEF StockChange
<1>3. ASSUME EventStep
      PROVE  Untouched
  BY <1>3 DEF EventStep, CancelEvent, CompleteEvent, ListPendingCaptures, DispatchRefund,
     AbandonRun, FinishCancellation, CheckIn, Untouched
<1>4. ASSUME UNCHANGED vars
      PROVE  Untouched
  BY <1>4 DEF vars, Untouched
<1> QED
  BY <1>1, <1>2, <1>3, <1>4, OrderStepStock DEF Next, StockChange

-----------------------------------------------------------------------------
(* Counting tickets.                                                       *)

LEMMA TicketsOfCount ==
  ASSUME NEW o \in Orders
  PROVE  IsFiniteSet(TicketsOf(o)) /\ Cardinality(TicketsOf(o)) = Qty[o]
<1>q. Qty[o] \in Int /\ 1 \in Int /\ ~(1 > Qty[o]) /\ Qty[o] - 1 + 1 = Qty[o]
  BY QtyType
<1>1. IsFiniteSet(1 .. Qty[o]) /\ Cardinality(1 .. Qty[o]) = Qty[o]
  BY <1>q, FS_Interval
<1>2. IsFiniteSet({o}) /\ Cardinality({o}) = 1
  BY FS_Singleton
<1>3. /\ IsFiniteSet({o} \X (1 .. Qty[o]))
      /\ Cardinality({o} \X (1 .. Qty[o])) = Cardinality({o}) * Cardinality(1 .. Qty[o])
  BY <1>1, <1>2, FS_Product, Zenon
<1>4. Cardinality({o} \X (1 .. Qty[o])) = Qty[o]
  BY <1>q, <1>1, <1>2, <1>3
<1> QED
  BY <1>3, <1>4 DEF TicketsOf

LEMMA UnitsFinite ==
  ASSUME NEW S \in SUBSET Orders
  PROVE  IsFiniteSet(Units(S)) /\ Cardinality(Units(S)) \in Nat
<1> DEFINE T == {TicketsOf(o) : o \in S}
           f == [o \in S |-> TicketsOf(o)]
<1>1. IsFiniteSet(S)
  BY OrdersAssumption, FS_Subset
<1>2. f \in Surjection(S, T)
  BY DEF Surjection
<1>3. IsFiniteSet(T)
  BY <1>1, <1>2, FS_Surjection
<1>4. \A U \in T : IsFiniteSet(U)
  BY TicketsOfCount
<1>5. IsFiniteSet(UNION T)
  BY <1>3, <1>4, FS_UNION
<1> QED
  BY <1>5, FS_CardinalityType DEF Units

\* One more order holds as many units more as it has tickets.
LEMMA UnitsAdd ==
  ASSUME NEW S \in SUBSET Orders, NEW o \in Orders \ S
  PROVE  Cardinality(Units(S \cup {o})) = Cardinality(Units(S)) + Qty[o]
<1>1. Units(S \cup {o}) = Units(S) \cup TicketsOf(o)
  BY DEF Units
<1>2. Units(S) \cap TicketsOf(o) = {}
  BY DEF Units, TicketsOf
<1>3. /\ IsFiniteSet(Units(S)) /\ Cardinality(Units(S)) \in Nat
      /\ IsFiniteSet(TicketsOf(o)) /\ Cardinality(TicketsOf(o)) = Qty[o]
  BY UnitsFinite, TicketsOfCount
<1>4. Cardinality(Units(S) \cup TicketsOf(o)) =
        Cardinality(Units(S)) + Cardinality(TicketsOf(o)) - Cardinality({})
  BY <1>2, <1>3, FS_Union
<1>5. Cardinality({}) = 0
  BY FS_EmptySet
<1>6. Qty[o] \in Nat
  BY QtyType
<1>7. Cardinality(Units(S) \cup TicketsOf(o)) = Cardinality(Units(S)) + Qty[o]
  BY <1>3, <1>4, <1>5, <1>6
<1> QED
  BY <1>1, <1>7

LEMMA UnitsRemove ==
  ASSUME NEW S \in SUBSET Orders, NEW o \in S
  PROVE  Cardinality(Units(S \ {o})) = Cardinality(Units(S)) - Qty[o]
<1>1. Cardinality(Units((S \ {o}) \cup {o})) = Cardinality(Units(S \ {o})) + Qty[o]
  BY UnitsAdd
<1>2. (S \ {o}) \cup {o} = S
  OBVIOUS
<1>3. Cardinality(Units(S \ {o})) \in Nat
  BY UnitsFinite
<1>4. Qty[o] \in Nat
  BY QtyType
<1>5. Cardinality(Units(S)) = Cardinality(Units(S \ {o})) + Qty[o]
  BY <1>1, <1>2
<1> QED
  BY <1>3, <1>4, <1>5

-----------------------------------------------------------------------------
(* The counters are exact.                                                 *)

StockInv == TypeOK /\ ReservationState /\ InventoryAccounting

LEMMA InitStock == Init => ReservationState /\ InventoryAccounting
<1> SUFFICES ASSUME Init
             PROVE  ReservationState /\ InventoryAccounting
  OBVIOUS
<1>1. ReservationState
  BY DEF Init, ReservationState
<1>2. HoldsReserved = {} /\ HoldsSold = {}
  BY DEF Init, HoldsReserved, HoldsSold
<1>3. Units({}) = {}
  BY DEF Units
<1> QED
  BY <1>1, <1>2, <1>3, FS_EmptySet, CapacityAssumption DEF Init, InventoryAccounting

LEMMA StockChangeKeepsAccounting == StockInv /\ StockChange => InventoryAccounting'
<1> SUFFICES ASSUME StockInv, StockChange
             PROVE  InventoryAccounting'
  OBVIOUS
<1> DEFINE R == HoldsReserved
           S == HoldsSold
<1>0. R \in SUBSET Orders /\ S \in SUBSET Orders
  BY DEF HoldsReserved, HoldsSold
<1>n. Cardinality(Units(R)) \in Nat /\ Cardinality(Units(S)) \in Nat
  BY <1>0, UnitsFinite
<1>i. /\ reserved = Cardinality(Units(R)) /\ sold = Cardinality(Units(S))
      /\ reserved + sold <= capacity /\ capacity \in Nat
  BY CapacityAssumption DEF StockInv, InventoryAccounting, TypeOK
<1>c. InventoryAccounting' <=>
        /\ reserved' = Cardinality(Units(HoldsReserved'))
        /\ sold' = Cardinality(Units(HoldsSold'))
        /\ reserved' + sold' <= capacity'
  BY DEF InventoryAccounting, Units, HoldsReserved, HoldsSold
<1>1. ASSUME NEW o \in Orders, Takes(o)
      PROVE  InventoryAccounting'
  <2>1. HoldsReserved' = R \cup {o} /\ HoldsSold' = S /\ o \notin R
    BY <1>1 DEF Takes, Moves, StockInv, TypeOK, HoldsReserved, HoldsSold
  <2>2. Cardinality(Units(R \cup {o})) = reserved + Qty[o]
    BY <1>0, <1>i, <2>1, UnitsAdd
  <2> QED
    BY <1>1, <1>c, <1>i, <1>n, <2>1, <2>2, QtyType DEF Takes
<1>2. ASSUME NEW o \in Orders, GivesBack(o)
      PROVE  InventoryAccounting'
  <2>1. HoldsReserved' = R \ {o} /\ HoldsSold' = S /\ o \in R
    BY <1>2 DEF GivesBack, Moves, StockInv, ReservationState, TypeOK, HoldsReserved, HoldsSold
  <2>2. Cardinality(Units(R \ {o})) = reserved - Qty[o]
    BY <1>0, <1>i, <2>1, UnitsRemove
  <2> QED
    BY <1>2, <1>c, <1>i, <1>n, <2>1, <2>2, QtyType DEF GivesBack
<1>3. ASSUME NEW o \in Orders, Sells(o)
      PROVE  InventoryAccounting'
  <2>1. /\ HoldsReserved' = R \ {o} /\ o \in R
        /\ HoldsSold' = S \cup {o} /\ o \notin S
    BY <1>3 DEF Sells, Moves, StockInv, ReservationState, TypeOK, HoldsReserved, HoldsSold
  <2>2. Cardinality(Units(R \ {o})) = reserved - Qty[o]
    BY <1>0, <1>i, <2>1, UnitsRemove
  <2>3. Cardinality(Units(S \cup {o})) = sold + Qty[o]
    BY <1>0, <1>i, <2>1, UnitsAdd
  <2> QED
    BY <1>3, <1>c, <1>i, <1>n, <2>1, <2>2, <2>3, QtyType DEF Sells
<1>4. ASSUME NEW o \in Orders, SellsLate(o)
      PROVE  InventoryAccounting'
  <2>1. HoldsReserved' = R /\ HoldsSold' = S \cup {o} /\ o \notin S
    BY <1>4 DEF SellsLate, Moves, StockInv, TypeOK, HoldsReserved, HoldsSold
  <2>2. Cardinality(Units(S \cup {o})) = sold + Qty[o]
    BY <1>0, <1>i, <2>1, UnitsAdd
  <2> QED
    BY <1>4, <1>c, <1>i, <1>n, <2>1, <2>2, QtyType DEF SellsLate
<1>5. ASSUME NEW o \in Orders, TakesBack(o)
      PROVE  InventoryAccounting'
  <2>1. HoldsReserved' = R /\ HoldsSold' = S \ {o} /\ o \in S
    BY <1>5 DEF TakesBack, Moves, StockInv, TypeOK, HoldsReserved, HoldsSold
  <2>2. Cardinality(Units(S \ {o})) = sold - Qty[o]
    BY <1>0, <1>i, <2>1, UnitsRemove
  <2> QED
    BY <1>5, <1>c, <1>i, <1>n, <2>1, <2>2, QtyType DEF TakesBack
<1>6. ASSUME Grows \/ Untouched
      PROVE  InventoryAccounting'
  <2>1. HoldsReserved' = R /\ HoldsSold' = S /\ reserved' = reserved /\ sold' = sold
    BY <1>6 DEF Grows, Untouched, HoldsReserved, HoldsSold
  <2>2. capacity' \in Nat /\ capacity' >= capacity
    BY <1>6, <1>i, CapacityAssumption DEF Grows, Untouched
  <2> QED
    BY <1>c, <1>i, <1>n, <2>1, <2>2
<1> QED
  BY <1>1, <1>2, <1>3, <1>4, <1>5, <1>6 DEF StockChange

LEMMA StockChangeKeepsReservationState ==
  TypeOK /\ ReservationState /\ StockChange => ReservationState'
<1> SUFFICES ASSUME TypeOK, ReservationState, StockChange
             PROVE  ReservationState'
  OBVIOUS
<1>1. ASSUME NEW o \in Orders,
             Takes(o) \/ GivesBack(o) \/ Sells(o) \/ SellsLate(o) \/ TakesBack(o)
      PROVE  ReservationState'
  BY <1>1 DEF ReservationState, Takes, GivesBack, Sells, SellsLate, TakesBack, Moves, TypeOK
<1>2. ASSUME Grows \/ Untouched
      PROVE  ReservationState'
  BY <1>2 DEF ReservationState, Grows, Untouched
<1> QED
  BY <1>1, <1>2 DEF StockChange

LEMMA StockInvariant == Spec => []StockInv
<1>1. Init => StockInv
  BY InitType, InitStock DEF StockInv
<1>2. StockInv /\ [Next]_vars => StockInv'
  <2> SUFFICES ASSUME StockInv, [Next]_vars
               PROVE  ReservationState' /\ InventoryAccounting' /\ TypeOK'
    BY DEF StockInv
  <2>1. StockChange
    BY StockStep DEF StockInv
  <2>2. TypeOK'
    BY TypeStep DEF StockInv
  <2> QED
    BY <2>1, <2>2, StockChangeKeepsAccounting, StockChangeKeepsReservationState DEF StockInv
<1> QED
  BY <1>1, <1>2, PTL DEF Spec

\* The reserved and sold counters of the tier equal, at every moment, the
\* tickets of the orders that hold them, and never exceed the capacity.
THEOREM AccountingExact == Spec => []InventoryAccounting
<1>1. StockInv => InventoryAccounting
  BY DEF StockInv
<1> QED
  BY <1>1, StockInvariant, PTL

\* The units of one order are among those that are counted.
LEMMA UnitsCover ==
  ASSUME NEW S \in SUBSET Orders, NEW o \in S
  PROVE  Cardinality(Units(S)) >= Qty[o]
<1>1. Cardinality(Units(S \ {o})) = Cardinality(Units(S)) - Qty[o]
  BY UnitsRemove
<1>2. Cardinality(Units(S \ {o})) \in Nat /\ Cardinality(Units(S)) \in Nat /\ Qty[o] \in Nat
  BY UnitsFinite, QtyType
<1> QED
  BY <1>1, <1>2

\* The update that releases a pending order, and the one that gives back a paid
\* order's units when its refund is confirmed, find the units they subtract: the
\* services never throw for want of them.
THEOREM CountersNeverFallShort == Spec => []CountersCover
<1>1. StockInv => CountersCover
  <2> SUFFICES ASSUME StockInv, NEW o \in Orders
               PROVE  /\ order[o] = "PENDING_PAYMENT" /\ ~released[o] => reserved >= Qty[o]
                      /\ order[o] = "PAID" => sold >= Qty[o]
    BY DEF CountersCover
  <2>1. HoldsReserved \in SUBSET Orders /\ HoldsSold \in SUBSET Orders
    BY DEF HoldsReserved, HoldsSold
  <2>2. ASSUME order[o] = "PENDING_PAYMENT", ~released[o] PROVE reserved >= Qty[o]
    BY <2>1, <2>2, UnitsCover DEF HoldsReserved, StockInv, InventoryAccounting
  <2>3. ASSUME order[o] = "PAID" PROVE sold >= Qty[o]
    BY <2>1, <2>3, UnitsCover DEF HoldsSold, StockInv, InventoryAccounting
  <2> QED
    BY <2>2, <2>3
<1> QED
  BY <1>1, StockInvariant, PTL

\* Orders move as OrderMoves lists, whichever service moves them.
THEOREM OrdersMoveOn == Spec => OrderMoves
<1>1. ASSUME StockInv, [Next]_vars, NEW o \in Orders, order'[o] # order[o]
      PROVE  <<order[o], order'[o]>> \in OrderTransitions
  BY <1>1, StockStep
  DEF StockInv, StockChange, Takes, GivesBack, Sells, SellsLate, TakesBack, Moves, Grows, Untouched,
      OrderTransitions, TypeOK
<1>2. StockInv /\ [Next]_vars =>
        [\A o \in Orders : order'[o] # order[o] => <<order[o], order'[o]>> \in OrderTransitions]_order
  BY <1>1
<1> QED
  BY <1>2, StockInvariant, PTL DEF Spec, OrderMoves

-----------------------------------------------------------------------------
(* The services implement the abstract inventory.                          *)

LEMMA UnitsDisjoint ==
  ASSUME NEW R \in SUBSET Orders, NEW S \in SUBSET Orders, R \cap S = {}
  PROVE  Cardinality(Units(R \cup S)) = Cardinality(Units(R)) + Cardinality(Units(S))
<1>1. Units(R \cup S) = Units(R) \cup Units(S)
  BY DEF Units
<1>2. Units(R) \cap Units(S) = {}
  BY DEF Units, TicketsOf
<1>3. /\ IsFiniteSet(Units(R)) /\ Cardinality(Units(R)) \in Nat
      /\ IsFiniteSet(Units(S)) /\ Cardinality(Units(S)) \in Nat
  BY UnitsFinite
<1>4. Cardinality(Units(R) \cup Units(S)) =
        Cardinality(Units(R)) + Cardinality(Units(S)) - Cardinality({})
  BY <1>2, <1>3, FS_Union
<1>5. Cardinality({}) = 0
  BY FS_EmptySet
<1>6. Cardinality(Units(R) \cup Units(S)) = Cardinality(Units(R)) + Cardinality(Units(S))
  BY <1>3, <1>4, <1>5
<1> QED
  BY <1>1, <1>6

LEMMA HoldOfOrder ==
  ASSUME TypeOK, NEW o \in Orders
  PROVE  /\ HoldOf(o) = "none" <=> order[o] = "NONE"
         /\ HoldOf(o) = "reserved" <=> order[o] = "PENDING_PAYMENT"
         /\ HoldOf(o) = "sold" <=> order[o] = "PAID"
         /\ HoldOf(o) = "expired" <=> order[o] = "EXPIRED"
         /\ HoldOf(o) = "returned" <=> order[o] \in {"CANCELLED", "REFUNDED"}
<1>1. order[o] \in OrderStatus
  BY DEF TypeOK
<1> QED
  BY <1>1 DEF HoldOf, OrderStatus

\* Room for an order in the counters is room for it in the abstract inventory.
LEMMA RoomFits ==
  ASSUME StockInv, NEW o \in Orders, order[o] \in {"NONE", "EXPIRED"},
         reserved + sold + Qty[o] <= capacity
  PROVE  Stock!Fits(o)
<1> DEFINE H == HoldsReserved \cup HoldsSold
<1>1. Stock!Taken = H
  BY HoldOfOrder DEF Stock!Taken, StockInv, ReservationState, HoldsReserved, HoldsSold
<1>2. /\ HoldsReserved \in SUBSET Orders /\ HoldsSold \in SUBSET Orders
      /\ HoldsReserved \cap HoldsSold = {} /\ o \in Orders \ H
  BY DEF HoldsReserved, HoldsSold
<1>3. Cardinality(Units(H)) = reserved + sold
  BY <1>2, UnitsDisjoint DEF StockInv, InventoryAccounting
<1>4. Cardinality(Units(H \cup {o})) = Cardinality(Units(H)) + Qty[o]
  BY <1>2, UnitsAdd
<1>5. Stock!Units(H \cup {o}) = Units(H \cup {o})
  BY DEF Stock!Units, Units, TicketsOf
<1>6. Stock!Cardinality(Units(H \cup {o})) = Cardinality(Units(H \cup {o}))
  BY DEF Stock!Cardinality, Cardinality
<1> QED
  BY <1>1, <1>3, <1>4, <1>5, <1>6 DEF Stock!Fits

LEMMA InitImplements == Init => Stock!Init
BY DEF Init, Stock!Init, HoldOf

LEMMA MoveImplements ==
  ASSUME TypeOK, NEW o \in Orders, NEW from, NEW to, Moves(o, from, to),
         NEW h, HoldOf(o)' = h, UNCHANGED capacity
  PROVE  Stock!Move(o, HoldOf(o), h)
<1>1. \A p \in Orders \ {o} : order'[p] = order[p]
  BY DEF Moves, TypeOK
<1>2. \A p \in Orders \ {o} : HoldOf(p)' = HoldOf(p)
  BY <1>1 DEF HoldOf
<1>3. [p \in Orders |-> HoldOf(p)]' = [[p \in Orders |-> HoldOf(p)] EXCEPT ![o] = h]
  BY <1>2
<1> QED
  BY <1>3 DEF Stock!Move

LEMMA StepImplements ==
  ASSUME StockInv, TypeOK', StockChange
  PROVE  Stock!Next \/ UNCHANGED <<[o \in Orders |-> HoldOf(o)], capacity>>
<1> USE DEF StockInv
<1>1. ASSUME NEW o \in Orders, Takes(o)
      PROVE  Stock!Reserve(o)
  <2>1. HoldOf(o) = "none" /\ HoldOf(o)' = "reserved"
    BY <1>1 DEF Takes, Moves, TypeOK, HoldOf
  <2>2. Stock!Move(o, HoldOf(o), "reserved")
    BY <1>1, <2>1, MoveImplements DEF Takes
  <2>3. Stock!Fits(o)
    BY <1>1, RoomFits DEF Takes, Moves
  <2> QED
    BY <2>1, <2>2, <2>3 DEF Stock!Reserve
<1>2. ASSUME NEW o \in Orders, GivesBack(o)
      PROVE  Stock!GiveUp(o)
  <2>1. CASE Moves(o, "PENDING_PAYMENT", "CANCELLED")
    <3>1. HoldOf(o) = "reserved" /\ HoldOf(o)' = "returned"
      BY <2>1 DEF Moves, TypeOK, HoldOf
    <3>2. Stock!Move(o, HoldOf(o), "returned")
      BY <1>2, <2>1, <3>1, MoveImplements DEF GivesBack
    <3> QED
      BY <3>1, <3>2 DEF Stock!GiveUp
  <2>2. CASE Moves(o, "PENDING_PAYMENT", "EXPIRED")
    <3>1. HoldOf(o) = "reserved" /\ HoldOf(o)' = "expired"
      BY <2>2 DEF Moves, TypeOK, HoldOf
    <3>2. Stock!Move(o, HoldOf(o), "expired")
      BY <1>2, <2>2, <3>1, MoveImplements DEF GivesBack
    <3> QED
      BY <3>1, <3>2 DEF Stock!GiveUp
  <2> QED
    BY <1>2, <2>1, <2>2 DEF GivesBack
<1>3. ASSUME NEW o \in Orders, Sells(o)
      PROVE  Stock!Buy(o)
  <2>1. HoldOf(o) = "reserved" /\ HoldOf(o)' = "sold"
    BY <1>3 DEF Sells, Moves, TypeOK, HoldOf
  <2>2. Stock!Move(o, HoldOf(o), "sold")
    BY <1>3, <2>1, MoveImplements DEF Sells
  <2> QED
    BY <2>1, <2>2 DEF Stock!Buy
<1>4. ASSUME NEW o \in Orders, SellsLate(o)
      PROVE  Stock!BuyLate(o)
  <2>1. HoldOf(o) = "expired" /\ HoldOf(o)' = "sold"
    BY <1>4 DEF SellsLate, Moves, TypeOK, HoldOf
  <2>2. Stock!Move(o, HoldOf(o), "sold")
    BY <1>4, <2>1, MoveImplements DEF SellsLate
  <2>3. Stock!Fits(o)
    BY <1>4, RoomFits DEF SellsLate, Moves
  <2> QED
    BY <2>1, <2>2, <2>3 DEF Stock!BuyLate
<1>5. ASSUME NEW o \in Orders, TakesBack(o)
      PROVE  Stock!Return(o)
  <2>1. HoldOf(o) = "sold" /\ HoldOf(o)' = "returned"
    BY <1>5 DEF TakesBack, Moves, TypeOK, HoldOf
  <2>2. Stock!Move(o, HoldOf(o), "returned")
    BY <1>5, <2>1, MoveImplements DEF TakesBack
  <2> QED
    BY <2>1, <2>2 DEF Stock!Return
<1>6. ASSUME UNCHANGED order
      PROVE  UNCHANGED [o \in Orders |-> HoldOf(o)]
  BY <1>6 DEF HoldOf
<1>7. ASSUME Grows
      PROVE  \E n \in InitCapacity .. MaxCapacity : Stock!Grow(n)
  BY <1>6, <1>7 DEF Grows, Stock!Grow
<1>8. ASSUME Untouched
      PROVE  UNCHANGED <<[o \in Orders |-> HoldOf(o)], capacity>>
  BY <1>6, <1>8 DEF Untouched
<1> QED
  BY <1>1, <1>2, <1>3, <1>4, <1>5, <1>7, <1>8 DEF StockChange, Stock!Next

\* Every interleaving of orders, payments, refunds and cancellation is, seen
\* through the orders' states, a behaviour of the abstract inventory.
THEOREM BookingImplementsInventory == Spec => ImplementsInventory
<1>1. StockInv /\ StockInv' /\ [Next]_vars =>
        [Stock!Next]_<<[o \in Orders |-> HoldOf(o)], capacity>>
  BY StockStep, StepImplements DEF StockInv
<1> QED
  BY <1>1, InitImplements, StockInvariant, PTL DEF Spec, ImplementsInventory, Stock!Spec

-----------------------------------------------------------------------------
(* One payment attempt at a time.                                          *)

\* Outside checkout, an attempt that is in progress was so before.
LEMMA FulfilEndsAttempts ==
  ASSUME TypeOK, NEW a \in Attempts, Fulfil(a[1], a)
  PROVE  \A b \in Attempts : attempt'[b] \in ActiveAttempt => attempt[b] \in ActiveAttempt
<1>1. Settle(a)
  BY DEF Fulfil, FulfilReplay, FulfilDuplicate, FulfilClosed, FulfilWithoutStock, FulfilOrder
<1> QED
  BY <1>1 DEF Settle, TypeOK, ActiveAttempt

\* Checkout, the gateway's answers, late verification and reconciliation never
\* leave an order with two payment attempts in progress.
THEOREM AttemptsExclusive == Spec => []OneActiveAttempt
<1>1. Init => OneActiveAttempt
  BY DEF Init, OneActiveAttempt, ActiveAttempt
<1>2. TypeOK /\ OneActiveAttempt /\ [Next]_vars => OneActiveAttempt'
  <2> SUFFICES ASSUME TypeOK, OneActiveAttempt, [Next]_vars
               PROVE  OneActiveAttempt'
    OBVIOUS
  <2>1. ASSUME \A b \in Attempts : attempt'[b] \in ActiveAttempt => attempt[b] \in ActiveAttempt
        PROVE  OneActiveAttempt'
    BY <2>1 DEF OneActiveAttempt, ActiveAttempt
  <2>2. ASSUME NEW o \in Orders, NEW n \in 1 .. MaxAttempts, PrepareCheckout(o, n)
        PROVE  OneActiveAttempt'
    <3>1. /\ attempt' = [attempt EXCEPT ![<<o, n>>] = "INITIATING"]
          /\ \A a \in Attempt(o) : attempt[a] \notin ActiveAttempt
      BY <2>2 DEF PrepareCheckout, MayAttempt
    <3>2. \A a \in Attempts : a[1] = o => a \in Attempt(o)
      BY DEF Attempts, Attempt
    <3>3. \A a \in Attempts : a # <<o, n>> => attempt'[a] = attempt[a]
      BY <3>1 DEF TypeOK
    <3>4. \A a \in Attempts : a[1] = o /\ attempt'[a] \in ActiveAttempt => a = <<o, n>>
      BY <3>1, <3>2, <3>3
    <3>5. <<o, n>>[1] = o
      OBVIOUS
    <3> QED
      BY <3>3, <3>4, <3>5 DEF OneActiveAttempt, ActiveAttempt
  <2>3. ASSUME NEW a \in Attempts,
               CheckoutReady(a) \/ CheckoutRejected(a) \/ PaymentUnresolved(a) \/ ReconcileFailed(a)
        PROVE  OneActiveAttempt'
    BY <2>1, <2>3 DEF CheckoutReady, CheckoutRejected, PaymentUnresolved, ReconcileFailed,
       TypeOK, ActiveAttempt
  <2>4. ASSUME NEW a \in Attempts, Fulfil(a[1], a)
        PROVE  OneActiveAttempt'
    BY <2>1, <2>4, FulfilEndsAttempts
  <2>5. ASSUME UNCHANGED attempt
        PROVE  OneActiveAttempt'
    BY <2>1, <2>5
  <2>6. CASE OrderStep
    BY <2>5, <2>6 DEF OrderStep, CreateOrder, CancelOrder, ExpireOrder, ReleaseForCancellation,
       ReleaseAs, RaiseCapacity, SwitchSales, Lapse, AdvanceClock, paymentVars
  <2>7. CASE PaymentStep
    <3>1. ASSUME NEW a \in Attempts, GatewayDecline(a) \/ \E b \in Attempts : GatewayCapture(a, b)
          PROVE  OneActiveAttempt'
      BY <2>5, <3>1 DEF GatewayDecline, GatewayCapture, paymentVars
    <3> QED
      BY <2>2, <2>3, <2>4, <2>7, <3>1 DEF PaymentStep
  <2>8. CASE RefundStep
    BY <2>5, <2>8 DEF RefundStep, RequestRefund, ApproveRefund, RejectRefund, RetryRefund,
       ClaimRefund, RefundAccepted, RefundRejected, RefundUnclear, Answered, ReferenceMissing,
       ConfirmedFailed, StatusUnresolved, ConfirmedRefunded, paymentVars
  <2>9. CASE EventStep
    BY <2>5, <2>9 DEF EventStep, CancelEvent, CompleteEvent, ListPendingCaptures, DispatchRefund,
       AbandonRun, FinishCancellation, CheckIn, paymentVars
  <2>10. CASE UNCHANGED vars
    BY <2>5, <2>10 DEF vars, paymentVars
  <2> QED
    BY <2>6, <2>7, <2>8, <2>9, <2>10 DEF Next
<1> QED
  BY <1>1, <1>2, TypeCorrect, PTL DEF Spec
=============================================================================
