---------------------------- MODULE PurchaseProofs ----------------------------
(***************************************************************************)
(* Proofs about the money in Booking, for every number of orders and       *)
(* attempts: captures, the purchases they pay for, their refunds and the   *)
(* tickets agree, whatever order callbacks, workers and people act in.     *)
(* Each step is first reduced to what it does to these rows.               *)
(***************************************************************************)
EXTENDS BookingProofs

-----------------------------------------------------------------------------
(* The invariant.                                                          *)

\* Attempts without a verdict replay nothing, and so have no refunds.
Captures ==
  /\ \A a \in Attempts : attempt[a] # "SUCCEEDED" => replayOf[a] = NoAttempt
  /\ \A a \in Attempts : attempt[a] = "SUCCEEDED" => gateway[a] = "captured"
  /\ \A a \in Attempts : replayOf[a] # NoAttempt => Captured(replayOf[a])
  /\ \A a, b \in Attempts : Captured(a) /\ Captured(b) /\ bankTran[a] = bankTran[b] => a = b

Bought == {"PAID", "REFUNDED"}

Purchases ==
  /\ \A o \in Orders : order[o] \in Bought <=> fulfilledBy[o] # NoAttempt
  /\ \A o \in Orders : fulfilledBy[o] # NoAttempt => fulfilledBy[o][1] = o /\ Captured(fulfilledBy[o])
  /\ \A t \in Tickets : ticket[t] # "NONE" <=> fulfilledBy[t[1]] # NoAttempt

\* Only captures have refunds, and attendees ask only for what they bought.
RefundRows ==
  /\ \A r \in Refunds : refund[r] # "NONE" => Captured(r[1])
  /\ \A r \in Refunds : refund[r] = "REQUESTED" => fulfilledBy[r[1][1]] = r[1]

CapturesAnswered ==
  \A a \in Attempts : Captured(a) =>
    fulfilledBy[a[1]] = a \/ \E r \in RefundsOf(a) : refund[r] \notin {"NONE", "REJECTED"}

CancelledEvents ==
  /\ cancelJob # "none" => eventStatus = "CANCELLED"
  /\ eventStatus = "CANCELLED" => \A t \in Tickets : ticket[t] \notin {"ACTIVE", "CHECKED_IN"}
  /\ cancelJob = "done" =>
       /\ HoldsReserved = {}
       /\ \A o \in HoldsSold : \E r \in RefundsOf(fulfilledBy[o]) :
            refund[r] \in (LiveRefund \ {"REQUESTED"}) \cup {"FAILED"}

PurchaseInv ==
  /\ Captures /\ Purchases /\ RefundRows /\ CapturesAnswered
  /\ OneRefundAtProvider /\ InsideExclusive /\ RefundFollowsProvider /\ CancelledEvents

-----------------------------------------------------------------------------
(* What the steps do.                                                      *)

\* Orders move on without becoming purchases, and reserve only while sales are on.
PurchasesStay ==
  /\ UNCHANGED fulfilledBy
  /\ \A o \in Orders : order'[o] = order[o] \/ (order[o] \notin Bought /\ order'[o] \notin Bought)

ReservationsEnd == HoldsReserved' \subseteq HoldsReserved

OtherRowsStay == UNCHANGED <<paymentVars, ticket, refund, gateway, bankTran, eventStatus, cancelJob>>

LEMMA OrderStepMoves ==
  ASSUME TypeOK, OrderStep
  PROVE  PurchasesStay /\ OtherRowsStay /\ (ReservationsEnd \/ eventStatus = "PUBLISHED")
<1> USE DEF PurchasesStay, OtherRowsStay, Bought, orderVars, tierVars, refundVars, eventVars, gatewayVars
<1>1. ASSUME NEW o \in Orders, CreateOrder(o)
      PROVE  PurchasesStay /\ OtherRowsStay /\ eventStatus = "PUBLISHED"
  BY <1>1 DEF CreateOrder, CanReserve, TypeOK
<1>2. ASSUME NEW o \in Orders, NEW s \in {"CANCELLED", "EXPIRED"}, ReleaseAs(o, s)
      PROVE  PurchasesStay /\ OtherRowsStay /\ ReservationsEnd
  BY <1>2 DEF ReleaseAs, TypeOK, ReservationsEnd, HoldsReserved
<1>3. ASSUME NEW n, RaiseCapacity(n)
      PROVE  PurchasesStay /\ OtherRowsStay /\ ReservationsEnd
  BY <1>3 DEF RaiseCapacity, ReservationsEnd, HoldsReserved
<1>4. ASSUME NEW o \in Orders, Lapse(o)
      PROVE  PurchasesStay /\ OtherRowsStay /\ ReservationsEnd
  BY <1>4 DEF Lapse, ReservationsEnd, HoldsReserved
<1>5. SwitchSales \/ AdvanceClock => PurchasesStay /\ OtherRowsStay /\ ReservationsEnd
  BY DEF SwitchSales, AdvanceClock, ReservationsEnd, HoldsReserved
<1> QED
  BY <1>1, <1>2, <1>3, <1>4, <1>5 DEF OrderStep, CancelOrder, ExpireOrder, ReleaseForCancellation

\* Until an attempt is settled: the gateway's record of it can change only once.
CheckoutMoves ==
  /\ \A a \in Attempts : attempt'[a] = "SUCCEEDED" <=> attempt[a] = "SUCCEEDED"
  /\ \A a \in Attempts : gateway[a] # "idle" => gateway'[a] = gateway[a] /\ bankTran'[a] = bankTran[a]
  /\ UNCHANGED <<orderVars, replayOf, ticket, refund, eventStatus, cancelJob>>

FulfilSettles(a) ==
  /\ gateway[a] = "captured" /\ attempt[a] # "SUCCEEDED"
  /\ attempt' = [attempt EXCEPT ![a] = "SUCCEEDED"]
  /\ UNCHANGED <<gateway, bankTran, eventStatus, cancelJob>>

\* The outcomes of a settled attempt: a replay, a refund or a purchase.
Replays(a) ==
  /\ \E b \in SameCapture(a) : replayOf' = [replayOf EXCEPT ![a] = b]
  /\ UNCHANGED <<orderVars, ticket, refund>>

Repays(a) ==
  /\ SameCapture(a) = {} /\ UNCHANGED replayOf
  /\ \E reason \in RefundReason : EnsureCaptureRefund(a[1], a, reason)
  /\ PurchasesStay /\ ReservationsEnd

Buys(a) ==
  LET o == a[1] IN
  /\ SameCapture(a) = {} /\ UNCHANGED replayOf
  /\ eventStatus = "PUBLISHED" /\ fulfilledBy[o] = NoAttempt /\ order[o] \notin Bought
  /\ order' = [order EXCEPT ![o] = "PAID"]
  /\ fulfilledBy' = [fulfilledBy EXCEPT ![o] = a]
  /\ MoveTickets({o}, {"NONE"}, "ACTIVE")
  /\ UNCHANGED refund /\ ReservationsEnd

LEMMA FulfilMoves ==
  ASSUME TypeOK, NEW a \in Attempts, Fulfil(a[1], a)
  PROVE  FulfilSettles(a) /\ (Replays(a) \/ Repays(a) \/ Buys(a))
<1> DEFINE o == a[1]
<1>o. o \in Orders
  BY AttemptType
<1> HIDE DEF o
<1> USE DEF FulfilSettles, Settle, Validated, NewCapture
<1> USE DEF orderVars, tierVars, refundVars, eventVars, gatewayVars
<1>1. CASE FulfilReplay(a)
  BY <1>1 DEF FulfilReplay, Replays
<1>2. CASE FulfilDuplicate(o, a)
  <2>1. PurchasesStay /\ ReservationsEnd
    BY <1>2 DEF FulfilDuplicate, PurchasesStay, ReservationsEnd, HoldsReserved
  <2> QED
    BY <1>2, <2>1 DEF FulfilDuplicate, Repays, RefundReason, o
<1>3. CASE FulfilClosed(o, a)
  <2>1. PurchasesStay /\ ReservationsEnd
    BY <1>3 DEF FulfilClosed, PurchasesStay, ReservationsEnd, HoldsReserved
  <2> QED
    BY <1>3, <2>1 DEF FulfilClosed, Repays, RefundReason, o
<1>4. CASE FulfilWithoutStock(o, a)
  <2>1. PurchasesStay /\ ReservationsEnd
    BY <1>4, <1>o DEF FulfilWithoutStock, PurchasesStay, ReservationsEnd, HoldsReserved, AlreadyFulfilled,
                      MustReacquire, Bought, TypeOK
  <2> QED
    BY <1>4, <2>1 DEF FulfilWithoutStock, Repays, RefundReason, o
<1>5. CASE FulfilOrder(o, a)
  <2>1. ReservationsEnd
    BY <1>5, <1>o DEF FulfilOrder, ReservationsEnd, HoldsReserved, TypeOK
  <2> QED
    BY <1>5, <2>1 DEF FulfilOrder, Buys, AlreadyFulfilled, Closed, Bought, o
<1> QED
  BY <1>1, <1>2, <1>3, <1>4, <1>5 DEF Fulfil, o

LEMMA PaymentStepMoves ==
  ASSUME TypeOK, PaymentStep
  PROVE  CheckoutMoves \/ \E a \in Attempts : Fulfil(a[1], a)
<1> USE DEF CheckoutMoves, TypeOK, orderVars, tierVars, paymentVars, refundVars, eventVars, gatewayVars
<1>1. ASSUME NEW o \in Orders, NEW n \in 1 .. MaxAttempts, PrepareCheckout(o, n) PROVE CheckoutMoves
  BY <1>1 DEF PrepareCheckout, MayAttempt, Attempts
<1>2. ASSUME NEW a \in Attempts, CheckoutReady(a) \/ PaymentUnresolved(a) \/ ReconcileFailed(a)
      PROVE  CheckoutMoves
  BY <1>2 DEF CheckoutReady, PaymentUnresolved, ReconcileFailed, ActiveAttempt
<1>3. ASSUME NEW a \in Attempts, CheckoutRejected(a) PROVE CheckoutMoves
  <2>1. \A b \in Attempts : attempt'[b] = "SUCCEEDED" <=> attempt[b] = "SUCCEEDED"
    BY <1>3 DEF CheckoutRejected
  <2>2. \A b \in Attempts : gateway[b] # "idle" => gateway'[b] = gateway[b] /\ bankTran'[b] = bankTran[b]
    BY <1>3 DEF CheckoutRejected
  <2> QED
    BY <1>3, <2>1, <2>2 DEF CheckoutRejected
<1>4. ASSUME NEW a \in Attempts, GatewayDecline(a) PROVE CheckoutMoves
  BY <1>4 DEF GatewayDecline
<1>5. ASSUME NEW a \in Attempts, NEW b \in Attempts, GatewayCapture(a, b) PROVE CheckoutMoves
  <2>1. \A c \in Attempts : gateway[c] # "idle" => gateway'[c] = gateway[c] /\ bankTran'[c] = bankTran[c]
    BY <1>5 DEF GatewayCapture
  <2> QED
    BY <1>5, <2>1 DEF GatewayCapture
<1> QED
  BY <1>1, <1>2, <1>3, <1>4, <1>5 DEF PaymentStep

\* ensureCaptureRefund leaves the capture with a refund, and touches no other.
LEMMA EnsureCaptureRefundMoves ==
  ASSUME TypeOK, NEW o \in Orders, NEW a \in Attempts, NEW reason \in RefundReason,
         EnsureCaptureRefund(o, a, reason)
  PROVE  /\ \A r \in Refunds : refund'[r] # refund[r] =>
              /\ r \in RefundsOf(a) /\ refund[r] \in {"NONE", "REQUESTED", "REJECTED"}
              /\ refund'[r] = "APPROVED"
         /\ \E r \in RefundsOf(a) : refund'[r] \notin {"NONE", "REJECTED"}
         /\ \A t \in Tickets : ticket'[t] # ticket[t] =>
              t[1] = o /\ ticket[t] \in {"ACTIVE", "CHECKED_IN"} /\ ticket'[t] = "VOIDED"
         /\ reason = "EVENT_CANCELLATION" /\ fulfilledBy[o] = a =>
              refund' = refund \/ \A t \in TicketsOf(o) : ticket'[t] \notin {"ACTIVE", "CHECKED_IN"}
<1> DEFINE r0 == <<a, reason>>
           live == {q \in RefundsOf(a) : Live(q)}
           asked == {q \in live : reason = "EVENT_CANCELLATION" /\ refund[q] = "REQUESTED"}
           stopped == live = {} /\ refund[r0] = "FAILED"
           approve == IF live = {} /\ ~stopped THEN {r0} ELSE asked
<1>1. /\ refund' = [q \in Refunds |-> IF q \in approve THEN "APPROVED" ELSE refund[q]]
      /\ IF reason = "EVENT_CANCELLATION" /\ fulfilledBy[o] = a /\ ~stopped
           THEN MoveTickets({o}, {"ACTIVE", "CHECKED_IN"}, "VOIDED")
           ELSE UNCHANGED ticket
  BY DEF EnsureCaptureRefund, VoidsTickets
<1>2. r0 \in RefundsOf(a) /\ RefundsOf(a) \subseteq Refunds
  BY DEF RefundsOf, Refunds
<1>3. TicketsOf(o) \subseteq Tickets /\ \A t \in TicketsOf(o) : t[1] = o
  BY DEF Tickets, TicketsOf
<1>4. ASSUME NEW r \in Refunds, refund'[r] # refund[r]
      PROVE  /\ r \in RefundsOf(a) /\ refund[r] \in {"NONE", "REQUESTED", "REJECTED"}
             /\ refund'[r] = "APPROVED"
  <2>1. r \in approve /\ refund'[r] = "APPROVED"
    BY <1>1, <1>4
  <2>2. CASE live = {} /\ ~stopped
    BY <1>2, <2>1, <2>2, <1>4 DEF Live, LiveRefund, TypeOK, RefundStatus
  <2>3. CASE ~(live = {} /\ ~stopped)
    BY <2>1, <2>3
  <2> QED
    BY <2>2, <2>3
<1>5. \E r \in RefundsOf(a) : refund'[r] \notin {"NONE", "REJECTED"}
  <2>1. CASE live = {}
    BY <1>1, <1>2, <2>1
  <2>2. CASE live # {}
    BY <1>1, <1>2, <2>2 DEF Live, LiveRefund
  <2> QED
    BY <2>1, <2>2
<1>6. ASSUME NEW t \in Tickets, ticket'[t] # ticket[t]
      PROVE  t[1] = o /\ ticket[t] \in {"ACTIVE", "CHECKED_IN"} /\ ticket'[t] = "VOIDED"
  BY <1>1, <1>6 DEF MoveTickets
<1>7. ASSUME reason = "EVENT_CANCELLATION", fulfilledBy[o] = a
      PROVE  refund' = refund \/ \A t \in TicketsOf(o) : ticket'[t] \notin {"ACTIVE", "CHECKED_IN"}
  <2>1. CASE stopped
    BY <1>1, <2>1 DEF TypeOK
  <2>2. CASE ~stopped
    <3>1. MoveTickets({o}, {"ACTIVE", "CHECKED_IN"}, "VOIDED")
      BY <1>1, <1>7, <2>2
    <3> QED
      BY <1>3, <3>1 DEF MoveTickets
  <2> QED
    BY <2>1, <2>2
<1> QED
  BY <1>4, <1>5, <1>6, <1>7

OrdersStay == UNCHANGED <<order, released, ticket>>

Asks(r) ==
  /\ refund[r] \in {"NONE", "REJECTED"} /\ refund' = [refund EXCEPT ![r] = "REQUESTED"]
  /\ Captured(r[1]) /\ fulfilledBy[r[1][1]] = r[1]
  /\ \A t \in TicketsOf(r[1][1]) : ticket[t] = "ACTIVE"
  /\ OrdersStay

Approves(r) ==
  /\ refund[r] = "REQUESTED" /\ refund' = [refund EXCEPT ![r] = "APPROVED"]
  /\ MoveTickets({r[1][1]}, {"ACTIVE"}, "VOIDED")
  /\ UNCHANGED <<order, released>>

Rejects(r) ==
  /\ refund[r] = "REQUESTED" /\ refund' = [refund EXCEPT ![r] = "REJECTED"]
  /\ OrdersStay

Sends(r) ==
  /\ refund[r] \in {"APPROVED", "FAILED"} /\ refund' = [refund EXCEPT ![r] = "PROCESSING"]
  /\ \A q \in RefundsOf(r[1]) \ {r} : ~Live(q)
  /\ OrdersStay

\* A retry, and every answer but the confirmation.
Hears(r) ==
  /\ refund[r] \in InFlight \cup {"FAILED"}
  /\ \E s \in (IF refund[r] = "FAILED" THEN {"APPROVED"} ELSE InFlight \cup {"FAILED"}) :
       refund' = [refund EXCEPT ![r] = s]
  /\ OrdersStay

PaysBack(r) ==
  LET o == r[1][1] IN
  /\ refund[r] \in InFlight /\ refund' = [refund EXCEPT ![r] = "SUCCEEDED"]
  /\ \A q \in RefundsOf(r[1]) \ {r} : refund[q] # "SUCCEEDED"
  /\ IF fulfilledBy[o] = r[1] /\ order[o] = "PAID"
       THEN order' = [order EXCEPT ![o] = "REFUNDED"] /\ MoveTickets({o}, TicketStatus, "REFUNDED")
       ELSE UNCHANGED <<order, ticket>>
  /\ UNCHANGED released

RefundMoves(r) ==
  /\ Asks(r) \/ Approves(r) \/ Rejects(r) \/ Sends(r) \/ Hears(r) \/ PaysBack(r)
  /\ UNCHANGED <<paymentVars, gateway, bankTran, fulfilledBy, eventStatus, cancelJob>>

LEMMA RefundStepMoves ==
  ASSUME TypeOK, Purchases, RefundStep PROVE \E r \in Refunds : RefundMoves(r)
<1> USE DEF RefundMoves, OrdersStay, SetRefund, orderVars, tierVars, paymentVars, eventVars, gatewayVars
<1>1. ASSUME NEW o \in Orders, RequestRefund(o) PROVE \E r \in Refunds : RefundMoves(r)
  <2> DEFINE r == <<fulfilledBy[o], "ATTENDEE_REQUEST">>
  <2>1. fulfilledBy[o] \in Attempts /\ fulfilledBy[o][1] = o
    BY <1>1 DEF RequestRefund, RefundEligible, TypeOK, Purchases
  <2>2. r \in Refunds /\ r[1] = fulfilledBy[o]
    BY <2>1 DEF Refunds, RefundReason
  <2>3. Asks(r)
    BY <1>1, <2>1, <2>2 DEF RequestRefund, RefundEligible, Asks
  <2> QED
    BY <1>1, <2>2, <2>3 DEF RequestRefund
<1>2. ASSUME NEW r \in Refunds, ApproveRefund(r) PROVE RefundMoves(r)
  BY <1>2 DEF ApproveRefund, Approves
<1>3. ASSUME NEW r \in Refunds, RejectRefund(r) PROVE RefundMoves(r)
  BY <1>3 DEF RejectRefund, Rejects
<1>4. ASSUME NEW r \in Refunds, RetryRefund(r) PROVE RefundMoves(r)
  BY <1>4 DEF RetryRefund, Hears
<1>5. ASSUME NEW r \in Refunds, ClaimRefund(r) PROVE RefundMoves(r)
  BY <1>5 DEF ClaimRefund, Contested, Sends
<1>6. ASSUME NEW r \in Refunds, NEW s \in InFlight \cup {"FAILED"}, Answered(r, s) PROVE RefundMoves(r)
  BY <1>6 DEF Answered, Hears, InFlight
<1>7. ASSUME NEW r \in Refunds, RefundAccepted(r) \/ RefundRejected(r) \/ RefundUnclear(r)
      PROVE  RefundMoves(r)
  BY <1>6, <1>7 DEF RefundAccepted, RefundRejected, RefundUnclear, InFlight
<1>8. ASSUME NEW r \in Refunds, ReferenceMissing(r) \/ ConfirmedFailed(r) \/ StatusUnresolved(r)
      PROVE  RefundMoves(r)
  BY <1>8 DEF ReferenceMissing, ConfirmedFailed, StatusUnresolved, Reconcilable, Hears, InFlight
<1>9. ASSUME NEW r \in Refunds, ConfirmedRefunded(r) PROVE RefundMoves(r)
  BY <1>9 DEF ConfirmedRefunded, Reconcilable, PaysBack
<1> QED
  BY <1>1, <1>2, <1>3, <1>4, <1>5, <1>7, <1>8, <1>9 DEF RefundStep

-----------------------------------------------------------------------------
(* Steps that settle no attempt.                                           *)

\* Whatever leaves the purchases, tickets and refunds alone keeps the invariant.
LEMMA RestKeeps ==
  ASSUME TypeOK, PurchaseInv, PurchasesStay, UNCHANGED <<ticket, refund, eventStatus, cancelJob>>,
         Captures', \A a \in Attempts : Captured(a)' <=> Captured(a),
         ReservationsEnd \/ eventStatus = "PUBLISHED"
  PROVE  PurchaseInv'
<1>1. Purchases'
  BY DEF PurchaseInv, Purchases, PurchasesStay, TypeOK, Bought
<1>2. RefundRows' /\ OneRefundAtProvider'
  BY RefundType DEF PurchaseInv, RefundRows, OneRefundAtProvider, PurchasesStay
<1>3. CapturesAnswered'
  BY DEF PurchaseInv, CapturesAnswered, PurchasesStay
<1>4. InsideExclusive'
  BY DEF PurchaseInv, InsideExclusive, PurchasesStay, Bought, Tickets, TicketsOf
<1>5. RefundFollowsProvider'
  BY DEF PurchaseInv, RefundFollowsProvider, PurchasesStay, Bought
<1>6. CancelledEvents'
  BY DEF PurchaseInv, CancelledEvents, PurchasesStay, ReservationsEnd, HoldsSold, Bought
<1> QED
  BY <1>1, <1>2, <1>3, <1>4, <1>5, <1>6 DEF PurchaseInv

LEMMA PaymentsStay ==
  ASSUME Captures, UNCHANGED <<paymentVars, gateway, bankTran>>
  PROVE  Captures' /\ \A a \in Attempts : Captured(a)' <=> Captured(a)
  BY DEF Captures, Captured, paymentVars

LEMMA OrderKeeps == ASSUME TypeOK, PurchaseInv, OrderStep PROVE PurchaseInv'
  BY OrderStepMoves, PaymentsStay, RestKeeps DEF OtherRowsStay, PurchaseInv

LEMMA CheckoutKeeps == ASSUME TypeOK, PurchaseInv, CheckoutMoves PROVE PurchaseInv'
<1>1. \A a \in Attempts : Captured(a)' <=> Captured(a)
  BY DEF CheckoutMoves, Captured
<1>2. \A a \in Attempts : Captured(a) => gateway'[a] = "captured" /\ bankTran'[a] = bankTran[a]
  BY DEF CheckoutMoves, PurchaseInv, Captures, Captured
<1>3. Captures'
  <2>1. \A a \in Attempts : attempt'[a] = "SUCCEEDED" => gateway'[a] = "captured"
    BY DEF CheckoutMoves, PurchaseInv, Captures
  <2>2. \A a \in Attempts : replayOf'[a] # NoAttempt => Captured(replayOf[a])'
    BY <1>1 DEF CheckoutMoves, PurchaseInv, Captures, TypeOK
  <2>3. \A a \in Attempts : attempt'[a] # "SUCCEEDED" => replayOf'[a] = NoAttempt
    BY DEF CheckoutMoves, PurchaseInv, Captures
  <2> QED
    BY <1>1, <1>2, <2>1, <2>2, <2>3 DEF PurchaseInv, Captures
<1>4. PurchasesStay /\ ReservationsEnd /\ UNCHANGED <<ticket, refund, eventStatus, cancelJob>>
  BY DEF CheckoutMoves, PurchasesStay, ReservationsEnd, HoldsReserved, orderVars
<1> QED
  BY <1>1, <1>3, <1>4, RestKeeps

-----------------------------------------------------------------------------
(* Settling an attempt.                                                    *)

\* What was captured stays captured.
LEMMA SettlingCaptures ==
  ASSUME TypeOK, PurchaseInv, NEW a \in Attempts, FulfilSettles(a), Replays(a) \/ SameCapture(a) = {},
         Replays(a) \/ UNCHANGED replayOf
  PROVE  /\ Captures'
         /\ ~Captured(a) /\ (Captured(a)' <=> ~Replays(a))
         /\ \A b \in Attempts \ {a} : Captured(b)' <=> Captured(b)
         /\ \A r \in RefundsOf(a) : refund[r] = "NONE"
         /\ \A o \in Orders : fulfilledBy[o] # a
<1> USE DEF PurchaseInv, FulfilSettles
<1>1. ~Captured(a) /\ replayOf[a] = NoAttempt
  BY DEF Captured, Captures
<1>2. \A b \in Attempts \ {a} : attempt'[b] = attempt[b] /\ replayOf'[b] = replayOf[b]
  BY DEF Replays, TypeOK
<1>3. \A b \in Attempts \ {a} : Captured(b)' <=> Captured(b)
  BY <1>2 DEF Captured
<1>4. attempt'[a] = "SUCCEEDED"
  BY DEF TypeOK
<1>5. ASSUME Replays(a)
      PROVE  \E b \in Attempts \ {a} : Captured(b) /\ replayOf'[a] = b
  <2>1. PICK b \in Attempts : Captured(b) /\ replayOf' = [replayOf EXCEPT ![a] = b]
    BY <1>5 DEF Replays, SameCapture
  <2> QED
    BY <1>1, <2>1 DEF TypeOK
<1>6. Captured(a)' <=> ~Replays(a)
  BY <1>1, <1>4, <1>5, NoAttemptAssumption DEF Captured
<1>7. \A b \in Attempts : replayOf'[b] # NoAttempt => replayOf'[b] \in Attempts \ {a} /\ Captured(replayOf[b])'
  <2>1. ASSUME NEW b \in Attempts \ {a}, replayOf[b] # NoAttempt
        PROVE  replayOf[b] \in Attempts \ {a} /\ Captured(replayOf[b])
    BY <1>1, <2>1 DEF Captures, TypeOK
  <2> QED
    BY <1>1, <1>2, <1>3, <1>5, <2>1
<1>8. ASSUME NEW b \in Attempts, NEW c \in Attempts, Captured(b)', Captured(c)', bankTran[b] = bankTran[c]
      PROVE  b = c
  BY <1>3, <1>6, <1>8 DEF Captures, SameCapture
<1>9. Captures'
  BY <1>2, <1>4, <1>7, <1>8 DEF Captures
<1>10. \A r \in RefundsOf(a) : refund[r] = "NONE"
  BY <1>1 DEF RefundRows, RefundsOf, Refunds
<1>11. \A o \in Orders : fulfilledBy[o] # a
  BY <1>1, NoAttemptAssumption DEF Purchases
<1> QED
  BY <1>1, <1>3, <1>6, <1>9, <1>10, <1>11

LEMMA ReplayKeeps ==
  ASSUME TypeOK, PurchaseInv, NEW a \in Attempts, FulfilSettles(a), Replays(a)
  PROVE  PurchaseInv'
<1>1. Captures' /\ \A b \in Attempts : Captured(b)' <=> Captured(b)
  BY SettlingCaptures
<1>2. PurchasesStay /\ ReservationsEnd
  BY DEF Replays, PurchasesStay, ReservationsEnd, HoldsReserved, orderVars
<1> QED
  BY <1>1, <1>2, RestKeeps DEF FulfilSettles, Replays

LEMMA RepayKeeps ==
  ASSUME TypeOK, PurchaseInv, NEW a \in Attempts, FulfilSettles(a), Repays(a), ~Replays(a)
  PROVE  PurchaseInv'
<1> USE DEF PurchaseInv
<1>1. /\ Captures' /\ Captured(a)'
      /\ \A b \in Attempts : Captured(b) => Captured(b)'
      /\ \A b \in Attempts \ {a} : Captured(b)' <=> Captured(b)
      /\ \A r \in RefundsOf(a) : refund[r] = "NONE"
      /\ \A o \in Orders : fulfilledBy[o] # a
  BY SettlingCaptures DEF Repays
<1>2. PICK reason \in RefundReason : EnsureCaptureRefund(a[1], a, reason)
  BY DEF Repays
<1>3. /\ \A r \in Refunds : refund'[r] # refund[r] => r \in RefundsOf(a) /\ refund'[r] = "APPROVED"
      /\ \E r \in RefundsOf(a) : refund'[r] \notin {"NONE", "REJECTED"}
      /\ \A t \in Tickets : ticket'[t] # ticket[t] =>
           ticket[t] \in {"ACTIVE", "CHECKED_IN"} /\ ticket'[t] = "VOIDED"
  BY <1>2, AttemptType, EnsureCaptureRefundMoves
<1>4. PurchasesStay /\ UNCHANGED <<eventStatus, cancelJob>> /\ ReservationsEnd
  BY DEF Repays, FulfilSettles
<1>5. ASSUME NEW b \in Attempts, b # a, NEW r \in RefundsOf(b) PROVE refund'[r] = refund[r]
  BY <1>3, <1>5 DEF RefundsOf, Refunds
<1>6. Purchases'
  <2>1. ASSUME NEW o \in Orders, fulfilledBy[o] # NoAttempt PROVE Captured(fulfilledBy[o])'
    BY <1>1, <1>4, <2>1 DEF Purchases, PurchasesStay, TypeOK
  <2> QED
    BY <1>3, <1>4, <2>1 DEF Purchases, PurchasesStay, Bought
<1>7. RefundRows'
  BY <1>1, <1>3, <1>4, RefundType DEF RefundRows, PurchasesStay, RefundsOf, Refunds
<1>8. CapturesAnswered'
  <2>1. ASSUME NEW b \in Attempts, b # a, Captured(b)'
        PROVE  fulfilledBy'[b[1]] = b \/ \E r \in RefundsOf(b) : refund'[r] \notin {"NONE", "REJECTED"}
    BY <1>1, <1>4, <1>5, <2>1 DEF CapturesAnswered, PurchasesStay
  <2> QED
    BY <1>3, <2>1 DEF CapturesAnswered
<1>9. OneRefundAtProvider'
  BY <1>3, <1>5 DEF OneRefundAtProvider, InFlight, RefundsOf, Refunds
<1>10. ASSUME NEW o \in Orders, fulfilledBy[o] # NoAttempt
       PROVE  \A r \in RefundsOf(fulfilledBy[o]) : refund'[r] = refund[r]
  BY <1>1, <1>5, <1>10 DEF TypeOK
<1>11. InsideExclusive'
  BY <1>3, <1>4, <1>10 DEF InsideExclusive, PurchasesStay, Bought, Purchases, Tickets, TicketsOf
<1>12. RefundFollowsProvider'
  BY <1>3, <1>4, <1>10 DEF RefundFollowsProvider, PurchasesStay, Bought, Tickets, TicketsOf
<1>13. CancelledEvents'
  <2>1. HoldsSold' \subseteq HoldsSold /\ \A o \in HoldsSold : fulfilledBy[o] # NoAttempt
    BY <1>4 DEF HoldsSold, PurchasesStay, Bought, Purchases
  <2> QED
    BY <1>3, <1>4, <1>10, <2>1 DEF CancelledEvents, PurchasesStay, ReservationsEnd, HoldsSold
<1> QED
  BY <1>1, <1>6, <1>7, <1>8, <1>9, <1>11, <1>12, <1>13

LEMMA BuyKeeps ==
  ASSUME TypeOK, PurchaseInv, NEW a \in Attempts, FulfilSettles(a), Buys(a), ~Replays(a)
  PROVE  PurchaseInv'
<1> USE DEF PurchaseInv
<1> DEFINE o == a[1]
<1>1. /\ Captures' /\ Captured(a)'
      /\ \A b \in Attempts : Captured(b) => Captured(b)'
      /\ \A b \in Attempts \ {a} : Captured(b)' <=> Captured(b)
      /\ \A r \in RefundsOf(a) : refund[r] = "NONE"
  BY SettlingCaptures DEF Buys
<1>2. o \in Orders /\ fulfilledBy[o] = NoAttempt /\ a # NoAttempt
  BY AttemptType, NoAttemptAssumption DEF Buys
<1>3. /\ fulfilledBy'[o] = a /\ order'[o] = "PAID"
      /\ \A p \in Orders \ {o} : fulfilledBy'[p] = fulfilledBy[p] /\ order'[p] = order[p]
  BY <1>2 DEF Buys, TypeOK
<1>4. \A t \in Tickets : IF t[1] = o THEN ticket[t] = "NONE" /\ ticket'[t] = "ACTIVE"
                                     ELSE ticket'[t] = ticket[t]
  BY <1>2 DEF Buys, MoveTickets, Purchases
<1>5. eventStatus = "PUBLISHED" /\ UNCHANGED <<refund, eventStatus, cancelJob>>
  BY DEF Buys, FulfilSettles
<1>6. \A t \in Tickets : t[1] \in Orders
  BY DEF Tickets, TicketsOf
<1>7. Purchases'
  <2>1. ASSUME NEW p \in Orders, fulfilledBy'[p] # NoAttempt
        PROVE  fulfilledBy'[p][1] = p /\ Captured(fulfilledBy[p])'
    BY <1>1, <1>2, <1>3, <2>1 DEF Purchases, TypeOK
  <2>2. \A p \in Orders : order'[p] \in Bought <=> fulfilledBy'[p] # NoAttempt
    BY <1>2, <1>3 DEF Purchases, Bought
  <2>3. \A t \in Tickets : ticket'[t] # "NONE" <=> fulfilledBy'[t[1]] # NoAttempt
    BY <1>2, <1>3, <1>4, <1>6 DEF Purchases
  <2> QED
    BY <2>1, <2>2, <2>3 DEF Purchases
<1>8. RefundRows'
  <2>1. ASSUME NEW r \in Refunds, refund[r] = "REQUESTED" PROVE fulfilledBy'[r[1][1]] = r[1]
    BY <1>2, <1>3, <2>1, RefundType, NoAttemptAssumption DEF RefundRows
  <2> QED
    BY <1>1, <1>5, <2>1, RefundType DEF RefundRows
<1>9. CapturesAnswered'
  <2>1. ASSUME NEW b \in Attempts \ {a}, Captured(b)'
        PROVE  fulfilledBy'[b[1]] = b \/ \E r \in RefundsOf(b) : refund'[r] \notin {"NONE", "REJECTED"}
    BY <1>1, <1>2, <1>3, <1>5, <2>1, AttemptType, NoAttemptAssumption DEF CapturesAnswered
  <2> QED
    BY <1>3, <2>1 DEF CapturesAnswered
<1>10. OneRefundAtProvider'
  BY <1>5 DEF OneRefundAtProvider
<1>11. InsideExclusive'
  BY <1>3, <1>4, <1>5, <1>6 DEF InsideExclusive
<1>12. RefundFollowsProvider'
  <2>1. \A t \in TicketsOf(o) : t \in Tickets /\ t[1] = o
    BY <1>2 DEF Tickets, TicketsOf
  <2>2. \A p \in Orders \ {o} : \A t \in TicketsOf(p) : t \in Tickets /\ t[1] # o
    BY DEF Tickets, TicketsOf
  <2> QED
    BY <1>1, <1>2, <1>3, <1>4, <1>5, <2>1, <2>2 DEF RefundFollowsProvider
<1>13. CancelledEvents'
  BY <1>5 DEF CancelledEvents
<1> QED
  BY <1>1, <1>7, <1>8, <1>9, <1>10, <1>11, <1>12, <1>13

LEMMA PaymentKeeps == ASSUME TypeOK, PurchaseInv, PaymentStep PROVE PurchaseInv'
  BY PaymentStepMoves, FulfilMoves, CheckoutKeeps, ReplayKeeps, RepayKeeps, BuyKeeps

-----------------------------------------------------------------------------
(* Refunds.                                                                *)

\* A refund that moves while orders and tickets stay.
LEMMA RefundAloneKeeps ==
  ASSUME TypeOK, PurchaseInv, NEW r \in Refunds, RefundMoves(r), OrdersStay,
         NEW s \in RefundStatus, refund' = [refund EXCEPT ![r] = s],
         s # "NONE" /\ Captured(r[1]),
         s = "REQUESTED" => fulfilledBy[r[1][1]] = r[1],
         s = "REJECTED" => fulfilledBy[r[1][1]] = r[1],
         s \in InFlight => \A q \in RefundsOf(r[1]) \ {r} : refund[q] \notin InFlight \cup {"SUCCEEDED"},
         s = "SUCCEEDED" <=> refund[r] = "SUCCEEDED",
         \/ refund[r] \notin {"NONE", "REJECTED"}
         \/ \A t \in TicketsOf(r[1][1]) : ticket[t] # "CHECKED_IN",
         refund[r] \in (LiveRefund \ {"REQUESTED"}) \cup {"FAILED"} =>
           s \in (LiveRefund \ {"REQUESTED"}) \cup {"FAILED"}
  PROVE  PurchaseInv'
<1> USE DEF PurchaseInv
<1>1. Captures' /\ \A a \in Attempts : Captured(a)' <=> Captured(a)
  BY PaymentsStay DEF RefundMoves
<1>2. UNCHANGED <<order, released, ticket, fulfilledBy, eventStatus, cancelJob>>
  BY DEF RefundMoves, OrdersStay
<1>3. refund'[r] = s /\ \A q \in Refunds \ {r} : refund'[q] = refund[q]
  BY DEF TypeOK
<1>4. Purchases'
  BY <1>1, <1>2 DEF Purchases, TypeOK
<1>5. RefundRows'
  BY <1>1, <1>2, <1>3, RefundType DEF RefundRows
<1>6. CapturesAnswered'
  BY <1>1, <1>2, <1>3 DEF CapturesAnswered, RefundsOf, Refunds
<1>7. OneRefundAtProvider'
  BY <1>3 DEF OneRefundAtProvider, InFlight, RefundsOf, Refunds
<1>8. InsideExclusive'
  <2>1. ASSUME NEW t \in Tickets, ticket[t] = "CHECKED_IN"
        PROVE  fulfilledBy[t[1]] \in Attempts /\ fulfilledBy[t[1]][1] = t[1] /\ t \in TicketsOf(t[1])
    BY <2>1 DEF Purchases, Tickets, TicketsOf, TypeOK
  <2>2. ASSUME NEW t \in Tickets, ticket[t] = "CHECKED_IN" PROVE r \notin RefundsOf(fulfilledBy[t[1]])
    BY <2>1, <2>2 DEF InsideExclusive, RefundsOf
  <2> QED
    BY <1>2, <1>3, <2>1, <2>2 DEF InsideExclusive, RefundsOf, Refunds
<1>9. RefundFollowsProvider'
  BY <1>2, <1>3 DEF RefundFollowsProvider, RefundsOf, Refunds, TypeOK
<1>10. CancelledEvents'
  BY <1>2, <1>3 DEF CancelledEvents, HoldsReserved, HoldsSold, RefundsOf, Refunds, Purchases, TypeOK
<1> QED
  BY <1>1, <1>4, <1>5, <1>6, <1>7, <1>8, <1>9, <1>10

LEMMA ApproveKeeps ==
  ASSUME TypeOK, PurchaseInv, NEW r \in Refunds, RefundMoves(r), Approves(r)
  PROVE  PurchaseInv'
<1> USE DEF PurchaseInv
<1>1. Captures' /\ \A a \in Attempts : Captured(a)' <=> Captured(a)
  BY PaymentsStay DEF RefundMoves
<1>2. UNCHANGED <<order, released, fulfilledBy, eventStatus, cancelJob>>
  BY DEF RefundMoves, Approves
<1>3. /\ refund[r] = "REQUESTED" /\ refund'[r] = "APPROVED"
      /\ \A q \in Refunds \ {r} : refund'[q] = refund[q]
  BY DEF Approves, TypeOK
<1>4. \A t \in Tickets : ticket'[t] # ticket[t] => ticket[t] = "ACTIVE" /\ ticket'[t] = "VOIDED"
  BY DEF Approves, MoveTickets
<1>5. Purchases'
  BY <1>1, <1>2, <1>4 DEF Purchases, TypeOK
<1>6. RefundRows' /\ CapturesAnswered'
  BY <1>1, <1>2, <1>3, RefundType DEF RefundRows, CapturesAnswered, RefundsOf, Refunds
<1>7. OneRefundAtProvider'
  BY <1>3 DEF OneRefundAtProvider, InFlight, RefundsOf, Refunds
<1>8. InsideExclusive'
  BY <1>2, <1>3, <1>4 DEF InsideExclusive, RefundsOf, Refunds, Purchases, Tickets, TicketsOf, TypeOK
<1>9. RefundFollowsProvider'
  <2>1. ASSUME NEW p \in Orders, fulfilledBy[p] # NoAttempt, NEW q \in RefundsOf(fulfilledBy[p])
        PROVE  refund'[q] = "SUCCEEDED" <=> refund[q] = "SUCCEEDED"
    BY <1>3, <2>1 DEF RefundsOf, Refunds, TypeOK
  <2>2. \A p \in Orders : \A t \in TicketsOf(p) : ticket'[t] = "REFUNDED" <=> ticket[t] = "REFUNDED"
    BY <1>4 DEF Tickets, TicketsOf
  <2> QED
    BY <1>2, <2>1, <2>2 DEF RefundFollowsProvider
<1>10. CancelledEvents'
  <2>1. HoldsSold' = HoldsSold /\ HoldsReserved' = HoldsReserved
    BY <1>2 DEF HoldsSold, HoldsReserved
  <2>2. ASSUME NEW p \in HoldsSold, NEW q \in RefundsOf(fulfilledBy[p]),
               refund[q] \in (LiveRefund \ {"REQUESTED"}) \cup {"FAILED"}
        PROVE  refund'[q] \in (LiveRefund \ {"REQUESTED"}) \cup {"FAILED"}
    BY <1>3, <2>2 DEF HoldsSold, Purchases, Bought, TypeOK, RefundsOf, Refunds, LiveRefund
  <2> QED
    BY <1>2, <1>4, <2>1, <2>2 DEF CancelledEvents
<1> QED
  BY <1>1, <1>5, <1>6, <1>7, <1>8, <1>9, <1>10

LEMMA PayBackKeeps ==
  ASSUME TypeOK, PurchaseInv, NEW r \in Refunds, RefundMoves(r), PaysBack(r)
  PROVE  PurchaseInv'
<1> USE DEF PurchaseInv
<1> DEFINE o == r[1][1]
           canonical == fulfilledBy[o] = r[1] /\ order[o] = "PAID"
<1>1. Captures' /\ \A a \in Attempts : Captured(a)' <=> Captured(a)
  BY PaymentsStay DEF RefundMoves
<1>2. UNCHANGED <<released, fulfilledBy, eventStatus, cancelJob>> /\ o \in Orders /\ r[1] \in Attempts
  BY RefundType DEF RefundMoves, PaysBack
<1>3. /\ refund[r] \in InFlight /\ refund'[r] = "SUCCEEDED"
      /\ \A q \in Refunds \ {r} : refund'[q] = refund[q]
      /\ \A q \in RefundsOf(r[1]) \ {r} : refund[q] # "SUCCEEDED"
      /\ r \in RefundsOf(r[1])
  BY DEF PaysBack, TypeOK, Refunds, RefundsOf
<1>4. /\ \A p \in Orders : order'[p] = IF canonical /\ p = o THEN "REFUNDED" ELSE order[p]
      /\ \A t \in Tickets : ticket'[t] = IF canonical /\ t[1] = o THEN "REFUNDED" ELSE ticket[t]
  BY <1>2 DEF PaysBack, MoveTickets, TypeOK
<1>5. Purchases'
  <2>1. canonical => fulfilledBy[o] # NoAttempt
    BY <1>2, NoAttemptAssumption
  <2> QED
    BY <1>1, <1>2, <1>4, <2>1 DEF Purchases, Bought, TypeOK, Tickets, TicketsOf
<1>6. RefundRows' /\ CapturesAnswered'
  BY <1>1, <1>2, <1>3, RefundType DEF RefundRows, CapturesAnswered, RefundsOf, Refunds, InFlight
<1>7. OneRefundAtProvider'
  BY <1>3 DEF OneRefundAtProvider, InFlight, RefundsOf, Refunds
<1>8. \A p \in Orders : fulfilledBy[p] = r[1] => p = o
  BY <1>2, NoAttemptAssumption DEF Purchases
<1>9. InsideExclusive'
  BY <1>2, <1>3, <1>4, <1>8
  DEF InsideExclusive, InFlight, RefundsOf, Refunds, Purchases, Tickets, TicketsOf, TypeOK
<1>10. fulfilledBy[o] = r[1] => canonical
  BY <1>2, <1>3, NoAttemptAssumption DEF RefundFollowsProvider, Purchases, Bought, RefundsOf, InFlight
<1>11. RefundFollowsProvider'
  <2>1. ASSUME NEW p \in Orders, fulfilledBy[p] # NoAttempt, fulfilledBy[p] # r[1]
        PROVE  \A q \in RefundsOf(fulfilledBy[p]) : refund'[q] = refund[q]
    BY <1>3, <2>1 DEF RefundsOf, Refunds, TypeOK
  <2>2. ASSUME NEW p \in Orders, fulfilledBy[p] # r[1]
        PROVE  /\ order'[p] = "REFUNDED" <=> fulfilledBy'[p] # NoAttempt /\
                    \E q \in RefundsOf(fulfilledBy'[p]) : refund'[q] = "SUCCEEDED"
               /\ \A t \in TicketsOf(p) : ticket'[t] = "REFUNDED" <=> order'[p] = "REFUNDED"
    BY <1>2, <1>4, <2>1, <2>2 DEF RefundFollowsProvider, Tickets, TicketsOf
  <2>3. ASSUME NEW p \in Orders, fulfilledBy[p] = r[1]
        PROVE  /\ order'[p] = "REFUNDED" <=> fulfilledBy'[p] # NoAttempt /\
                    \E q \in RefundsOf(fulfilledBy'[p]) : refund'[q] = "SUCCEEDED"
               /\ \A t \in TicketsOf(p) : ticket'[t] = "REFUNDED" <=> order'[p] = "REFUNDED"
    BY <1>2, <1>3, <1>4, <1>8, <1>10, <2>3, NoAttemptAssumption DEF Tickets, TicketsOf
  <2> QED
    BY <2>2, <2>3 DEF RefundFollowsProvider
<1>12. CancelledEvents'
  <2>1. HoldsSold' \subseteq HoldsSold /\ HoldsReserved' \subseteq HoldsReserved
    BY <1>2, <1>4 DEF HoldsSold, HoldsReserved
  <2>2. ASSUME NEW p \in HoldsSold, NEW q \in RefundsOf(fulfilledBy[p]),
               refund[q] \in (LiveRefund \ {"REQUESTED"}) \cup {"FAILED"}
        PROVE  refund'[q] \in (LiveRefund \ {"REQUESTED"}) \cup {"FAILED"}
    BY <1>3, <2>2 DEF HoldsSold, Purchases, Bought, TypeOK, RefundsOf, Refunds, LiveRefund
  <2> QED
    BY <1>2, <1>4, <2>1, <2>2 DEF CancelledEvents
<1> QED
  BY <1>1, <1>5, <1>6, <1>7, <1>9, <1>11, <1>12

LEMMA RefundKeeps == ASSUME TypeOK, PurchaseInv, RefundStep PROVE PurchaseInv'
<1> USE DEF PurchaseInv
<1>1. PICK r \in Refunds : RefundMoves(r)
  BY RefundStepMoves
<1>2. CASE Asks(r)
  BY <1>1, <1>2, RefundAloneKeeps DEF Asks, RefundStatus, InFlight, LiveRefund
<1>3. CASE Rejects(r)
  BY <1>1, <1>3, RefundAloneKeeps DEF Rejects, RefundRows, RefundStatus, InFlight, LiveRefund
<1>4. CASE Sends(r)
  <2>1. \A q \in RefundsOf(r[1]) \ {r} : refund[q] \notin InFlight \cup {"SUCCEEDED"}
    BY <1>4 DEF Sends, Live, LiveRefund, InFlight
  <2> QED
    BY <1>1, <1>4, <2>1, RefundAloneKeeps DEF Sends, RefundRows, RefundStatus, InFlight, LiveRefund
<1>5. CASE Hears(r)
  <2>1. PICK s \in (IF refund[r] = "FAILED" THEN {"APPROVED"} ELSE InFlight \cup {"FAILED"}) :
          refund' = [refund EXCEPT ![r] = s]
    BY <1>5 DEF Hears
  <2>2. s \in InFlight => \A q \in RefundsOf(r[1]) \ {r} : refund[q] \notin InFlight \cup {"SUCCEEDED"}
    BY <1>5, <2>1, RefundType DEF Hears, OneRefundAtProvider, RefundsOf, Refunds, InFlight
  <2> QED
    BY <1>1, <1>5, <2>1, <2>2, RefundAloneKeeps DEF Hears, RefundRows, RefundStatus, InFlight, LiveRefund
<1> QED
  BY <1>1, <1>2, <1>3, <1>4, <1>5, ApproveKeeps, PayBackKeeps DEF RefundMoves

-----------------------------------------------------------------------------
(* The event, its cancellation job and the door.                           *)

\* Tickets that are voided while orders and refunds stay.
LEMMA CancelKeeps == ASSUME TypeOK, PurchaseInv, CancelEvent PROVE PurchaseInv'
<1> USE DEF PurchaseInv
<1>1. /\ UNCHANGED <<orderVars, paymentVars, refund, gateway, bankTran>>
      /\ eventStatus = "PUBLISHED" /\ eventStatus' = "CANCELLED" /\ cancelJob' = "due"
  BY DEF CancelEvent, refundVars, gatewayVars
<1>2. Captures' /\ \A a \in Attempts : Captured(a)' <=> Captured(a)
  BY <1>1, PaymentsStay
<1>3. \A t \in Tickets : IF ticket[t] \in {"ACTIVE", "CHECKED_IN"} THEN ticket'[t] = "VOIDED"
                                                                  ELSE ticket'[t] = ticket[t]
  BY DEF CancelEvent, MoveTickets, Tickets, TicketsOf
<1>4. Purchases'
  BY <1>1, <1>2, <1>3 DEF Purchases, orderVars, TypeOK
<1>5. RefundRows' /\ CapturesAnswered' /\ OneRefundAtProvider'
  BY <1>1, <1>2, RefundType DEF RefundRows, CapturesAnswered, OneRefundAtProvider, orderVars
<1>6. InsideExclusive' /\ CancelledEvents'
  BY <1>1, <1>3 DEF InsideExclusive, CancelledEvents
<1>7. RefundFollowsProvider'
  BY <1>1, <1>3 DEF RefundFollowsProvider, orderVars, Tickets, TicketsOf
<1> QED
  BY <1>2, <1>4, <1>5, <1>6, <1>7

LEMMA DispatchKeeps == ASSUME TypeOK, PurchaseInv, NEW o \in Orders, DispatchRefund(o) PROVE PurchaseInv'
<1> USE DEF PurchaseInv
<1> DEFINE a == fulfilledBy[o]
<1>1. /\ UNCHANGED <<orderVars, paymentVars, gateway, bankTran, eventStatus, cancelJob>>
      /\ order[o] = "PAID" /\ a \in Attempts /\ a # NoAttempt /\ a[1] = o /\ Captured(a)
  BY DEF DispatchRefund, gatewayVars, TypeOK, Purchases
<1>2. Captures' /\ \A b \in Attempts : Captured(b)' <=> Captured(b)
  BY <1>1, PaymentsStay
<1>3. EnsureCaptureRefund(o, a, "EVENT_CANCELLATION") /\ "EVENT_CANCELLATION" \in RefundReason
  BY DEF DispatchRefund, RefundReason
<1>4. /\ \A r \in Refunds : refund'[r] # refund[r] =>
           r \in RefundsOf(a) /\ refund[r] \in {"NONE", "REQUESTED", "REJECTED"} /\ refund'[r] = "APPROVED"
      /\ \A t \in Tickets : ticket'[t] # ticket[t] =>
           ticket[t] \in {"ACTIVE", "CHECKED_IN"} /\ ticket'[t] = "VOIDED"
      /\ refund' = refund \/ \A t \in TicketsOf(o) : ticket'[t] \notin {"ACTIVE", "CHECKED_IN"}
  BY <1>1, <1>3, EnsureCaptureRefundMoves
<1>5. \A b \in Attempts : RefundsOf(b) \subseteq Refunds
  BY DEF RefundsOf, Refunds
<1>6. Purchases'
  BY <1>1, <1>2, <1>4 DEF Purchases, orderVars, TypeOK
<1>7. RefundRows'
  BY <1>1, <1>2, <1>4, RefundType DEF RefundRows, orderVars, RefundsOf
<1>8. CapturesAnswered' /\ OneRefundAtProvider'
  BY <1>1, <1>2, <1>4, <1>5 DEF CapturesAnswered, OneRefundAtProvider, orderVars, InFlight
<1>9. InsideExclusive'
  <2>1. ASSUME NEW t \in Tickets, ticket'[t] = "CHECKED_IN"
        PROVE  /\ ticket[t] = "CHECKED_IN" /\ t[1] \in Orders /\ t \in TicketsOf(t[1])
               /\ fulfilledBy[t[1]] \in Attempts /\ fulfilledBy[t[1]][1] = t[1]
    BY <1>4, <2>1 DEF Tickets, TicketsOf, Purchases, TypeOK
  <2>2. ASSUME NEW t \in Tickets, ticket'[t] = "CHECKED_IN", NEW r \in RefundsOf(fulfilledBy[t[1]])
        PROVE  refund'[r] = refund[r]
    BY <1>1, <1>4, <1>5, <2>1, <2>2 DEF RefundsOf
  <2> QED
    BY <1>1, <2>1, <2>2 DEF InsideExclusive, orderVars
<1>10. RefundFollowsProvider'
  <2>1. ASSUME NEW p \in Orders, fulfilledBy[p] # NoAttempt, NEW r \in RefundsOf(fulfilledBy[p])
        PROVE  refund'[r] = "SUCCEEDED" <=> refund[r] = "SUCCEEDED"
    BY <1>4, <1>5, <2>1 DEF TypeOK
  <2>2. \A p \in Orders : \A t \in TicketsOf(p) : ticket'[t] = "REFUNDED" <=> ticket[t] = "REFUNDED"
    BY <1>4 DEF Tickets, TicketsOf
  <2> QED
    BY <1>1, <2>1, <2>2 DEF RefundFollowsProvider, orderVars
<1>11. CancelledEvents'
  <2>1. HoldsSold' = HoldsSold /\ HoldsReserved' = HoldsReserved
    BY <1>1 DEF HoldsSold, HoldsReserved, orderVars
  <2>2. ASSUME NEW p \in HoldsSold, NEW q \in RefundsOf(fulfilledBy[p]),
               refund[q] \in (LiveRefund \ {"REQUESTED"}) \cup {"FAILED"}
        PROVE  refund'[q] \in (LiveRefund \ {"REQUESTED"}) \cup {"FAILED"}
    BY <1>4, <1>5, <2>2 DEF HoldsSold, Purchases, Bought, TypeOK, LiveRefund
  <2> QED
    BY <1>1, <1>4, <2>1, <2>2 DEF CancelledEvents, orderVars
<1> QED
  BY <1>2, <1>6, <1>7, <1>8, <1>9, <1>10, <1>11

\* The job succeeds only when it finds no pending capture.
LEMMA FinishKeeps == ASSUME TypeOK, PurchaseInv, FinishCancellation PROVE PurchaseInv'
<1> USE DEF PurchaseInv
<1>1. /\ UNCHANGED <<orderVars, paymentVars, ticket, refund, gateway, bankTran, eventStatus>>
      /\ cancelJob = "due" /\ cancelJob' = "done" /\ HoldsReserved = {} /\ PendingCaptures = {}
  BY DEF FinishCancellation, refundVars, gatewayVars, HoldsReserved
<1>2. Captures' /\ \A a \in Attempts : Captured(a)' <=> Captured(a)
  BY <1>1, PaymentsStay
<1>3. Purchases' /\ RefundRows' /\ CapturesAnswered'
  BY <1>1, <1>2, RefundType DEF Purchases, RefundRows, CapturesAnswered, orderVars, TypeOK
<1>4. OneRefundAtProvider' /\ InsideExclusive' /\ RefundFollowsProvider'
  BY <1>1 DEF OneRefundAtProvider, InsideExclusive, RefundFollowsProvider, orderVars
<1>5. ASSUME NEW o \in HoldsSold
      PROVE  \E r \in RefundsOf(fulfilledBy[o]) : refund[r] \in (LiveRefund \ {"REQUESTED"}) \cup {"FAILED"}
  <2>1. o \in Orders /\ order[o] = "PAID" /\ fulfilledBy[o] \in Attempts /\ fulfilledBy[o] # NoAttempt
    BY <1>5 DEF HoldsSold, Purchases, Bought, TypeOK
  <2>2. PICK r \in RefundsOf(fulfilledBy[o]) : refund[r] \notin {"NONE", "REQUESTED", "REJECTED"}
    BY <1>1, <2>1 DEF PendingCaptures
  <2> QED
    BY <2>1, <2>2 DEF RefundsOf, Refunds, TypeOK, RefundStatus, LiveRefund
<1>6. CancelledEvents'
  BY <1>1, <1>5 DEF CancelledEvents, HoldsReserved, HoldsSold, orderVars
<1> QED
  BY <1>2, <1>3, <1>4, <1>6

LEMMA CheckInKeeps == ASSUME TypeOK, PurchaseInv, NEW t \in Tickets, CheckIn(t) PROVE PurchaseInv'
<1> USE DEF PurchaseInv
<1>1. /\ UNCHANGED <<orderVars, paymentVars, refund, gateway, bankTran, eventStatus, cancelJob>>
      /\ eventStatus = "PUBLISHED" /\ Admissible(t)
      /\ \A u \in Tickets : ticket'[u] = IF u = t THEN "CHECKED_IN" ELSE ticket[u]
  BY DEF CheckIn, CheckInOpen, refundVars, eventVars, gatewayVars, TypeOK
<1>2. Captures' /\ \A a \in Attempts : Captured(a)' <=> Captured(a)
  BY <1>1, PaymentsStay
<1>3. Purchases'
  BY <1>1, <1>2 DEF Purchases, Admissible, orderVars, TypeOK
<1>4. RefundRows' /\ CapturesAnswered' /\ OneRefundAtProvider'
  BY <1>1, <1>2, RefundType DEF RefundRows, CapturesAnswered, OneRefundAtProvider, orderVars
<1>5. InsideExclusive'
  BY <1>1 DEF InsideExclusive, Admissible, orderVars
<1>6. RefundFollowsProvider'
  BY <1>1 DEF RefundFollowsProvider, Admissible, orderVars, Tickets, TicketsOf
<1>7. CancelledEvents'
  BY <1>1 DEF CancelledEvents
<1> QED
  BY <1>2, <1>3, <1>4, <1>5, <1>6, <1>7

LEMMA EventKeeps == ASSUME TypeOK, PurchaseInv, EventStep PROVE PurchaseInv'
<1>1. ASSUME ListPendingCaptures \/ AbandonRun PROVE PurchaseInv'
  <2>1. PurchasesStay /\ ReservationsEnd /\ UNCHANGED <<paymentVars, ticket, refund, gateway, bankTran,
                                                       eventStatus, cancelJob>>
    BY <1>1 DEF ListPendingCaptures, AbandonRun, PurchasesStay, ReservationsEnd, HoldsReserved,
                orderVars, refundVars, gatewayVars
  <2> QED
    BY <2>1, PaymentsStay, RestKeeps DEF PurchaseInv
<1>2. ASSUME CompleteEvent PROVE PurchaseInv'
  <2>1. UNCHANGED <<orderVars, paymentVars, ticket, refund, gateway, bankTran, cancelJob>>
    BY <1>2 DEF CompleteEvent, refundVars, gatewayVars
  <2>2. eventStatus = "PUBLISHED" /\ eventStatus' = "COMPLETED"
    BY <1>2 DEF CompleteEvent
  <2>3. Captures' /\ \A a \in Attempts : Captured(a)' <=> Captured(a)
    BY <2>1, PaymentsStay DEF PurchaseInv
  <2>4. Purchases' /\ RefundRows' /\ CapturesAnswered'
    BY <2>1, <2>3, RefundType DEF PurchaseInv, Purchases, RefundRows, CapturesAnswered, orderVars, TypeOK
  <2>5. OneRefundAtProvider' /\ InsideExclusive' /\ RefundFollowsProvider' /\ CancelledEvents'
    BY <2>1, <2>2 DEF PurchaseInv, OneRefundAtProvider, InsideExclusive, RefundFollowsProvider,
                      CancelledEvents, orderVars
  <2> QED
    BY <2>3, <2>4, <2>5 DEF PurchaseInv
<1> QED
  BY <1>1, <1>2, CancelKeeps, DispatchKeeps, FinishKeeps, CheckInKeeps DEF EventStep

-----------------------------------------------------------------------------
(* The theorems.                                                           *)

LEMMA InitPurchases == Init => PurchaseInv
<1> SUFFICES ASSUME Init PROVE PurchaseInv
  OBVIOUS
<1>1. Captures
  BY DEF Init, Captures, Captured
<1>2. Purchases
  BY DEF Init, Purchases, Bought, Tickets, TicketsOf
<1>3. RefundRows /\ CapturesAnswered /\ OneRefundAtProvider
  BY DEF Init, RefundRows, CapturesAnswered, OneRefundAtProvider, Captured, InFlight, RefundsOf, Refunds
<1>4. InsideExclusive /\ RefundFollowsProvider
  BY DEF Init, InsideExclusive, RefundFollowsProvider, Tickets, TicketsOf
<1>5. CancelledEvents
  BY DEF Init, CancelledEvents
<1> QED
  BY <1>1, <1>2, <1>3, <1>4, <1>5 DEF PurchaseInv

LEMMA StepPurchases == TypeOK /\ PurchaseInv /\ [Next]_vars => PurchaseInv'
<1>1. ASSUME TypeOK, PurchaseInv, UNCHANGED vars PROVE PurchaseInv'
  <2>1. PurchasesStay /\ ReservationsEnd /\ UNCHANGED <<paymentVars, ticket, refund, gateway, bankTran,
                                                       eventStatus, cancelJob>>
    BY <1>1 DEF vars, PurchasesStay, ReservationsEnd, HoldsReserved, orderVars, refundVars, eventVars,
                gatewayVars
  <2> QED
    BY <1>1, <2>1, PaymentsStay, RestKeeps DEF PurchaseInv
<1> QED
  BY <1>1, OrderKeeps, PaymentKeeps, RefundKeeps, EventKeeps DEF Next

\* The rows of captures, purchases, refunds and tickets always agree.
THEOREM PurchaseInvariant == Spec => []PurchaseInv
  BY InitPurchases, StepPurchases, TypeCorrect, PTL DEF Spec

\* fulfillValidatedPayment and the refund services leave no capture unanswered.
THEOREM NoCaptureLost == Spec => []CaptureSettled
<1>1. PurchaseInv => CaptureSettled
  BY DEF PurchaseInv, Captures, CapturesAnswered, CaptureSettled, Captured
<1> QED
  BY <1>1, PurchaseInvariant, PTL

\* A paid order rests on a capture of its own, which no other attempt has spent.
THEOREM PurchasesAreBacked == Spec => []PurchaseBacked
<1>1. PurchaseInv => PurchaseBacked
  <2>1. \A o \in Orders : \A t \in TicketsOf(o) : t \in Tickets /\ t[1] = o
    BY DEF Tickets, TicketsOf
  <2> QED
    BY <2>1 DEF PurchaseInv, Captures, Purchases, PurchaseBacked, Captured, Bought
<1> QED
  BY <1>1, PurchaseInvariant, PTL

\* startRefund never sends a second refund of a capture to the provider, for any
\* number of workers and stale reads.
THEOREM RefundsSentOnce == Spec => []OneRefundAtProvider
  BY PurchaseInvariant, PTL DEF PurchaseInv

\* Orders and tickets are refunded exactly when the provider says so.
THEOREM RefundsFollowProvider == Spec => []RefundFollowsProvider
  BY PurchaseInvariant, PTL DEF PurchaseInv

\* A cancellation job that has succeeded left nothing to do, and nothing comes back.
THEOREM CancellationsComplete == Spec => []CancellationComplete
<1>1. PurchaseInv => CancellationComplete
  BY DEF PurchaseInv, CancelledEvents, CancellationComplete
<1> QED
  BY <1>1, PurchaseInvariant, PTL

-----------------------------------------------------------------------------
(* Approved refunds block the tickets, and what follows for the            *)
(* lifecycles.                                                             *)

Undecided == {"NONE", "REQUESTED", "REJECTED"}

\* A purchase's tickets exist, and are among the tickets.
LEMMA PurchasedTickets ==
  ASSUME TypeOK, Purchases, NEW o \in Orders, fulfilledBy[o] # NoAttempt, NEW t \in TicketsOf(o)
  PROVE  t \in Tickets /\ t[1] = o /\ ticket[t] \in TicketStatus \ {"NONE"}
  BY DEF TypeOK, Purchases, Tickets, TicketsOf

\* Steps that decide on no refund keep blocked what is blocked.
LEMMA UndecidedKeep ==
  ASSUME ApprovalBlocksEntry,
         \A o \in Orders : fulfilledBy'[o] # NoAttempt =>
           fulfilledBy'[o] = fulfilledBy[o] \/ \A r \in RefundsOf(fulfilledBy'[o]) : refund'[r] \in Undecided,
         \A o \in Orders : fulfilledBy[o] # NoAttempt =>
           \A r \in RefundsOf(fulfilledBy[o]) : refund[r] \in Undecided => refund'[r] \in Undecided,
         \A o \in Orders : \A t \in TicketsOf(o) :
           ticket'[t] = ticket[t] \/ ticket'[t] \in {"VOIDED", "REFUNDED"} \/ ticket[t] \notin {"VOIDED", "REFUNDED"}
  PROVE  ApprovalBlocksEntry'
  BY DEF ApprovalBlocksEntry, Undecided

\* Steps after which the refunds of p's purchase may have been decided on, and
\* its tickets are blocked.
LEMMA DecidedKeep ==
  ASSUME ApprovalBlocksEntry, UNCHANGED fulfilledBy, NEW p \in Orders,
         \A t \in TicketsOf(p) : ticket'[t] \in {"VOIDED", "REFUNDED"},
         \A o \in Orders \ {p} : fulfilledBy[o] # NoAttempt =>
           \A r \in RefundsOf(fulfilledBy[o]) : refund'[r] = refund[r],
         \A o \in Orders \ {p} : \A t \in TicketsOf(o) : ticket'[t] = ticket[t]
  PROVE  ApprovalBlocksEntry'
  BY DEF ApprovalBlocksEntry

TicketStep == \A t \in Tickets : ticket'[t] # ticket[t] => <<ticket[t], ticket'[t]>> \in TicketTransitions
RefundProgress == \A r \in Refunds : refund'[r] # refund[r] => <<refund[r], refund'[r]>> \in RefundTransitions
Blocks == ApprovalBlocksEntry' /\ TicketStep /\ RefundProgress

LEMMA OtherStepBlocks ==
  ASSUME ApprovalBlocksEntry, UNCHANGED <<fulfilledBy, ticket, refund>> PROVE Blocks
  BY DEF ApprovalBlocksEntry, Blocks, TicketStep, RefundProgress

\* ensureCaptureRefund: the refunds of other captures, and the tickets of other
\* orders, stay.
LEMMA EnsureBlocks ==
  ASSUME TypeOK, PurchaseInv, ApprovalBlocksEntry,
         NEW a \in Attempts, NEW reason \in RefundReason, EnsureCaptureRefund(a[1], a, reason),
         UNCHANGED fulfilledBy,
         fulfilledBy[a[1]] = a => reason = "EVENT_CANCELLATION"
  PROVE  Blocks
<1> USE DEF PurchaseInv
<1> DEFINE o == a[1]
<1>1. /\ o \in Orders
      /\ \A r \in Refunds : refund'[r] # refund[r] =>
           r \in RefundsOf(a) /\ refund[r] \in Undecided /\ refund'[r] = "APPROVED"
      /\ \A t \in Tickets : ticket'[t] # ticket[t] =>
           t[1] = o /\ ticket[t] \in {"ACTIVE", "CHECKED_IN"} /\ ticket'[t] = "VOIDED"
      /\ fulfilledBy[o] = a =>
           refund' = refund \/ \A t \in TicketsOf(o) : ticket'[t] \notin {"ACTIVE", "CHECKED_IN"}
  BY AttemptType, EnsureCaptureRefundMoves DEF Undecided
<1>2. \A b \in Attempts : RefundsOf(b) \subseteq Refunds
  BY DEF RefundsOf, Refunds
<1>3. \A p \in Orders : TicketsOf(p) \subseteq Tickets /\ \A t \in TicketsOf(p) : t[1] = p
  BY DEF Tickets, TicketsOf
<1>4. \A p \in Orders : fulfilledBy[p] # NoAttempt => fulfilledBy[p] \in Attempts /\ fulfilledBy[p][1] = p
  BY DEF Purchases, TypeOK
<1>5. TicketStep /\ RefundProgress
  BY <1>1 DEF TicketStep, RefundProgress, TicketTransitions, RefundTransitions, Undecided
<1>6. CASE fulfilledBy[o] = a /\ refund' # refund
  <2>1. a # NoAttempt
    BY NoAttemptAssumption
  <2>2. \A t \in TicketsOf(o) : ticket'[t] \in {"VOIDED", "REFUNDED"}
    BY <1>1, <1>3, <1>6, <2>1, PurchasedTickets DEF TicketStatus
  <2>3. \A p \in Orders \ {o} : fulfilledBy[p] # NoAttempt =>
          \A r \in RefundsOf(fulfilledBy[p]) : refund'[r] = refund[r]
    BY <1>1, <1>2, <1>4 DEF RefundsOf
  <2>4. \A p \in Orders \ {o} : \A t \in TicketsOf(p) : ticket'[t] = ticket[t]
    BY <1>1, <1>3
  <2>5. ApprovalBlocksEntry'
    BY <1>1, <2>2, <2>3, <2>4, DecidedKeep
  <2> QED
    BY <1>5, <2>5 DEF Blocks
<1>7. CASE ~(fulfilledBy[o] = a /\ refund' # refund)
  <2>1. \A p \in Orders : fulfilledBy[p] # NoAttempt =>
          \A r \in RefundsOf(fulfilledBy[p]) : refund'[r] = refund[r]
    BY <1>1, <1>2, <1>4, <1>7 DEF RefundsOf
  <2>2. \A p \in Orders : \A t \in TicketsOf(p) :
          ticket'[t] = ticket[t] \/ ticket'[t] \in {"VOIDED", "REFUNDED"}
    BY <1>1, <1>3
  <2>3. ApprovalBlocksEntry'
    BY <2>1, <2>2, UndecidedKeep
  <2> QED
    BY <1>5, <2>3 DEF Blocks
<1> QED
  BY <1>6, <1>7

LEMMA FulfilBlocks ==
  ASSUME TypeOK, PurchaseInv, ApprovalBlocksEntry, NEW a \in Attempts, Fulfil(a[1], a)
  PROVE  Blocks
<1> USE DEF PurchaseInv
<1>1. FulfilSettles(a) /\ (Replays(a) \/ Repays(a) \/ Buys(a))
  BY FulfilMoves
<1>2. CASE Replays(a)
  BY <1>2, OtherStepBlocks DEF Replays, orderVars
<1>3. CASE Repays(a)
  <2>1. fulfilledBy[a[1]] # a
    BY <1>1, AttemptType, NoAttemptAssumption DEF FulfilSettles, Purchases, Captured
  <2> QED
    BY <1>3, <2>1, EnsureBlocks DEF Repays, PurchasesStay
<1>4. CASE Buys(a)
  <2> DEFINE o == a[1]
  <2>1. /\ o \in Orders /\ fulfilledBy[o] = NoAttempt /\ refund' = refund
        /\ fulfilledBy' = [fulfilledBy EXCEPT ![o] = a]
    BY <1>4, AttemptType DEF Buys
  <2>2. \A t \in Tickets : ticket'[t] # ticket[t] => ticket[t] = "NONE" /\ ticket'[t] = "ACTIVE"
    BY <1>4 DEF Buys, MoveTickets
  <2>3. \A r \in RefundsOf(a) : refund[r] = "NONE"
    BY <1>1 DEF FulfilSettles, RefundRows, Captured, RefundsOf, Refunds
  <2>4. \A p \in Orders : TicketsOf(p) \subseteq Tickets
    BY DEF Tickets
  <2>5. ApprovalBlocksEntry'
    BY <2>1, <2>2, <2>3, <2>4, UndecidedKeep DEF TypeOK, Undecided
  <2>6. TicketStep /\ RefundProgress
    BY <2>1, <2>2 DEF TicketStep, RefundProgress, TicketTransitions
  <2> QED
    BY <2>5, <2>6 DEF Blocks
<1> QED
  BY <1>1, <1>2, <1>3, <1>4

LEMMA RefundBlocks ==
  ASSUME TypeOK, PurchaseInv, ApprovalBlocksEntry, NEW r \in Refunds, RefundMoves(r)
  PROVE  Blocks
<1> USE DEF PurchaseInv
<1> DEFINE o == r[1][1]
<1>1. o \in Orders /\ r[1] \in Attempts /\ fulfilledBy' = fulfilledBy
  BY RefundType DEF RefundMoves
<1>2. \A p \in Orders : TicketsOf(p) \subseteq Tickets /\ \A t \in TicketsOf(p) : t[1] = p
  BY DEF Tickets, TicketsOf
<1>3. \A p \in Orders : fulfilledBy[p] # NoAttempt =>
        /\ fulfilledBy[p] \in Attempts /\ fulfilledBy[p][1] = p
        /\ RefundsOf(fulfilledBy[p]) \subseteq Refunds
        /\ r \in RefundsOf(fulfilledBy[p]) => fulfilledBy[p] = r[1]
  BY DEF Purchases, TypeOK, RefundsOf, Refunds
<1>4. refund[r] \in RefundStatus
  BY DEF TypeOK
<1>5. ASSUME NEW s \in RefundStatus, refund' = [refund EXCEPT ![r] = s], ticket' = ticket,
             refund[r] \in Undecided => s \in Undecided,
             <<refund[r], s>> \in RefundTransitions
      PROVE  Blocks
  <2>1. refund'[r] = s /\ \A q \in Refunds \ {r} : refund'[q] = refund[q]
    BY <1>5 DEF TypeOK
  <2>2. ApprovalBlocksEntry'
    BY <1>1, <1>3, <1>5, <2>1, UndecidedKeep
  <2>3. TicketStep /\ RefundProgress
    BY <1>5, <2>1 DEF TicketStep, RefundProgress
  <2> QED
    BY <2>2, <2>3 DEF Blocks
<1>6. CASE Asks(r) \/ Rejects(r) \/ Sends(r) \/ Hears(r)
  <2>1. PICK s \in RefundStatus :
          /\ refund' = [refund EXCEPT ![r] = s]
          /\ refund[r] \in Undecided => s \in Undecided
          /\ <<refund[r], s>> \in RefundTransitions
    BY <1>6 DEF Asks, Rejects, Sends, Hears, Undecided, RefundTransitions, InFlight, RefundStatus
  <2> QED
    BY <1>5, <1>6, <2>1 DEF Asks, Rejects, Sends, Hears, OrdersStay
<1>7. CASE Approves(r)
  <2>1. /\ refund[r] = "REQUESTED" /\ refund'[r] = "APPROVED"
        /\ \A q \in Refunds \ {r} : refund'[q] = refund[q]
    BY <1>7 DEF Approves, TypeOK
  <2>2. fulfilledBy[o] = r[1] /\ r \in RefundsOf(r[1]) /\ fulfilledBy[o] # NoAttempt
    BY <1>1, <2>1, NoAttemptAssumption DEF RefundRows, RefundsOf, Refunds
  <2>3. \A t \in Tickets : ticket'[t] = IF t[1] = o /\ ticket[t] = "ACTIVE" THEN "VOIDED" ELSE ticket[t]
    BY <1>7 DEF Approves, MoveTickets
  <2>4. \A t \in TicketsOf(o) : ticket[t] \in {"ACTIVE", "VOIDED", "REFUNDED"}
    BY <1>1, <2>1, <2>2, PurchasedTickets DEF InsideExclusive, TicketStatus
  <2>5. \A t \in TicketsOf(o) : ticket'[t] \in {"VOIDED", "REFUNDED"}
    BY <1>1, <1>2, <2>3, <2>4
  <2>6. ApprovalBlocksEntry'
    BY <1>1, <1>2, <1>3, <2>1, <2>3, <2>5, DecidedKeep
  <2>7. TicketStep /\ RefundProgress
    BY <2>1, <2>3 DEF TicketStep, RefundProgress, TicketTransitions, RefundTransitions
  <2> QED
    BY <2>6, <2>7 DEF Blocks
<1>8. CASE PaysBack(r)
  <2>1. /\ refund[r] \in InFlight /\ refund'[r] = "SUCCEEDED"
        /\ \A q \in Refunds \ {r} : refund'[q] = refund[q]
    BY <1>8 DEF PaysBack, TypeOK
  <2>2. RefundProgress
    BY <2>1 DEF RefundProgress, RefundTransitions
  <2>3. refund[r] \notin Undecided
    BY <2>1 DEF InFlight, Undecided
  <2>4. CASE fulfilledBy[o] = r[1] /\ order[o] = "PAID"
    <3>1. \A t \in Tickets : ticket'[t] = IF t[1] = o THEN "REFUNDED" ELSE ticket[t]
      BY <1>8, <2>4 DEF PaysBack, MoveTickets, TypeOK
    <3>2. fulfilledBy[o] # NoAttempt /\ r \in RefundsOf(fulfilledBy[o])
      BY <1>1, <2>4, NoAttemptAssumption DEF RefundsOf, Refunds
    <3>3. \A t \in TicketsOf(o) : ticket[t] \in {"VOIDED", "REFUNDED"}
      BY <1>1, <2>3, <3>2 DEF ApprovalBlocksEntry, Undecided
    <3>4. \A t \in Tickets : t[1] = o => t \in TicketsOf(o)
      BY DEF Tickets, TicketsOf
    <3>5. TicketStep
      BY <3>1, <3>3, <3>4 DEF TicketStep, TicketTransitions
    <3>6. ApprovalBlocksEntry'
      BY <1>1, <1>2, <1>3, <2>1, <3>1, DecidedKeep
    <3> QED
      BY <2>2, <3>5, <3>6 DEF Blocks
  <2>5. CASE ~(fulfilledBy[o] = r[1] /\ order[o] = "PAID")
    <3>1. ticket' = ticket
      BY <1>8, <2>5 DEF PaysBack
    <3>2. ApprovalBlocksEntry'
      BY <1>1, <1>3, <2>1, <2>3, <3>1, UndecidedKeep
    <3> QED
      BY <2>2, <3>1, <3>2 DEF Blocks, TicketStep
  <2> QED
    BY <2>4, <2>5
<1> QED
  BY <1>6, <1>7, <1>8 DEF RefundMoves

LEMMA EventBlocks == ASSUME TypeOK, PurchaseInv, ApprovalBlocksEntry, EventStep PROVE Blocks
<1> USE DEF PurchaseInv, orderVars, refundVars
<1>1. \A p \in Orders : TicketsOf(p) \subseteq Tickets /\ \A t \in TicketsOf(p) : t[1] = p
  BY DEF Tickets, TicketsOf
<1>2. CASE ListPendingCaptures \/ AbandonRun \/ CompleteEvent \/ FinishCancellation
  BY <1>2, OtherStepBlocks DEF ListPendingCaptures, AbandonRun, CompleteEvent, FinishCancellation
<1>3. CASE CancelEvent
  <2>1. /\ UNCHANGED <<fulfilledBy, refund>>
        /\ \A t \in Tickets : ticket'[t] # ticket[t] =>
             ticket[t] \in {"ACTIVE", "CHECKED_IN"} /\ ticket'[t] = "VOIDED"
    BY <1>3 DEF CancelEvent, MoveTickets
  <2>2. ApprovalBlocksEntry'
    BY <1>1, <2>1, UndecidedKeep
  <2> QED
    BY <2>1, <2>2 DEF Blocks, TicketStep, RefundProgress, TicketTransitions
<1>4. ASSUME NEW o \in Orders, DispatchRefund(o) PROVE Blocks
  <2>1. PICK a \in Attempts : a = fulfilledBy[o]
    BY <1>4 DEF DispatchRefund, TypeOK
  <2>2. a[1] = o
    BY <1>4, <2>1 DEF DispatchRefund, Purchases
  <2>3. EnsureCaptureRefund(a[1], a, "EVENT_CANCELLATION") /\ UNCHANGED fulfilledBy
    BY <1>4, <2>1, <2>2 DEF DispatchRefund
  <2> QED
    BY <2>3, EnsureBlocks DEF RefundReason
<1>5. ASSUME NEW t \in Tickets, CheckIn(t) PROVE Blocks
  <2>1. /\ UNCHANGED <<fulfilledBy, refund>> /\ ticket[t] = "ACTIVE"
        /\ \A u \in Tickets : ticket'[u] = IF u = t THEN "CHECKED_IN" ELSE ticket[u]
    BY <1>5 DEF CheckIn, Admissible, TypeOK
  <2>2. ApprovalBlocksEntry'
    BY <1>1, <2>1, UndecidedKeep
  <2> QED
    BY <2>1, <2>2 DEF Blocks, TicketStep, RefundProgress, TicketTransitions
<1> QED
  BY <1>2, <1>3, <1>4, <1>5 DEF EventStep

LEMMA StepBlocks == ASSUME TypeOK, PurchaseInv, ApprovalBlocksEntry, [Next]_vars PROVE Blocks
<1>1. CASE OrderStep
  BY <1>1, OrderStepMoves, OtherStepBlocks DEF PurchasesStay, OtherRowsStay
<1>2. CASE PaymentStep
  <2>1. CASE CheckoutMoves
    BY <2>1, OtherStepBlocks DEF CheckoutMoves, orderVars
  <2> QED
    BY <1>2, <2>1, PaymentStepMoves, FulfilBlocks
<1>3. CASE RefundStep
  BY <1>3, RefundStepMoves, RefundBlocks DEF PurchaseInv
<1>4. CASE UNCHANGED vars
  BY <1>4, OtherStepBlocks DEF vars, orderVars, refundVars
<1> QED
  BY <1>1, <1>2, <1>3, <1>4, EventBlocks DEF Next

LEMMA ApprovalBlocks == Spec => []ApprovalBlocksEntry
<1>1. Init => ApprovalBlocksEntry
  BY DEF Init, ApprovalBlocksEntry
<1>2. TypeOK /\ PurchaseInv /\ ApprovalBlocksEntry /\ [Next]_vars => ApprovalBlocksEntry'
  BY StepBlocks DEF Blocks
<1> QED
  BY <1>1, <1>2, TypeCorrect, PurchaseInvariant, PTL DEF Spec

\* Whatever order scans, refund requests, reviews and the cancellation job come
\* in, nobody is inside on a ticket that is given back, and nobody gets in once
\* the refund is approved.
THEOREM AdmissionIsExclusive == Spec => []AdmissionExclusive
<1>1. PurchaseInv /\ ApprovalBlocksEntry => AdmissionExclusive
  BY DEF PurchaseInv, AdmissionExclusive
<1> QED
  BY <1>1, PurchaseInvariant, ApprovalBlocks, PTL

-----------------------------------------------------------------------------
(* Tickets are given up only with their purchase.                          *)

Valid == {"ACTIVE", "CHECKED_IN"}

\* What becomes of the tickets of an order that is not returned after the step.
LEMMA KeptAlong ==
  ASSUME TicketsKept,
         \A o \in Orders : Unreturned(o)' => \A t \in TicketsOf(o) :
           ticket'[t] \in Valid \/ (Unreturned(o) /\ ticket'[t] = ticket[t])
  PROVE  TicketsKept'
  BY DEF TicketsKept, Valid

\* Steps that take no ticket, and none of whose refunds becomes undecided again.
LEMMA KeptAlone ==
  ASSUME TicketsKept, PurchasesStay, UNCHANGED <<ticket, eventStatus>>,
         \A o \in Orders : fulfilledBy[o] # NoAttempt => \A r \in RefundsOf(fulfilledBy[o]) :
           refund'[r] \in Undecided => refund[r] \in Undecided,
         Purchases
  PROVE  TicketsKept'
<1>1. ASSUME NEW o \in Orders, Unreturned(o)' PROVE Unreturned(o)
  <2>1. order[o] = "PAID" /\ fulfilledBy' = fulfilledBy /\ fulfilledBy[o] # NoAttempt
    BY <1>1 DEF Unreturned, PurchasesStay, Purchases, Bought
  <2> QED
    BY <1>1, <2>1 DEF Unreturned, Undecided
<1> QED
  BY <1>1, KeptAlong

\* The refund of one capture is decided on: the purchase it paid for, if any, is
\* returned, and every other purchase is left alone.
LEMMA KeptElsewhere ==
  ASSUME TicketsKept, Purchases, PurchasesStay, UNCHANGED eventStatus, NEW a \in Attempts,
         \A r \in Refunds : refund'[r] # refund[r] => r[1] = a,
         \A t \in Tickets : ticket'[t] # ticket[t] => t[1] = a[1] /\ fulfilledBy[a[1]] = a,
         fulfilledBy[a[1]] = a => \E r \in RefundsOf(a) : refund'[r] \notin Undecided,
         TypeOK
  PROVE  TicketsKept'
<1>1. ASSUME NEW o \in Orders, Unreturned(o)', NEW t \in TicketsOf(o)
      PROVE  Unreturned(o) /\ ticket'[t] = ticket[t]
  <2>1. order[o] = "PAID" /\ fulfilledBy' = fulfilledBy /\ fulfilledBy[o] # NoAttempt
    BY <1>1 DEF Unreturned, PurchasesStay, Purchases, Bought
  <2>2. fulfilledBy[o] \in Attempts /\ fulfilledBy[o][1] = o
    BY <2>1 DEF TypeOK, Purchases
  <2>3. fulfilledBy[o] # a
    BY <1>1, <2>1, <2>2 DEF Unreturned, Undecided
  <2>4. \A r \in RefundsOf(fulfilledBy[o]) : refund'[r] = refund[r]
    BY <2>2, <2>3 DEF RefundsOf, Refunds
  <2>5. t \in Tickets /\ t[1] = o
    BY DEF Tickets, TicketsOf
  <2> QED
    BY <1>1, <2>1, <2>3, <2>4, <2>5 DEF Unreturned
<1> QED
  BY <1>1, KeptAlong

LEMMA FulfilKept ==
  ASSUME TypeOK, PurchaseInv, TicketsKept, NEW a \in Attempts, Fulfil(a[1], a)
  PROVE  TicketsKept'
<1> USE DEF PurchaseInv
<1>1. FulfilSettles(a) /\ (Replays(a) \/ Repays(a) \/ Buys(a))
  BY FulfilMoves
<1>2. CASE Replays(a)
  BY <1>1, <1>2, KeptAlone DEF Replays, FulfilSettles, orderVars, PurchasesStay
<1>3. CASE Repays(a)
  <2>1. fulfilledBy[a[1]] # a
    BY <1>1, AttemptType, NoAttemptAssumption DEF FulfilSettles, Purchases, Captured
  <2>2. PICK reason \in RefundReason : EnsureCaptureRefund(a[1], a, reason)
    BY <1>3 DEF Repays
  <2>3. ticket' = ticket
    BY <2>1, <2>2 DEF EnsureCaptureRefund, VoidsTickets
  <2>4. \A r \in Refunds : refund'[r] # refund[r] => r[1] = a
    BY <2>2, AttemptType, EnsureCaptureRefundMoves DEF RefundsOf
  <2> QED
    BY <1>1, <1>3, <2>1, <2>3, <2>4, KeptElsewhere DEF Repays, FulfilSettles
<1>4. CASE Buys(a)
  <2> DEFINE p == a[1]
  <2>1. /\ p \in Orders /\ fulfilledBy[p] = NoAttempt
        /\ order' = [order EXCEPT ![p] = "PAID"]
        /\ fulfilledBy' = [fulfilledBy EXCEPT ![p] = a]
        /\ UNCHANGED <<refund, eventStatus>>
        /\ \A t \in Tickets : ticket'[t] = IF t[1] = p /\ ticket[t] = "NONE" THEN "ACTIVE" ELSE ticket[t]
    BY <1>1, <1>4, AttemptType DEF Buys, FulfilSettles, MoveTickets
  <2>2. ASSUME NEW o \in Orders, Unreturned(o)', NEW t \in TicketsOf(o)
        PROVE  ticket'[t] \in Valid \/ (Unreturned(o) /\ ticket'[t] = ticket[t])
    <3>1. t \in Tickets /\ t[1] = o
      BY DEF Tickets, TicketsOf
    <3>2. CASE o = p
      BY <2>1, <3>1, <3>2 DEF Purchases, Valid
    <3>3. CASE o # p
      <4>1. order'[o] = order[o] /\ fulfilledBy'[o] = fulfilledBy[o]
        BY <2>1, <3>3 DEF TypeOK
      <4> QED
        BY <2>1, <2>2, <3>1, <3>3, <4>1 DEF Unreturned
    <3> QED
      BY <3>2, <3>3
  <2> QED
    BY <2>2, KeptAlong
<1> QED
  BY <1>1, <1>2, <1>3, <1>4

LEMMA RefundKept ==
  ASSUME TypeOK, PurchaseInv, TicketsKept, NEW r \in Refunds, RefundMoves(r)
  PROVE  TicketsKept'
<1> USE DEF PurchaseInv
<1> DEFINE o == r[1][1]
<1>1. /\ o \in Orders /\ r[1] \in Attempts /\ r \in RefundsOf(r[1])
      /\ UNCHANGED <<fulfilledBy, eventStatus>>
  BY RefundType DEF RefundMoves, RefundsOf, Refunds
<1>2. \A q \in Refunds \ {r} : refund'[q] = refund[q]
  BY DEF RefundMoves, Asks, Approves, Rejects, Sends, Hears, PaysBack, TypeOK
<1>3. CASE Asks(r) \/ Rejects(r) \/ Sends(r) \/ Hears(r)
  <2>1. UNCHANGED ticket /\ PurchasesStay
    BY <1>1, <1>3 DEF Asks, Rejects, Sends, Hears, OrdersStay, PurchasesStay
  <2>2. refund'[r] \in Undecided => refund[r] \in Undecided
    BY <1>3 DEF Asks, Rejects, Sends, Hears, Undecided, InFlight, TypeOK
  <2>3. \A p \in Orders : fulfilledBy[p] # NoAttempt => RefundsOf(fulfilledBy[p]) \subseteq Refunds
    BY DEF TypeOK, RefundsOf, Refunds
  <2> QED
    BY <1>1, <1>2, <2>1, <2>2, <2>3, KeptAlone
<1>4. CASE Approves(r)
  <2>1. fulfilledBy[o] = r[1] /\ refund'[r] = "APPROVED" /\ PurchasesStay
    BY <1>1, <1>4 DEF Approves, RefundRows, TypeOK, PurchasesStay
  <2>2. \A t \in Tickets : ticket'[t] # ticket[t] => t[1] = o
    BY <1>4 DEF Approves, MoveTickets
  <2> QED
    BY <1>1, <1>2, <2>1, <2>2, KeptElsewhere DEF Undecided
<1>5. CASE PaysBack(r) /\ fulfilledBy[o] = r[1] /\ order[o] = "PAID"
  <2>1. /\ order' = [order EXCEPT ![o] = "REFUNDED"]
        /\ \A t \in Tickets : t[1] # o => ticket'[t] = ticket[t]
    BY <1>5 DEF PaysBack, MoveTickets
  <2>2. ASSUME NEW p \in Orders, Unreturned(p)', NEW t \in TicketsOf(p)
        PROVE  Unreturned(p) /\ ticket'[t] = ticket[t]
    <3>1. p # o
      BY <1>1, <2>1, <2>2 DEF Unreturned, TypeOK
    <3>2. order'[p] = order[p] /\ order[p] = "PAID"
      BY <2>1, <2>2, <3>1 DEF Unreturned, TypeOK
    <3>3. fulfilledBy[p] \in Attempts /\ fulfilledBy[p][1] = p
      BY <3>2 DEF Purchases, Bought, TypeOK
    <3>4. \A q \in RefundsOf(fulfilledBy[p]) : refund'[q] = refund[q]
      BY <1>2, <3>1, <3>3 DEF RefundsOf, Refunds
    <3>5. t \in Tickets /\ t[1] = p
      BY DEF Tickets, TicketsOf
    <3> QED
      BY <1>1, <2>1, <2>2, <3>1, <3>2, <3>4, <3>5 DEF Unreturned
  <2> QED
    BY <2>2, KeptAlong
<1>6. CASE PaysBack(r) /\ ~(fulfilledBy[o] = r[1] /\ order[o] = "PAID")
  <2>1. UNCHANGED <<order, ticket>> /\ refund'[r] = "SUCCEEDED"
    BY <1>6 DEF PaysBack, TypeOK
  <2> QED
    BY <1>1, <1>2, <2>1, KeptElsewhere DEF PurchasesStay, Undecided
<1> QED
  BY <1>3, <1>4, <1>5, <1>6 DEF RefundMoves

LEMMA DispatchKept ==
  ASSUME TypeOK, PurchaseInv, TicketsKept, NEW o \in Orders, DispatchRefund(o)
  PROVE  TicketsKept'
<1> USE DEF PurchaseInv
<1>1. PICK a \in Attempts : a = fulfilledBy[o]
  BY DEF DispatchRefund, TypeOK
<1>2. a[1] = o /\ EnsureCaptureRefund(o, a, "EVENT_CANCELLATION") /\ "EVENT_CANCELLATION" \in RefundReason
  BY <1>1 DEF DispatchRefund, Purchases, RefundReason
<1>3. /\ \A r \in Refunds : refund'[r] # refund[r] => r[1] = a
      /\ \A t \in Tickets : ticket'[t] # ticket[t] => t[1] = a[1]
  BY <1>2, EnsureCaptureRefundMoves DEF RefundsOf
<1>4. \E r \in RefundsOf(a) : refund'[r] \notin Undecided
  <2> DEFINE r0 == <<a, "EVENT_CANCELLATION">>
             live == {q \in RefundsOf(a) : Live(q)}
             asked == {q \in live : refund[q] = "REQUESTED"}
             stopped == live = {} /\ refund[r0] = "FAILED"
             approve == IF live = {} /\ ~stopped THEN {r0} ELSE asked
  <2>1. refund' = [q \in Refunds |-> IF q \in approve THEN "APPROVED" ELSE refund[q]]
    BY <1>2 DEF EnsureCaptureRefund
  <2>2. r0 \in RefundsOf(a) /\ RefundsOf(a) \subseteq Refunds
    BY <1>2 DEF RefundsOf, Refunds
  <2>3. CASE live = {}
    BY <2>1, <2>2, <2>3 DEF Undecided
  <2>4. CASE live # {}
    <3>1. PICK q \in live : TRUE
      BY <2>4
    <3>2. q \in RefundsOf(a) /\ refund[q] \in LiveRefund
      BY <3>1 DEF Live
    <3> QED
      BY <2>1, <2>2, <2>4, <3>1, <3>2 DEF Undecided, LiveRefund
  <2> QED
    BY <2>3, <2>4
<1>5. PurchasesStay /\ UNCHANGED eventStatus
  BY DEF DispatchRefund, PurchasesStay, orderVars
<1> QED
  BY <1>1, <1>2, <1>3, <1>4, <1>5, KeptElsewhere

LEMMA StepKept == ASSUME TypeOK, PurchaseInv, TicketsKept, [Next]_vars PROVE TicketsKept'
<1> USE DEF PurchaseInv, orderVars, refundVars
<1>1. CASE OrderStep
  BY <1>1, OrderStepMoves, KeptAlone DEF OtherRowsStay
<1>2. CASE PaymentStep
  <2>1. CASE CheckoutMoves
    BY <2>1, KeptAlone DEF CheckoutMoves, PurchasesStay
  <2> QED
    BY <1>2, <2>1, PaymentStepMoves, FulfilKept
<1>3. CASE RefundStep
  BY <1>3, RefundStepMoves, RefundKept
<1>4. CASE ListPendingCaptures \/ AbandonRun \/ FinishCancellation \/ UNCHANGED vars
  BY <1>4, KeptAlone DEF ListPendingCaptures, AbandonRun, FinishCancellation, vars, eventVars, PurchasesStay
<1>5. CASE CompleteEvent
  BY <1>5, KeptAlong DEF CompleteEvent, Unreturned
<1>6. CASE CancelEvent
  BY <1>6, KeptAlong DEF CancelEvent, Unreturned
<1>7. ASSUME NEW u \in Tickets, CheckIn(u) PROVE TicketsKept'
  <2>1. \A t \in Tickets : ticket'[t] = IF t = u THEN "CHECKED_IN" ELSE ticket[t]
    BY <1>7 DEF CheckIn, TypeOK
  <2>2. \A o \in Orders : Unreturned(o)' => Unreturned(o)
    BY <1>7 DEF CheckIn, Unreturned, eventVars
  <2>3. \A o \in Orders : TicketsOf(o) \subseteq Tickets
    BY DEF Tickets
  <2> QED
    BY <2>1, <2>2, <2>3, KeptAlong DEF Valid
<1> QED
  BY <1>1, <1>2, <1>3, <1>4, <1>5, <1>6, <1>7, DispatchKept DEF Next, EventStep

\* The tickets of a purchase that is not being given back stay good for
\* admission, whatever is refunded around it.
THEOREM TicketsAreKept == Spec => []TicketsKept
<1>1. Init => TicketsKept
  BY DEF Init, TicketsKept, Unreturned
<1>2. TypeOK /\ PurchaseInv /\ TicketsKept /\ [Next]_vars => TicketsKept'
  BY StepKept
<1> QED
  BY <1>1, <1>2, TypeCorrect, PurchaseInvariant, PTL DEF Spec

\* Tickets move as TicketMoves lists: no scan, refund or cancellation makes a
\* used or voided ticket valid again, and none is refunded before it is voided.
THEOREM TicketsMoveOn == Spec => TicketMoves
<1>1. TypeOK /\ PurchaseInv /\ ApprovalBlocksEntry /\ [Next]_vars => [TicketStep]_ticket
  BY StepBlocks DEF Blocks
<1>2. [][TicketStep]_ticket => TicketMoves
  BY PTL DEF TicketMoves, TicketStep
<1> QED
  BY <1>1, <1>2, TypeCorrect, PurchaseInvariant, ApprovalBlocks, PTL DEF Spec

\* Refunds move as RefundMovesOn lists, with late answers, stale workers and
\* retries: one that is at the provider is not decided on before it has failed.
THEOREM RefundsMoveOn == Spec => RefundMovesOn
<1>1. TypeOK /\ PurchaseInv /\ ApprovalBlocksEntry /\ [Next]_vars => [RefundProgress]_refund
  BY StepBlocks DEF Blocks
<1>2. [][RefundProgress]_refund => RefundMovesOn
  BY PTL DEF RefundMovesOn, RefundProgress
<1> QED
  BY <1>1, <1>2, TypeCorrect, PurchaseInvariant, ApprovalBlocks, PTL DEF Spec
=============================================================================
