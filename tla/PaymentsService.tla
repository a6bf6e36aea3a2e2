-------------------------- MODULE PaymentsService --------------------------
(***************************************************************************)
(* Checkout, the payment gateway as the code relies on it, and what a      *)
(* validated payment does to its order.  A checkout is three steps: the    *)
(* preparation transaction, the gateway call outside any transaction, and  *)
(* the transaction that records the answer; verification may overtake the  *)
(* last one.                                                               *)
(***************************************************************************)
EXTENDS Ticketing

Payable(o) ==
  /\ order[o] = "PENDING_PAYMENT" /\ ~released[o] /\ age[o] # "lapsed"
  /\ eventStatus = "PUBLISHED" /\ Upcoming /\ onSale

\* mutant: an attempt without an answer gives way to a new one
MayAttempt_AfterUnknown(o, n) ==
  attempt[<<o, n>>] = "NONE" /\ (n > 1 => attempt[<<o, n - 1>>] \in {"FAILED", "UNKNOWN"})
\* A new attempt only when none is in progress and the latest one has failed.
MayAttempt(o, n) ==
  /\ attempt[<<o, n>>] = "NONE"
  /\ \A a \in Attempt(o) : attempt[a] \notin ActiveAttempt
  /\ n > 1 => attempt[<<o, n - 1>>] = "FAILED"

\* initiateCheckout, preparation.
PrepareCheckout(o, n) ==
  /\ Payable(o)
  /\ MayAttempt(o, n)
  /\ attempt' = [attempt EXCEPT ![<<o, n>>] = "INITIATING"]
  /\ UNCHANGED <<orderVars, tierVars, replayOf, ticket, refundVars, eventVars, gatewayVars>>

\* createSession answered: the hosted page is recorded unless the attempt has moved on.
CheckoutReady(a) ==
  /\ attempt[a] = "INITIATING" /\ gateway[a] # "rejected"
  /\ attempt' = [attempt EXCEPT ![a] = "PENDING"]
  /\ UNCHANGED <<orderVars, tierVars, replayOf, ticket, refundVars, eventVars, gatewayVars>>

\* The gateway answers that it opened no session.
CheckoutRejected(a) ==
  /\ attempt[a] = "INITIATING" /\ gateway[a] = "idle" /\ a \notin declined
  /\ attempt' = [attempt EXCEPT ![a] = "FAILED"]
  /\ gateway' = [gateway EXCEPT ![a] = "rejected"]
  /\ UNCHANGED <<orderVars, tierVars, replayOf, ticket, refundVars, eventVars, declined, bankTran>>

\* A lost createSession answer, a failed validation or an unresolved lookup.
PaymentUnresolved(a) ==
  /\ attempt[a] \in {"INITIATING", "PENDING"}
  /\ attempt' = [attempt EXCEPT ![a] = "UNKNOWN"]
  /\ UNCHANGED <<orderVars, tierVars, replayOf, ticket, refundVars, eventVars, gatewayVars>>

-----------------------------------------------------------------------------
(* The gateway.  A payment may be declined and tried again on the same     *)
(* page; a capture is final, and carries a bank transaction of its own or, *)
(* replayed, the one of an earlier capture.                                *)

GatewayDecline(a) ==
  /\ attempt[a] # "NONE" /\ gateway[a] = "idle"
  /\ declined' = declined \cup {a}
  /\ UNCHANGED <<orderVars, tierVars, paymentVars, ticket, refundVars, eventVars, gateway, bankTran>>

GatewayCapture(a, b) ==
  /\ attempt[a] # "NONE" /\ gateway[a] = "idle"
  /\ b = a \/ bankTran[b] = b
  /\ gateway' = [gateway EXCEPT ![a] = "captured"]
  /\ bankTran' = [bankTran EXCEPT ![a] = b]
  /\ UNCHANGED <<orderVars, tierVars, paymentVars, ticket, refundVars, eventVars, declined>>

\* reconcilePaymentAttempt after a FAILED lookup.  The lookup is not part of
\* the transaction: the payment may have been captured since.
ReconcileFailed(a) ==
  /\ a \in declined
  /\ attempt[a] \in ActiveAttempt
  /\ attempt' = [attempt EXCEPT ![a] = "FAILED"]
  /\ UNCHANGED <<orderVars, tierVars, replayOf, ticket, refundVars, eventVars, gatewayVars>>

-----------------------------------------------------------------------------
(* fulfillValidatedPayment, reached from a validated callback or from      *)
(* reconciliation: one transaction, of which exactly one outcome applies.  *)

\* The gateway has validated the attempt's payment and it is not settled yet.
Validated(a) == gateway[a] = "captured" /\ attempt[a] \notin {"NONE", "SUCCEEDED"}
\* mutant: a capture that is not verified yet counts as recorded
SameCapture_Unverified(a) == {b \in Attempts \ {a} : bankTran[b] = bankTran[a]}
\* The attempts whose recorded capture has the same unique bank transaction.
SameCapture(a) == {b \in Attempts : Captured(b) /\ bankTran[b] = bankTran[a]}
NewCapture_Unchecked(a) == Validated(a)                   \* mutant
NewCapture(a) == Validated(a) /\ SameCapture(a) = {}

Settle(a) == attempt' = [attempt EXCEPT ![a] = "SUCCEEDED"]

FulfilReplay(a) ==
  /\ Validated(a)
  /\ \E b \in SameCapture(a) : replayOf' = [replayOf EXCEPT ![a] = b]
  /\ Settle(a)
  /\ UNCHANGED <<orderVars, tierVars, ticket, refundVars, eventVars, gatewayVars>>

AlreadyFulfilled_PaidOnly(o) == order[o] = "PAID"         \* mutant
AlreadyFulfilled(o) == fulfilledBy[o] # NoAttempt \/ order[o] \in {"PAID", "REFUNDED"}

FulfilDuplicate(o, a) ==
  /\ NewCapture(a) /\ AlreadyFulfilled(o)
  /\ Settle(a)
  /\ EnsureCaptureRefund(o, a, "DUPLICATE_PAYMENT")
  /\ UNCHANGED <<orderVars, tierVars, replayOf, eventVars, gatewayVars>>

Closed(o) == eventStatus # "PUBLISHED" \/ ~Upcoming \/ order[o] = "CANCELLED"

FulfilClosed(o, a) ==
  /\ NewCapture(a) /\ ~AlreadyFulfilled(o) /\ Closed(o)
  /\ Settle(a)
  /\ EnsureCaptureRefund(o, a, IF order[o] = "CANCELLED" THEN "EVENT_CANCELLATION"
                                                          ELSE "LATE_PAYMENT")
  /\ UNCHANGED <<orderVars, tierVars, replayOf, eventVars, gatewayVars>>

\* A lapsed reservation is released first, then stock is taken anew if it can be.
MustReacquire(o) == order[o] = "EXPIRED" \/ age[o] = "lapsed"
\* That release must apply, or the transaction fails.
ReleaseApplies(o) ==
  MustReacquire(o) /\ ~released[o] => order[o] = "PENDING_PAYMENT" /\ reserved >= Qty[o]
ReservedAfterRelease_Again(o) == reserved - Qty[o]        \* mutant
ReservedAfterRelease(o) ==
  IF MustReacquire(o) /\ ~released[o] THEN reserved - Qty[o] ELSE reserved
Obtainable_SoldOnly(o) ==                                 \* mutant
  IF MustReacquire(o) THEN onSale /\ sold + Qty[o] <= capacity ELSE reserved >= Qty[o]
Obtainable(o) ==
  IF MustReacquire(o)
  THEN onSale /\ sold + ReservedAfterRelease(o) + Qty[o] <= capacity
  ELSE reserved >= Qty[o]

FulfilWithoutStock(o, a) ==
  /\ NewCapture(a) /\ ~AlreadyFulfilled(o) /\ ~Closed(o) /\ ReleaseApplies(o) /\ ~Obtainable(o)
  /\ reserved' = ReservedAfterRelease(o)
  /\ order' = [order EXCEPT ![o] = IF MustReacquire(o) THEN "EXPIRED" ELSE @]
  /\ released' = [released EXCEPT ![o] = @ \/ MustReacquire(o)]
  /\ Settle(a)
  /\ EnsureCaptureRefund(o, a, "LATE_PAYMENT")
  /\ UNCHANGED <<age, fulfilledBy, sold, capacity, onSale, replayOf, eventVars, gatewayVars>>

FulfilOrder(o, a) ==
  /\ NewCapture(a) /\ ~AlreadyFulfilled(o) /\ ~Closed(o) /\ ReleaseApplies(o) /\ Obtainable(o)
  /\ order[o] \in {"PENDING_PAYMENT", "EXPIRED"}
  /\ reserved' = IF MustReacquire(o) THEN ReservedAfterRelease(o) ELSE reserved - Qty[o]
  /\ sold' = sold + Qty[o]
  /\ order' = [order EXCEPT ![o] = "PAID"]
  /\ fulfilledBy' = [fulfilledBy EXCEPT ![o] = a]
  /\ released' = [released EXCEPT ![o] = @ \/ MustReacquire(o)]
  /\ Settle(a)
  /\ MoveTickets({o}, {"NONE"}, "ACTIVE")
  /\ UNCHANGED <<age, capacity, onSale, replayOf, refundVars, eventVars, gatewayVars>>

Fulfil(o, a) ==
  \/ FulfilReplay(a)
  \/ FulfilDuplicate(o, a)
  \/ FulfilClosed(o, a)
  \/ FulfilWithoutStock(o, a)
  \/ FulfilOrder(o, a)
=============================================================================
