--------------------------- MODULE RefundsService ---------------------------
(***************************************************************************)
(* Attendee requests, review, and the conversation with the provider.      *)
(* startRefund claims the row, calls the provider outside any transaction  *)
(* and records the answer if its claim is still the latest one; the        *)
(* provider's answers themselves are free choices here.                    *)
(***************************************************************************)
EXTENDS Ticketing

InFlight == {"PROCESSING", "UNKNOWN"}
SetRefund(r, status) == refund' = [refund EXCEPT ![r] = status]

RequestRefund(o) ==
  LET a == fulfilledBy[o]
      r == <<a, "ATTENDEE_REQUEST">>
  IN /\ RefundEligible(o)
     /\ Captured(a) /\ ~Contested(RefundsOf(a))
     /\ refund[r] \in {"NONE", "REJECTED"} /\ requests[a] < MaxRequests
     /\ SetRefund(r, "REQUESTED")
     /\ requests' = [requests EXCEPT ![a] = @ + 1]
     /\ UNCHANGED <<orderVars, tierVars, paymentVars, ticket, uncertain, referenced, initiating,
                    eventVars, gatewayVars>>

ApproveRefund(r) ==
  LET o == r[1][1] IN
  /\ refund[r] = "REQUESTED" /\ r \notin uncertain
  /\ RefundEligible(o) /\ fulfilledBy[o] = r[1]
  /\ MoveTickets({o}, {"ACTIVE"}, "VOIDED")
  /\ SetRefund(r, "APPROVED")
  /\ UNCHANGED <<orderVars, tierVars, paymentVars, uncertain, referenced, initiating, requests,
                 eventVars, gatewayVars>>

RejectRefund(r) ==
  /\ refund[r] = "REQUESTED" /\ r \notin uncertain
  /\ SetRefund(r, "REJECTED")
  /\ UNCHANGED <<orderVars, tierVars, paymentVars, ticket, uncertain, referenced, initiating,
                 requests, eventVars, gatewayVars>>

\* queueRefundRetry: an administrator retries a confirmed failure.
RetryRefund(r) ==
  /\ refund[r] = "FAILED" /\ r \notin uncertain
  /\ LiveIndexAdmits(r)
  /\ SetRefund(r, "APPROVED")
  /\ referenced' = referenced \ {r}
  /\ initiating' = initiating \ {r}
  /\ UNCHANGED <<orderVars, tierVars, paymentVars, ticket, uncertain, requests, eventVars,
                 gatewayVars>>

\* startRefund, claim.  A worker that read APPROVED may find FAILED here.
ClaimRefund(r) ==
  /\ refund[r] \in {"APPROVED", "FAILED"} /\ r \notin uncertain
  /\ Captured(r[1])
  /\ ~Contested(RefundsOf(r[1]) \ {r})
  /\ SetRefund(r, "PROCESSING")
  /\ initiating' = initiating \cup {r}
  /\ UNCHANGED <<orderVars, tierVars, paymentVars, ticket, uncertain, referenced, requests,
                 eventVars, gatewayVars>>

-----------------------------------------------------------------------------
(* The provider's first answer, applied only to the claim it belongs to.   *)

Answered(r, status) ==
  /\ r \in initiating
  /\ refund[r] \in InFlight
  /\ SetRefund(r, status)
  /\ initiating' = initiating \ {r}
  /\ UNCHANGED <<orderVars, tierVars, paymentVars, ticket, requests, eventVars, gatewayVars>>

RefundAccepted(r) ==
  /\ LiveIndexAdmits(r)
  /\ Answered(r, "PROCESSING")
  /\ referenced' = referenced \cup {r}
  /\ uncertain' = uncertain \ {r}

RefundRejected(r) ==
  /\ Answered(r, "FAILED")
  /\ uncertain' = uncertain \ {r}
  /\ UNCHANGED referenced

RefundUnclear(r) ==
  /\ Answered(r, "UNKNOWN")
  /\ uncertain' = uncertain \cup {r}
  /\ UNCHANGED referenced

-----------------------------------------------------------------------------
(* reconcileRefund on a refund in flight.                                  *)

\* No provider reference after 30 seconds: never initiated again to find out.
ReferenceMissing(r) ==
  /\ refund[r] \in InFlight /\ r \notin referenced
  /\ SetRefund(r, "UNKNOWN")
  /\ uncertain' = uncertain \cup {r}
  /\ UNCHANGED <<orderVars, tierVars, paymentVars, ticket, referenced, initiating, requests,
                 eventVars, gatewayVars>>

\* A run reads the refund, certain and referenced, asks the provider, and settles
\* it in a transaction if it is in flight with the same reference still; the
\* first answer of a claim may have made it uncertain since.
Reconcilable(r) == refund[r] \in InFlight /\ r \in referenced

ConfirmedFailed(r) ==
  /\ Reconcilable(r)
  /\ SetRefund(r, "FAILED")
  /\ uncertain' = uncertain \ {r}
  /\ UNCHANGED <<orderVars, tierVars, paymentVars, ticket, referenced, initiating, requests,
                 eventVars, gatewayVars>>

\* The run failed somewhere; it only looks whether the refund is in flight.
StatusUnresolved(r) ==
  /\ refund[r] \in InFlight
  /\ SetRefund(r, "UNKNOWN")
  /\ UNCHANGED <<orderVars, tierVars, paymentVars, ticket, uncertain, referenced, initiating,
                 requests, eventVars, gatewayVars>>

\* The provider confirms: the canonical capture's order, tickets and stock
\* move with the refund, any other capture's refund moves alone.
ConfirmedRefunded(r) ==
  LET o == r[1][1]
      canonical == fulfilledBy[o] = r[1] /\ order[o] = "PAID"
  IN /\ Reconcilable(r)
     /\ Captured(r[1])
     /\ \A q \in RefundsOf(r[1]) \ {r} : refund[q] # "SUCCEEDED"
     /\ LiveIndexAdmits(r)
     /\ SetRefund(r, "SUCCEEDED")
     /\ uncertain' = uncertain \ {r}
     /\ IF canonical
        THEN /\ sold >= Qty[o]
             /\ order' = [order EXCEPT ![o] = "REFUNDED"]
             /\ MoveTickets({o}, TicketStatus, "REFUNDED")
             /\ sold' = sold - Qty[o]
        ELSE UNCHANGED <<order, ticket, sold>>
     /\ UNCHANGED <<age, released, fulfilledBy, reserved, capacity, onSale, paymentVars,
                    referenced, initiating, requests, eventVars, gatewayVars>>
=============================================================================
