---------------------------- MODULE LedgerProofs ----------------------------
(***************************************************************************)
(* The refinement of the ledger: seen through the rows of attempts,        *)
(* refunds and tickets, every step of Booking moves the money of at most   *)
(* one payment, in the way Ledger allows, or moves none.                   *)
(***************************************************************************)
EXTENDS PurchaseProofs

-----------------------------------------------------------------------------
(* Captured money has a bank transaction.                                  *)

TransactionsKnown == \A a \in Attempts : gateway[a] = "captured" => bankTran[a] \in Attempts

LEMMA GatewayMoves ==
  ASSUME TypeOK, [Next]_vars
  PROVE  \A a \in Attempts : gateway'[a] = "captured" =>
           \/ gateway[a] = "captured" /\ bankTran'[a] = bankTran[a]
           \/ bankTran'[a] \in Attempts
<1> USE DEF TypeOK
<1>1. ASSUME UNCHANGED <<gateway, bankTran>>
      PROVE  \A a \in Attempts : gateway'[a] = "captured" =>
               gateway[a] = "captured" /\ bankTran'[a] = bankTran[a]
  BY <1>1
<1>2. ASSUME NEW c \in Attempts, NEW b \in Attempts, GatewayCapture(c, b), NEW a \in Attempts,
             gateway'[a] = "captured"
      PROVE  \/ gateway[a] = "captured" /\ bankTran'[a] = bankTran[a]
             \/ bankTran'[a] \in Attempts
  BY <1>2 DEF GatewayCapture
<1>3. ASSUME NEW c \in Attempts, CheckoutRejected(c), NEW a \in Attempts, gateway'[a] = "captured"
      PROVE  gateway[a] = "captured" /\ bankTran'[a] = bankTran[a]
  BY <1>3 DEF CheckoutRejected
<1>4. CASE PaymentStep
  <2>1. ASSUME NEW o \in Orders, NEW n \in 1 .. MaxAttempts, PrepareCheckout(o, n)
        PROVE  UNCHANGED <<gateway, bankTran>>
    BY <2>1 DEF PrepareCheckout, gatewayVars
  <2>2. ASSUME NEW a \in Attempts,
               CheckoutReady(a) \/ PaymentUnresolved(a) \/ ReconcileFailed(a) \/ GatewayDecline(a)
        PROVE  UNCHANGED <<gateway, bankTran>>
    BY <2>2 DEF CheckoutReady, PaymentUnresolved, ReconcileFailed, GatewayDecline, gatewayVars
  <2>3. ASSUME NEW a \in Attempts, Fulfil(a[1], a)
        PROVE  UNCHANGED <<gateway, bankTran>>
    BY <2>3, FulfilMoves DEF FulfilSettles
  <2> QED
    BY <1>1, <1>2, <1>3, <1>4, <2>1, <2>2, <2>3 DEF PaymentStep
<1>5. CASE OrderStep
  BY <1>1, <1>5, OrderStepMoves DEF OtherRowsStay
<1>6. CASE RefundStep
  BY <1>1, <1>6
  DEF RefundStep, RequestRefund, ApproveRefund, RejectRefund, RetryRefund, ClaimRefund, RefundAccepted,
      RefundRejected, RefundUnclear, Answered, ReferenceMissing, ConfirmedFailed, StatusUnresolved,
      ConfirmedRefunded, gatewayVars
<1>7. CASE EventStep
  BY <1>1, <1>7
  DEF EventStep, CancelEvent, CompleteEvent, ListPendingCaptures, DispatchRefund, AbandonRun,
      FinishCancellation, CheckIn, gatewayVars
<1>8. CASE UNCHANGED vars
  BY <1>1, <1>8 DEF vars, gatewayVars
<1> QED
  BY <1>4, <1>5, <1>6, <1>7, <1>8 DEF Next

LEMMA TransactionsAreKnown == Spec => []TransactionsKnown
<1>1. Init => TransactionsKnown
  BY DEF Init, TransactionsKnown
<1>2. TypeOK /\ TransactionsKnown /\ [Next]_vars => TransactionsKnown'
  BY GatewayMoves DEF TransactionsKnown
<1> QED
  BY <1>1, <1>2, TypeCorrect, PTL DEF Spec

LedgerInv == TypeOK /\ PurchaseInv /\ TransactionsKnown

-----------------------------------------------------------------------------
(* The rows the ledger is read from.                                       *)

MoneyRow == [a \in Attempts |-> MoneyOf(a)]
TransactionRow == [a \in Attempts |-> TransactionOf(a)]
SentRow == [a \in Attempts |-> SentOf(a)]
Inside == {t \in Tickets : ticket[t] = "CHECKED_IN"}

LEMMA RefundOf == \A a \in Attempts, reason \in RefundReason : <<a, reason>> \in RefundsOf(a) /\ <<a, reason>> \in Refunds
  BY DEF RefundsOf, Refunds

LEMMA ReasonOf ==
  \A a \in Attempts : \A r \in RefundsOf(a) : r[1] = a /\ r[2] \in RefundReason /\ r = <<a, r[2]>>
  BY DEF RefundsOf

LEMMA SomeRefund ==
  ASSUME NEW a \in Attempts, NEW rows, NEW S
  PROVE  (\E reason \in RefundReason : rows[<<a, reason>>] \in S) <=> \E r \in RefundsOf(a) : rows[r] \in S
<1>1. ASSUME NEW reason \in RefundReason, rows[<<a, reason>>] \in S
      PROVE  \E r \in RefundsOf(a) : rows[r] \in S
  BY <1>1, RefundOf
<1>2. ASSUME NEW r \in RefundsOf(a), rows[r] \in S
      PROVE  \E reason \in RefundReason : rows[<<a, reason>>] \in S
  <2>1. r[2] \in RefundReason /\ r = <<a, r[2]>>
    BY ReasonOf
  <2> QED
    BY <1>2, <2>1
<1> QED
  BY <1>1, <1>2

\* The money of a capture, by its refunds.
LEMMA CapturedMoney ==
  ASSUME NEW a \in Attempts, Captured(a)
  PROVE  /\ MoneyOf(a) = "returned" <=> \E r \in RefundsOf(a) : refund[r] = "SUCCEEDED"
         /\ MoneyOf(a) = "kept" <=> \A r \in RefundsOf(a) : refund[r] \notin Repaying \cup {"SUCCEEDED"}
         /\ MoneyOf(a) \in {"kept", "owed", "returned"}
<1>1. Returned(a) <=> \E r \in RefundsOf(a) : refund[r] = "SUCCEEDED"
  <2>1. (\E reason \in RefundReason : refund[<<a, reason>>] \in {"SUCCEEDED"})
          <=> \E r \in RefundsOf(a) : refund[r] \in {"SUCCEEDED"}
    BY SomeRefund
  <2> QED
    BY <2>1 DEF Returned
<1>2. Owed(a) <=> \E r \in RefundsOf(a) : refund[r] \in Repaying
  BY SomeRefund DEF Owed
<1>3. MoneyOf(a) = IF Returned(a) THEN "returned" ELSE IF Owed(a) THEN "owed" ELSE "kept"
  BY DEF Captured, MoneyOf
<1> QED
  BY <1>1, <1>2, <1>3

LEMMA CapturedMoneyNext ==
  ASSUME NEW a \in Attempts, Captured(a)'
  PROVE  MoneyOf(a)' = IF \E r \in RefundsOf(a) : refund'[r] = "SUCCEEDED" THEN "returned"
                       ELSE IF \E r \in RefundsOf(a) : refund'[r] \in Repaying THEN "owed"
                       ELSE "kept"
<1>1. Returned(a)' <=> \E r \in RefundsOf(a) : refund'[r] \in {"SUCCEEDED"}
  <2>1. (\E reason \in RefundReason : refund'[<<a, reason>>] \in {"SUCCEEDED"})
          <=> \E r \in RefundsOf(a) : refund'[r] \in {"SUCCEEDED"}
    BY SomeRefund
  <2> QED
    BY <2>1 DEF Returned
<1>2. Owed(a)' <=> \E r \in RefundsOf(a) : refund'[r] \in Repaying
  <2>1. (\E reason \in RefundReason : refund'[<<a, reason>>] \in Repaying)
          <=> \E r \in RefundsOf(a) : refund'[r] \in Repaying
    BY SomeRefund
  <2> QED
    BY <2>1 DEF Owed
<1>3. MoneyOf(a)' = IF Returned(a)' THEN "returned" ELSE IF Owed(a)' THEN "owed" ELSE "kept"
  BY DEF Captured, MoneyOf
<1> QED
  BY <1>1, <1>2, <1>3

\* Recorded money is a capture, with the bank transaction of that capture.
LEMMA RecordedCaptures ==
  /\ Money!Recorded = {a \in Attempts : Captured(a)}
  /\ \A b \in Attempts : Money!Spent(b) <=> \E a \in Attempts : Captured(a) /\ bankTran[a] = b
<1>1. \A a \in Attempts : MoneyOf(a) \in {"kept", "owed", "returned"} <=> Captured(a)
  BY DEF MoneyOf, Captured
<1>2. Money!Recorded = {a \in Attempts : Captured(a)}
  BY <1>1 DEF Money!Recorded, Money!Payments, Attempts
<1>3. \A a \in Attempts : Captured(a) => TransactionOf(a) = bankTran[a]
  BY DEF Captured, TransactionOf
<1> QED
  BY <1>2, <1>3 DEF Money!Spent

\* Refunds that neither leave nor reach the provider.
LEMMA SentStays ==
  ASSUME \A r \in Refunds : refund'[r] # refund[r] => refund[r] \notin AtProvider /\ refund'[r] \notin AtProvider
  PROVE  UNCHANGED SentRow
<1>1. \A a \in Attempts : SentOf(a)' = SentOf(a)
  BY RefundOf DEF SentOf
<1> QED
  BY <1>1 DEF SentRow

LEMMA MoneyMoves ==
  ASSUME NEW a \in Attempts, NEW m, MoneyOf(a)' = m, \A b \in Attempts \ {a} : MoneyOf(b)' = MoneyOf(b)
  PROVE  Money!Becomes(a, m)
<1>1. MoneyRow' = [MoneyRow EXCEPT ![a] = m]
  BY DEF MoneyRow
<1> QED
  BY <1>1 DEF Money!Becomes, MoneyRow

\* The money of an attempt moves only with its own rows.
LEMMA MoneyStays ==
  ASSUME NEW a \in Attempts, attempt'[a] = attempt[a], replayOf'[a] = replayOf[a],
         \A r \in RefundsOf(a) : refund'[r] = refund[r]
  PROVE  MoneyOf(a)' = MoneyOf(a) /\ SentOf(a)' = SentOf(a)
  BY RefundOf DEF MoneyOf, Returned, Owed, SentOf

-----------------------------------------------------------------------------
(* A settled payment.                                                      *)

LEMMA FulfilImplements ==
  ASSUME LedgerInv, PurchaseInv', NEW a \in Attempts, Fulfil(a[1], a)
  PROVE  Money!Settle(a)
<1> USE DEF LedgerInv
<1>1. FulfilSettles(a) /\ (Replays(a) \/ Repays(a) \/ Buys(a))
  BY FulfilMoves
<1>2. /\ ~Captured(a) /\ (Captured(a)' <=> ~Replays(a))
      /\ \A r \in RefundsOf(a) : refund[r] = "NONE"
      /\ \A o \in Orders : fulfilledBy[o] # a
  BY <1>1, SettlingCaptures DEF Repays, Buys
<1>3. MoneyOf(a) = "unsettled" /\ attempt'[a] = "SUCCEEDED"
  BY <1>1 DEF FulfilSettles, MoneyOf, TypeOK
<1>4. bankTran[a] \in Attempts
  BY <1>1 DEF FulfilSettles, TransactionsKnown
<1>5. [b \in Attempts |-> TransactionOf(b)]' = [[b \in Attempts |-> TransactionOf(b)] EXCEPT ![a] = bankTran[a]]
  <2>1. \A b \in Attempts \ {a} : TransactionOf(b)' = TransactionOf(b)
    BY <1>1 DEF FulfilSettles, TransactionOf, TypeOK
  <2>2. TransactionOf(a)' = bankTran[a]
    BY <1>1, <1>3 DEF FulfilSettles, TransactionOf
  <2> QED
    BY <2>1, <2>2
<1>6. ASSUME \A b \in Attempts \ {a} : replayOf'[b] = replayOf[b],
             \A r \in Refunds \ RefundsOf(a) : refund'[r] = refund[r], NEW m, MoneyOf(a)' = m
      PROVE  Money!Becomes(a, m)
  <2>1. ASSUME NEW b \in Attempts \ {a}
        PROVE  MoneyOf(b)' = MoneyOf(b)
    <3>1. \A r \in RefundsOf(b) : r \in Refunds \ RefundsOf(a)
      BY DEF RefundsOf, Refunds
    <3>2. attempt'[b] = attempt[b]
      BY <1>1 DEF FulfilSettles, TypeOK
    <3> QED
      BY <1>6, <3>1, <3>2, MoneyStays
  <2> QED
    BY <1>6, <2>1, MoneyMoves
<1>7. CASE Replays(a)
  <2>1. PICK c \in SameCapture(a) : replayOf' = [replayOf EXCEPT ![a] = c]
    BY <1>7 DEF Replays
  <2>2. c \in Attempts /\ Captured(c) /\ bankTran[c] = bankTran[a] /\ c # NoAttempt
    BY NoAttemptAssumption DEF SameCapture
  <2>3. MoneyOf(a)' = "copied"
    BY <1>3, <2>1, <2>2 DEF MoneyOf, TypeOK
  <2>4. Money!Becomes(a, "copied")
    BY <1>6, <1>7, <2>1, <2>3 DEF Replays, TypeOK
  <2>5. Money!Spent(bankTran[a])
    BY <1>4, <2>2, RecordedCaptures
  <2>6. UNCHANGED <<fulfilledBy, [b \in Attempts |-> SentOf(b)], {t \in Tickets : ticket[t] = "CHECKED_IN"}>>
    BY <1>7, SentStays DEF Replays, orderVars, SentRow
  <2> QED
    BY <1>3, <1>4, <1>5, <2>4, <2>5, <2>6 DEF Money!Settle, Money!Copy, Money!Payments, Attempts
<1>8. ASSUME ~Replays(a), Repays(a) \/ Buys(a)
      PROVE  ~Money!Spent(bankTran[a]) /\ replayOf' = replayOf /\ Captured(a)'
  BY <1>2, <1>4, <1>8, RecordedCaptures DEF Repays, Buys, SameCapture
<1>9. CASE ~Replays(a) /\ Repays(a)
  <2>1. PICK reason \in RefundReason : EnsureCaptureRefund(a[1], a, reason)
    BY <1>9 DEF Repays
  <2>2. /\ \A r \in Refunds : refund'[r] # refund[r] =>
             r \in RefundsOf(a) /\ refund[r] \in {"NONE", "REQUESTED", "REJECTED"} /\ refund'[r] = "APPROVED"
        /\ \E r \in RefundsOf(a) : refund'[r] \notin {"NONE", "REJECTED"}
    BY <2>1, AttemptType, EnsureCaptureRefundMoves
  <2>3. \A r \in RefundsOf(a) : r \in Refunds
    BY DEF RefundsOf, Refunds
  <2>4. /\ \A r \in RefundsOf(a) : refund'[r] \in {"NONE", "APPROVED"}
        /\ \E r \in RefundsOf(a) : refund'[r] = "APPROVED"
    BY <1>2, <2>2, <2>3
  <2>5. MoneyOf(a)' = "owed"
    <3>1. ~Returned(a)'
      BY <2>4, RefundOf DEF Returned
    <3>2. Owed(a)'
      BY <2>4, ReasonOf DEF Owed, Repaying
    <3> QED
      BY <1>8, <1>9, <3>1, <3>2 DEF Captured, MoneyOf
  <2>6. Money!Becomes(a, "owed")
    BY <1>6, <1>8, <1>9, <2>2, <2>5
  <2>7. UNCHANGED ticket
    BY <1>2, <2>1, AttemptType DEF EnsureCaptureRefund, VoidsTickets
  <2>8. UNCHANGED <<fulfilledBy, [b \in Attempts |-> SentOf(b)], {t \in Tickets : ticket[t] = "CHECKED_IN"}>>
    <3>1. UNCHANGED SentRow
      BY <2>2, SentStays DEF AtProvider, InFlight
    <3> QED
      BY <1>9, <2>7, <3>1 DEF Repays, PurchasesStay, SentRow
  <2> QED
    BY <1>3, <1>4, <1>5, <1>8, <1>9, <2>6, <2>8 DEF Money!Settle, Money!Owe, Money!Payments, Attempts
<1>10. CASE ~Replays(a) /\ Buys(a)
  <2>1. MoneyOf(a)' = "kept"
    <3>1. ~Returned(a)' /\ ~Owed(a)'
      BY <1>2, <1>10, RefundOf DEF Buys, Returned, Owed, Repaying
    <3> QED
      BY <1>8, <1>10, <3>1 DEF Captured, MoneyOf
  <2>2. Money!Becomes(a, "kept")
    BY <1>6, <1>8, <1>10, <2>1 DEF Buys
  <2>3. fulfilledBy[a[1]] = NoAttempt /\ fulfilledBy' = [fulfilledBy EXCEPT ![a[1]] = a]
    BY <1>10 DEF Buys
  <2>4. UNCHANGED {t \in Tickets : ticket[t] = "CHECKED_IN"}
    BY <1>10 DEF Buys, MoveTickets
  <2>5. UNCHANGED [b \in Attempts |-> SentOf(b)]
    BY <1>10, SentStays DEF Buys, SentRow
  <2> QED
    BY <1>3, <1>4, <1>5, <1>8, <1>10, <2>2, <2>3, <2>4, <2>5
    DEF Money!Settle, Money!Buy, Money!Payments, Attempts
<1> QED
  BY <1>1, <1>7, <1>9, <1>10

-----------------------------------------------------------------------------
(* Refunds.                                                                *)

MoneyVars == <<[a \in Attempts |-> MoneyOf(a)], [a \in Attempts |-> TransactionOf(a)], fulfilledBy,
               [a \in Attempts |-> SentOf(a)], {t \in Tickets : ticket[t] = "CHECKED_IN"}>>

\* Nobody is inside on the tickets of a purchase whose refund is asked for or under way.
LEMMA NobodyInside ==
  ASSUME PurchaseInv, NEW o \in Orders, NEW r \in RefundsOf(fulfilledBy[o]), refund[r] \notin {"NONE", "REJECTED"}
  PROVE  \A t \in TicketsOf(o) : ticket[t] # "CHECKED_IN"
  BY DEF PurchaseInv, InsideExclusive, Tickets, TicketsOf

\* What one refund of a capture does to the money.
LEMMA OneRefundMoves ==
  ASSUME LedgerInv, NEW r \in Refunds, NEW s, refund' = [refund EXCEPT ![r] = s],
         UNCHANGED <<paymentVars, gateway, bankTran, fulfilledBy>>, refund[r] # "NONE" \/ Captured(r[1])
  PROVE  /\ r[1] \in Attempts /\ Captured(r[1]) /\ Captured(r[1])' /\ r \in RefundsOf(r[1])
         /\ refund'[r] = s /\ \A q \in RefundsOf(r[1]) \ {r} : refund'[q] = refund[q]
         /\ \A b \in Attempts \ {r[1]} : MoneyOf(b)' = MoneyOf(b) /\ SentOf(b)' = SentOf(b)
         /\ UNCHANGED <<[a \in Attempts |-> TransactionOf(a)], fulfilledBy>>
<1> USE DEF LedgerInv
<1>1. r[1] \in Attempts /\ r \in RefundsOf(r[1]) /\ \A a \in Attempts : RefundsOf(a) \subseteq Refunds
  BY DEF Refunds, RefundsOf
<1>2. Captured(r[1]) /\ Captured(r[1])'
  BY DEF PurchaseInv, RefundRows, Captured, paymentVars
<1>3. refund'[r] = s /\ \A q \in Refunds \ {r} : refund'[q] = refund[q]
  BY DEF TypeOK
<1>4. ASSUME NEW b \in Attempts \ {r[1]}
      PROVE  MoneyOf(b)' = MoneyOf(b) /\ SentOf(b)' = SentOf(b)
  <2>1. \A q \in RefundsOf(b) : refund'[q] = refund[q]
    BY <1>1, <1>3 DEF RefundsOf
  <2> QED
    BY <2>1, MoneyStays DEF paymentVars
<1>5. UNCHANGED [a \in Attempts |-> TransactionOf(a)]
  BY DEF TransactionOf, paymentVars
<1> QED
  BY <1>1, <1>2, <1>3, <1>4, <1>5

\* The refunds of a capture at the provider, before and after.
LEMMA SentMoves ==
  ASSUME NEW a \in Attempts, NEW S, SentOf(a)' = S, \A b \in Attempts \ {a} : SentOf(b)' = SentOf(b)
  PROVE  [b \in Attempts |-> SentOf(b)]' = [[b \in Attempts |-> SentOf(b)] EXCEPT ![a] = S]
  OBVIOUS

LEMMA SentAlone ==
  ASSUME PurchaseInv, NEW a \in Attempts, NEW r \in RefundsOf(a)
  PROVE  /\ refund[r] \in AtProvider => SentOf(a) = {r[2]}
         /\ (\A q \in RefundsOf(a) : refund[q] \notin AtProvider) => SentOf(a) = {}
<1>1. ASSUME NEW reason \in SentOf(a), refund[r] \in AtProvider
      PROVE  reason = r[2]
  <2>1. <<a, reason>> \in RefundsOf(a) /\ refund[<<a, reason>>] \in AtProvider
    BY <1>1, RefundOf DEF SentOf
  <2>2. <<a, reason>> = r
    BY <1>1, <2>1 DEF PurchaseInv, OneRefundAtProvider, AtProvider
  <2> QED
    BY <2>2
<1>2. refund[r] \in AtProvider => r[2] \in SentOf(a)
  BY ReasonOf DEF SentOf
<1>3. (\A q \in RefundsOf(a) : refund[q] \notin AtProvider) => SentOf(a) = {}
  BY RefundOf DEF SentOf
<1> QED
  BY <1>1, <1>2, <1>3

LEMMA SentAfter ==
  ASSUME NEW a \in Attempts, NEW r \in RefundsOf(a),
         \A q \in RefundsOf(a) \ {r} : refund'[q] = refund[q] /\ refund[q] \notin AtProvider
  PROVE  SentOf(a)' = IF refund'[r] \in AtProvider THEN {r[2]} ELSE {}
<1>1. r[2] \in RefundReason /\ r = <<a, r[2]>>
  BY ReasonOf
<1>2. \A reason \in RefundReason : refund'[<<a, reason>>] \in AtProvider <=> reason = r[2] /\ refund'[r] \in AtProvider
  BY <1>1, RefundOf
<1> QED
  BY <1>1, <1>2 DEF SentOf

\* A request or its rejection, and an answer that leaves the refund in flight.
LEMMA RefundStutters ==
  ASSUME LedgerInv, NEW r \in Refunds, NEW s, refund' = [refund EXCEPT ![r] = s],
         UNCHANGED <<paymentVars, gateway, bankTran, fulfilledBy>>, refund[r] # "NONE" \/ Captured(r[1]),
         refund[r] = "SUCCEEDED" <=> s = "SUCCEEDED", refund[r] \in Repaying <=> s \in Repaying,
         refund[r] \in AtProvider <=> s \in AtProvider,
         \A t \in Tickets : ticket'[t] = "CHECKED_IN" <=> ticket[t] = "CHECKED_IN"
  PROVE  UNCHANGED MoneyVars
<1> DEFINE a == r[1]
<1>1. /\ a \in Attempts /\ Captured(a) /\ Captured(a)' /\ r \in RefundsOf(a)
      /\ refund'[r] = s /\ \A q \in RefundsOf(a) \ {r} : refund'[q] = refund[q]
      /\ \A b \in Attempts \ {a} : MoneyOf(b)' = MoneyOf(b) /\ SentOf(b)' = SentOf(b)
      /\ UNCHANGED <<[b \in Attempts |-> TransactionOf(b)], fulfilledBy>>
  BY OneRefundMoves
<1> HIDE DEF a
<1>2. \A q \in RefundsOf(a) : /\ refund'[q] = "SUCCEEDED" <=> refund[q] = "SUCCEEDED"
                              /\ refund'[q] \in Repaying <=> refund[q] \in Repaying
                              /\ refund'[q] \in AtProvider <=> refund[q] \in AtProvider
  BY <1>1
<1>3. MoneyOf(a)' = MoneyOf(a)
  BY <1>1, <1>2, CapturedMoney, CapturedMoneyNext
<1>4. SentOf(a)' = SentOf(a)
  BY <1>1, <1>2, RefundOf DEF SentOf
<1>5. UNCHANGED <<[b \in Attempts |-> MoneyOf(b)], [b \in Attempts |-> SentOf(b)]>>
  BY <1>1, <1>3, <1>4
<1> QED
  BY <1>1, <1>5 DEF MoneyVars

LEMMA SendImplements ==
  ASSUME LedgerInv, NEW r \in Refunds, RefundMoves(r), Sends(r)
  PROVE  Money!Send(r[1])
<1> DEFINE a == r[1]
<1> USE DEF LedgerInv
<1>1. /\ a \in Attempts /\ Captured(a) /\ Captured(a)' /\ r \in RefundsOf(a)
      /\ refund'[r] = "PROCESSING" /\ \A q \in RefundsOf(a) \ {r} : refund'[q] = refund[q]
      /\ \A b \in Attempts \ {a} : MoneyOf(b)' = MoneyOf(b) /\ SentOf(b)' = SentOf(b)
      /\ UNCHANGED <<[b \in Attempts |-> TransactionOf(b)], fulfilledBy>>
  BY OneRefundMoves DEF RefundMoves, Sends
<1>2. UNCHANGED {t \in Tickets : ticket[t] = "CHECKED_IN"}
  BY DEF Sends, OrdersStay
<1>3. refund[r] \in {"APPROVED", "FAILED"} /\ \A q \in RefundsOf(a) \ {r} : refund[q] \notin AtProvider
  BY DEF Sends, Live, LiveRefund, AtProvider, InFlight
<1> HIDE DEF a
<1>4. SentOf(a) = {} /\ SentOf(a)' = {r[2]} /\ r[2] \in RefundReason
  BY <1>1, <1>3, SentAlone, SentAfter, ReasonOf DEF AtProvider, InFlight
<1>5. MoneyOf(a) = "owed" /\ MoneyOf(a)' = "owed"
  BY <1>1, <1>3, CapturedMoney, CapturedMoneyNext DEF AtProvider, Repaying
<1>6. [b \in Attempts |-> SentOf(b)]' = [[b \in Attempts |-> SentOf(b)] EXCEPT ![a] = {r[2]}]
  BY <1>1, <1>4, SentMoves
<1>7. UNCHANGED [b \in Attempts |-> MoneyOf(b)]
  BY <1>1, <1>5
<1>8. Money!Send(a)
  BY <1>1, <1>2, <1>4, <1>5, <1>6, <1>7 DEF Money!Send
<1> QED
  BY <1>8 DEF a

LEMMA RefusalImplements ==
  ASSUME LedgerInv, NEW r \in Refunds, RefundMoves(r), refund[r] \in InFlight,
         refund' = [refund EXCEPT ![r] = "FAILED"], OrdersStay
  PROVE  Money!Refused(r[1])
<1> DEFINE a == r[1]
<1> USE DEF LedgerInv
<1>1. /\ a \in Attempts /\ Captured(a) /\ Captured(a)' /\ r \in RefundsOf(a)
      /\ refund'[r] = "FAILED" /\ \A q \in RefundsOf(a) \ {r} : refund'[q] = refund[q]
      /\ \A b \in Attempts \ {a} : MoneyOf(b)' = MoneyOf(b) /\ SentOf(b)' = SentOf(b)
      /\ UNCHANGED <<[b \in Attempts |-> TransactionOf(b)], fulfilledBy>>
  BY OneRefundMoves DEF RefundMoves, InFlight
<1>2. UNCHANGED {t \in Tickets : ticket[t] = "CHECKED_IN"}
  BY DEF OrdersStay
<1> HIDE DEF a
<1>3. refund[r] \in AtProvider /\ refund[r] # "SUCCEEDED" /\ refund[r] \in Repaying
  BY DEF AtProvider, InFlight, Repaying
<1>4. \A q \in RefundsOf(a) \ {r} : refund[q] \notin AtProvider
  BY <1>1, <1>3 DEF PurchaseInv, OneRefundAtProvider, AtProvider
<1>5. SentOf(a) # {} /\ SentOf(a)' = {}
  BY <1>1, <1>3, <1>4, SentAlone, SentAfter DEF AtProvider, InFlight
<1>6. MoneyOf(a) = "owed" /\ MoneyOf(a)' = "owed"
  BY <1>1, <1>3, <1>4, CapturedMoney, CapturedMoneyNext DEF AtProvider, Repaying
<1>7. [b \in Attempts |-> SentOf(b)]' = [[b \in Attempts |-> SentOf(b)] EXCEPT ![a] = {}]
  BY <1>1, <1>5, SentMoves
<1>8. UNCHANGED [b \in Attempts |-> MoneyOf(b)]
  BY <1>1, <1>6
<1>9. Money!Refused(a)
  BY <1>1, <1>2, <1>5, <1>6, <1>7, <1>8 DEF Money!Refused
<1> QED
  BY <1>9 DEF a

LEMMA PayBackImplements ==
  ASSUME LedgerInv, NEW r \in Refunds, RefundMoves(r), PaysBack(r)
  PROVE  Money!PayBack(r[1])
<1> DEFINE a == r[1]
<1> USE DEF LedgerInv
<1>1. /\ a \in Attempts /\ Captured(a) /\ Captured(a)' /\ r \in RefundsOf(a)
      /\ refund'[r] = "SUCCEEDED" /\ \A q \in RefundsOf(a) \ {r} : refund'[q] = refund[q]
      /\ \A b \in Attempts \ {a} : MoneyOf(b)' = MoneyOf(b) /\ SentOf(b)' = SentOf(b)
      /\ UNCHANGED <<[b \in Attempts |-> TransactionOf(b)], fulfilledBy>>
  BY OneRefundMoves DEF RefundMoves, PaysBack, InFlight
<1>2. UNCHANGED {t \in Tickets : ticket[t] = "CHECKED_IN"}
  <2>1. CASE fulfilledBy[a[1]] = a /\ order[a[1]] = "PAID"
    <3>1. \A t \in TicketsOf(a[1]) : ticket[t] # "CHECKED_IN"
      BY <1>1, <2>1, AttemptType, NobodyInside DEF PaysBack, InFlight
    <3>2. MoveTickets({a[1]}, TicketStatus, "REFUNDED")
      BY <2>1 DEF PaysBack
    <3> QED
      BY <3>1, <3>2 DEF MoveTickets, Tickets, TicketsOf
  <2>2. CASE ~(fulfilledBy[a[1]] = a /\ order[a[1]] = "PAID")
    BY <2>2 DEF PaysBack
  <2> QED
    BY <2>1, <2>2
<1>3. refund[r] \in AtProvider /\ refund[r] # "SUCCEEDED" /\ refund[r] \in Repaying
  BY DEF PaysBack, AtProvider, InFlight, Repaying
<1> HIDE DEF a
<1>4. \A q \in RefundsOf(a) \ {r} : refund[q] \notin AtProvider
  BY <1>1, <1>3 DEF PurchaseInv, OneRefundAtProvider, AtProvider
<1>5. SentOf(a) = {r[2]} /\ SentOf(a)' = {r[2]}
  BY <1>1, <1>3, <1>4, SentAlone, SentAfter DEF AtProvider
<1>6. MoneyOf(a) = "owed" /\ MoneyOf(a)' = "returned"
  BY <1>1, <1>3, <1>4, CapturedMoney, CapturedMoneyNext DEF AtProvider
<1>7. Money!Becomes(a, "returned")
  BY <1>1, <1>6, MoneyMoves
<1>8. UNCHANGED [b \in Attempts |-> SentOf(b)]
  BY <1>1, <1>5
<1>9. Money!PayBack(a)
  BY <1>1, <1>2, <1>5, <1>6, <1>7, <1>8 DEF Money!PayBack
<1> QED
  BY <1>9 DEF a

LEMMA ApprovalImplements ==
  ASSUME LedgerInv, NEW r \in Refunds, RefundMoves(r), Approves(r)
  PROVE  Money!GiveUp(r[1]) \/ UNCHANGED MoneyVars
<1> DEFINE a == r[1]
           o == a[1]
<1> USE DEF LedgerInv
<1>1. /\ a \in Attempts /\ Captured(a) /\ Captured(a)' /\ r \in RefundsOf(a)
      /\ refund'[r] = "APPROVED" /\ \A q \in RefundsOf(a) \ {r} : refund'[q] = refund[q]
      /\ \A b \in Attempts \ {a} : MoneyOf(b)' = MoneyOf(b) /\ SentOf(b)' = SentOf(b)
      /\ UNCHANGED <<[b \in Attempts |-> TransactionOf(b)], fulfilledBy>>
  BY OneRefundMoves DEF RefundMoves, Approves
<1>2. refund[r] = "REQUESTED" /\ fulfilledBy[o] = a /\ o \in Orders
  BY <1>1, AttemptType DEF Approves, PurchaseInv, RefundRows
<1>3. \A t \in TicketsOf(o) : ticket[t] # "CHECKED_IN"
  BY <1>1, <1>2, NobodyInside
<1>4. \A t \in Tickets : ticket'[t] = "CHECKED_IN" <=> ticket[t] = "CHECKED_IN"
  BY DEF Approves, MoveTickets
<1>5. {t \in Tickets : ticket[t] = "CHECKED_IN"}' = {t \in Tickets : ticket[t] = "CHECKED_IN"} \ Money!TicketsOf(o)
  BY <1>3, <1>4 DEF Money!TicketsOf, TicketsOf
<1> HIDE DEF a, o
<1>6. UNCHANGED {t \in Tickets : ticket[t] = "CHECKED_IN"}
  BY <1>4
<1>7. UNCHANGED [b \in Attempts |-> SentOf(b)]
  <2>1. SentOf(a)' = SentOf(a)
    BY <1>1, <1>2, RefundOf DEF SentOf, AtProvider, InFlight
  <2> QED
    BY <1>1, <2>1
<1>8. CASE MoneyOf(a) = "kept"
  <2>1. MoneyOf(a)' = "owed"
    BY <1>1, <1>2, <1>8, CapturedMoney, CapturedMoneyNext DEF Repaying
  <2>2. Money!Becomes(a, "owed")
    BY <1>1, <2>1, MoneyMoves
  <2>3. Money!GiveUp(a)
    BY <1>1, <1>5, <1>7, <1>8, <2>2 DEF Money!GiveUp, o
  <2> QED
    BY <2>3 DEF a
<1>9. CASE MoneyOf(a) # "kept"
  <2>1. \A q \in RefundsOf(a) : refund'[q] = "SUCCEEDED" <=> refund[q] = "SUCCEEDED"
    BY <1>1, <1>2
  <2>2. MoneyOf(a)' = MoneyOf(a)
    BY <1>1, <1>9, <2>1, CapturedMoney, CapturedMoneyNext DEF Repaying
  <2> QED
    BY <1>1, <1>6, <1>7, <2>2 DEF MoneyVars
<1> QED
  BY <1>8, <1>9

LEMMA RefundImplements ==
  ASSUME LedgerInv, RefundStep
  PROVE  \/ \E a \in Attempts : Money!GiveUp(a) \/ Money!Send(a) \/ Money!Refused(a) \/ Money!PayBack(a)
         \/ UNCHANGED MoneyVars
<1> USE DEF LedgerInv
<1>1. PICK r \in Refunds : RefundMoves(r)
  BY RefundStepMoves DEF PurchaseInv
<1>2. r[1] \in Attempts
  BY DEF Refunds
<1>3. CASE Asks(r)
  BY <1>1, <1>3, RefundStutters DEF RefundMoves, Asks, OrdersStay, Repaying, AtProvider, InFlight
<1>4. CASE Rejects(r)
  BY <1>1, <1>4, RefundStutters DEF RefundMoves, Rejects, OrdersStay, Repaying, AtProvider, InFlight
<1>5. CASE Hears(r)
  <2>1. PICK s \in (IF refund[r] = "FAILED" THEN {"APPROVED"} ELSE InFlight \cup {"FAILED"}) :
          refund' = [refund EXCEPT ![r] = s]
    BY <1>5 DEF Hears
  <2>2. CASE refund[r] \in InFlight /\ s = "FAILED"
    BY <1>1, <1>2, <1>5, <2>1, <2>2, RefusalImplements DEF Hears
  <2>3. CASE ~(refund[r] \in InFlight /\ s = "FAILED")
    BY <1>1, <1>5, <2>1, <2>3, RefundStutters
    DEF RefundMoves, Hears, OrdersStay, Repaying, AtProvider, InFlight
  <2> QED
    BY <2>2, <2>3
<1> QED
  BY <1>1, <1>2, <1>3, <1>4, <1>5, SendImplements, PayBackImplements, ApprovalImplements DEF RefundMoves

-----------------------------------------------------------------------------
(* The event, its cancellation job and the door.                           *)

\* Money whose attempts and refunds stay.
LEMMA RowsStay ==
  ASSUME \A a \in Attempts : (attempt'[a] = "SUCCEEDED" <=> attempt[a] = "SUCCEEDED")
           /\ (attempt[a] = "SUCCEEDED" => bankTran'[a] = bankTran[a]),
         UNCHANGED <<replayOf, refund, fulfilledBy>>
  PROVE  UNCHANGED <<[a \in Attempts |-> MoneyOf(a)], [a \in Attempts |-> TransactionOf(a)], fulfilledBy,
                     [a \in Attempts |-> SentOf(a)]>>
<1>1. \A a \in Attempts : MoneyOf(a)' = MoneyOf(a) /\ TransactionOf(a)' = TransactionOf(a) /\ SentOf(a)' = SentOf(a)
  BY DEF MoneyOf, Returned, Owed, TransactionOf, SentOf
<1> QED
  BY <1>1

LEMMA OrderImplements == ASSUME LedgerInv, OrderStep PROVE UNCHANGED MoneyVars
<1>1. PurchasesStay /\ OtherRowsStay
  BY OrderStepMoves DEF LedgerInv
<1> QED
  BY <1>1, RowsStay DEF PurchasesStay, OtherRowsStay, MoneyVars, paymentVars

LEMMA CheckoutImplements == ASSUME LedgerInv, CheckoutMoves PROVE UNCHANGED MoneyVars
<1>1. \A a \in Attempts : attempt[a] = "SUCCEEDED" => bankTran'[a] = bankTran[a]
  BY DEF CheckoutMoves, LedgerInv, PurchaseInv, Captures
<1> QED
  BY <1>1, RowsStay DEF CheckoutMoves, MoneyVars, orderVars

LEMMA CancelImplements == ASSUME LedgerInv, CancelEvent PROVE Money!Empty
<1>1. UNCHANGED <<orderVars, paymentVars, refund, bankTran>> /\ MoveTickets(Orders, {"ACTIVE", "CHECKED_IN"}, "VOIDED")
  BY DEF CancelEvent, refundVars, gatewayVars
<1>2. {t \in Tickets : ticket[t] = "CHECKED_IN"}' = {}
  BY <1>1 DEF MoveTickets, Tickets, TicketsOf
<1> QED
  BY <1>1, <1>2, RowsStay DEF Money!Empty, orderVars, paymentVars

LEMMA CheckInImplements ==
  ASSUME LedgerInv, NEW t \in Tickets, CheckIn(t)
  PROVE  Money!Enter(t)
<1> DEFINE a == fulfilledBy[t[1]]
<1>1. /\ UNCHANGED <<orderVars, paymentVars, refund, bankTran>>
      /\ Admissible(t) /\ ticket' = [ticket EXCEPT ![t] = "CHECKED_IN"]
  BY DEF CheckIn, refundVars, gatewayVars
<1>2. a \in Attempts /\ a # NoAttempt /\ Captured(a)
  BY <1>1 DEF Admissible, LedgerInv, TypeOK, Tickets, TicketsOf
<1>3. \A r \in RefundsOf(a) : refund[r] \notin Repaying \cup {"SUCCEEDED"}
  BY <1>1 DEF Admissible, Repaying
<1> HIDE DEF a
<1>4. MoneyOf(a) = "kept"
  BY <1>2, <1>3, CapturedMoney
<1>5. {u \in Tickets : ticket[u] = "CHECKED_IN"}' = {u \in Tickets : ticket[u] = "CHECKED_IN"} \cup {t}
  BY <1>1 DEF LedgerInv, TypeOK
<1> QED
  BY <1>1, <1>2, <1>4, <1>5, RowsStay DEF Money!Enter, a, orderVars, paymentVars

LEMMA DispatchImplements ==
  ASSUME LedgerInv, NEW o \in Orders, DispatchRefund(o)
  PROVE  (\E a \in Attempts : Money!GiveUp(a)) \/ UNCHANGED MoneyVars
<1> USE DEF LedgerInv
<1>a. PICK a \in Attempts : a = fulfilledBy[o]
  BY DEF DispatchRefund, TypeOK
<1> DEFINE r0 == <<a, "EVENT_CANCELLATION">>
           live == {q \in RefundsOf(a) : Live(q)}
           asked == {q \in live : refund[q] = "REQUESTED"}
           stopped == live = {} /\ refund[r0] = "FAILED"
           approve == IF live = {} /\ ~stopped THEN {r0} ELSE asked
<1>1. /\ UNCHANGED <<orderVars, paymentVars, bankTran>>
      /\ a # NoAttempt /\ Captured(a) /\ a[1] = o
  BY <1>a DEF DispatchRefund, gatewayVars, TypeOK, PurchaseInv, Purchases
<1>2. EnsureCaptureRefund(o, a, "EVENT_CANCELLATION")
  BY <1>a DEF DispatchRefund
<1>3. /\ refund' = [q \in Refunds |-> IF q \in approve THEN "APPROVED" ELSE refund[q]]
      /\ IF ~stopped THEN MoveTickets({o}, {"ACTIVE", "CHECKED_IN"}, "VOIDED") ELSE UNCHANGED ticket
  BY <1>a, <1>2 DEF EnsureCaptureRefund, VoidsTickets
<1>4. r0 \in RefundsOf(a) /\ RefundsOf(a) \subseteq Refunds /\ Captured(a)'
  BY <1>1 DEF RefundsOf, Refunds, RefundReason, Captured, paymentVars
<1>5. \A q \in Refunds : refund'[q] # refund[q] =>
        q \in RefundsOf(a) /\ refund[q] \in {"NONE", "REQUESTED", "REJECTED"} /\ refund'[q] = "APPROVED"
  BY <1>1, <1>2, EnsureCaptureRefundMoves DEF RefundReason
<1>6. \A t \in Tickets : ticket'[t] = "CHECKED_IN" => ticket[t] = "CHECKED_IN"
  BY <1>3 DEF MoveTickets
<1>7. \A t \in Tickets : ticket'[t] # ticket[t] => t \in TicketsOf(o)
  BY <1>3 DEF MoveTickets, Tickets, TicketsOf
<1>8. UNCHANGED <<[b \in Attempts |-> TransactionOf(b)], fulfilledBy>>
  BY <1>1 DEF TransactionOf, orderVars, paymentVars
<1>9. UNCHANGED [b \in Attempts |-> SentOf(b)]
  <2>1. UNCHANGED SentRow
    BY <1>5, SentStays DEF AtProvider, InFlight
  <2> QED
    BY <2>1 DEF SentRow
<1>10. \A b \in Attempts \ {a} : MoneyOf(b)' = MoneyOf(b)
  <2>1. ASSUME NEW b \in Attempts \ {a}, NEW q \in RefundsOf(b)
        PROVE  refund'[q] = refund[q]
    BY <1>5 DEF RefundsOf, Refunds
  <2> QED
    BY <1>1, <2>1, MoneyStays DEF paymentVars
<1>11. CASE MoneyOf(a) = "kept"
  <2>1. \A q \in RefundsOf(a) : refund[q] \in {"NONE", "REQUESTED", "REJECTED"}
    BY <1>1, <1>4, <1>11, CapturedMoney DEF Repaying, TypeOK, RefundStatus
  <2>2. ~stopped
    BY <1>4, <2>1
  <2>3. \E q \in RefundsOf(a) : refund'[q] = "APPROVED"
    <3>1. CASE live = {}
      BY <1>3, <1>4, <2>2, <3>1
    <3>2. CASE live # {}
      <4>1. PICK q \in RefundsOf(a) : Live(q)
        BY <3>2
      <4>2. q \in asked
        BY <2>1, <4>1 DEF Live, LiveRefund
      <4> QED
        BY <1>3, <1>4, <3>2, <4>2
    <3> QED
      BY <3>1, <3>2
  <2>4. \A q \in RefundsOf(a) : refund'[q] # "SUCCEEDED"
    BY <1>4, <1>5, <2>1
  <2>5. MoneyOf(a)' = "owed"
    BY <1>1, <1>4, <2>3, <2>4, CapturedMoneyNext DEF Repaying
  <2>6. Money!Becomes(a, "owed")
    BY <1>1, <1>10, <2>5, MoneyMoves
  <2>7. MoveTickets({o}, {"ACTIVE", "CHECKED_IN"}, "VOIDED")
    BY <1>3, <2>2
  <2>8. {t \in Tickets : ticket[t] = "CHECKED_IN"}' = {t \in Tickets : ticket[t] = "CHECKED_IN"} \ Money!TicketsOf(o)
    BY <2>7 DEF MoveTickets, Money!TicketsOf, Tickets, TicketsOf
  <2> QED
    BY <1>1, <1>8, <1>9, <1>11, <2>6, <2>8 DEF Money!GiveUp
<1>12. CASE MoneyOf(a) # "kept"
  <2>1. PICK r \in RefundsOf(a) : refund[r] \in Repaying \cup {"SUCCEEDED"}
    BY <1>1, <1>12, CapturedMoney
  <2>2. \A t \in TicketsOf(o) : ticket[t] # "CHECKED_IN"
    BY <1>a, <2>1, NobodyInside DEF Repaying
  <2>3. UNCHANGED {t \in Tickets : ticket[t] = "CHECKED_IN"}
    BY <1>6, <1>7, <2>2
  <2>4. \A q \in RefundsOf(a) : refund'[q] = "SUCCEEDED" <=> refund[q] = "SUCCEEDED"
    BY <1>4, <1>5
  <2>5. refund'[r] = refund[r]
    BY <1>4, <1>5, <2>1 DEF Repaying
  <2>6. MoneyOf(a)' = MoneyOf(a)
    <3>1. \E q \in RefundsOf(a) : refund'[q] \in Repaying \cup {"SUCCEEDED"}
      BY <2>1, <2>5
    <3> QED
      BY <1>1, <1>4, <1>12, <2>4, <3>1, CapturedMoney, CapturedMoneyNext
  <2>7. UNCHANGED [b \in Attempts |-> MoneyOf(b)]
    BY <1>10, <2>6
  <2> QED
    BY <1>8, <1>9, <2>3, <2>7 DEF MoneyVars
<1> QED
  BY <1>11, <1>12

LEMMA EventImplements ==
  ASSUME LedgerInv, EventStep
  PROVE  \/ \E a \in Attempts : Money!GiveUp(a)
         \/ \E t \in Tickets : Money!Enter(t)
         \/ Money!Empty
         \/ UNCHANGED MoneyVars
<1>1. ASSUME NEW o \in Orders, DispatchRefund(o)
      PROVE  (\E a \in Attempts : Money!GiveUp(a)) \/ UNCHANGED MoneyVars
  BY <1>1, DispatchImplements
<1>2. ASSUME CompleteEvent \/ ListPendingCaptures \/ AbandonRun \/ FinishCancellation
      PROVE  UNCHANGED MoneyVars
  <2>1. UNCHANGED <<orderVars, paymentVars, refund, bankTran, ticket>>
    BY <1>2 DEF CompleteEvent, ListPendingCaptures, AbandonRun, FinishCancellation, refundVars, gatewayVars
  <2> QED
    BY <2>1, RowsStay DEF MoneyVars, orderVars, paymentVars
<1>3. ASSUME NEW t \in Tickets, CheckIn(t)
      PROVE  Money!Enter(t)
  BY <1>3, CheckInImplements
<1>4. CancelEvent => Money!Empty
  BY CancelImplements
<1> QED
  BY <1>1, <1>2, <1>3, <1>4 DEF EventStep

-----------------------------------------------------------------------------
(* The refinement.                                                         *)

LEMMA InitLedger == Init => Money!Init
<1> SUFFICES ASSUME Init PROVE Money!Init
  OBVIOUS
<1>1. \A a \in Attempts : MoneyOf(a) = "unsettled" /\ TransactionOf(a) = NoAttempt
  BY DEF Init, MoneyOf, TransactionOf
<1>2. \A a \in Attempts : SentOf(a) = {}
  BY RefundOf DEF Init, SentOf, AtProvider, InFlight
<1>3. {t \in Tickets : ticket[t] = "CHECKED_IN"} = {}
  BY DEF Init
<1>4. fulfilledBy = [o \in Orders |-> NoAttempt]
  BY DEF Init
<1> QED
  BY <1>1, <1>2, <1>3, <1>4 DEF Money!Init, Money!Payments, Attempts

LEMMA StepLedger ==
  ASSUME LedgerInv, LedgerInv', [Next]_vars
  PROVE  [Money!Next]_MoneyVars
<1>1. ASSUME NEW a \in Attempts, Money!Settle(a) \/ Money!GiveUp(a) \/ Money!Send(a) \/ Money!Refused(a) \/ Money!PayBack(a)
      PROVE  Money!Next
  BY <1>1 DEF Money!Next, Money!Payments, Attempts
<1>2. ASSUME NEW t \in Tickets, Money!Enter(t)
      PROVE  Money!Next
  <2>1. PICK o \in Orders : t \in Money!TicketsOf(o)
    BY DEF Tickets, TicketsOf, Money!TicketsOf
  <2> QED
    BY <1>2, <2>1 DEF Money!Next
<1>3. CASE PaymentStep
  <2>1. CheckoutMoves \/ \E a \in Attempts : Fulfil(a[1], a)
    BY <1>3, PaymentStepMoves DEF LedgerInv
  <2> QED
    BY <1>1, <2>1, CheckoutImplements, FulfilImplements DEF LedgerInv
<1>4. CASE UNCHANGED vars
  BY <1>4, RowsStay DEF vars, orderVars, paymentVars, refundVars, gatewayVars, MoneyVars
<1>5. CASE OrderStep
  BY <1>5, OrderImplements
<1>6. CASE RefundStep
  BY <1>1, <1>6, RefundImplements
<1>7. CASE EventStep
  <2>1. Money!Empty => Money!Next
    BY DEF Money!Next
  <2> QED
    BY <1>1, <1>2, <1>7, <2>1, EventImplements
<1> QED
  BY <1>3, <1>4, <1>5, <1>6, <1>7 DEF Next

\* However callbacks, reconciliation, reviews, workers, the cancellation job and
\* the door interleave, the rows read as a ledger: every step moves the money of
\* at most one payment, and only as the ledger allows.
THEOREM BookingImplementsLedger == Spec => ImplementsLedger
<1>1. LedgerInv /\ LedgerInv' /\ [Next]_vars => [Money!Next]_MoneyVars
  BY StepLedger
<1>2. Spec => []LedgerInv
  BY TypeCorrect, PurchaseInvariant, TransactionsAreKnown, PTL DEF LedgerInv
<1> QED
  BY <1>1, <1>2, InitLedger, PTL DEF Spec, ImplementsLedger, Money!Spec, MoneyVars
=============================================================================
