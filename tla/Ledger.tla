------------------------------- MODULE Ledger -------------------------------
(***************************************************************************)
(* What the booking core promises about money, without orders' states,     *)
(* callbacks, clocks or jobs: a payment that is recorded is kept for one   *)
(* purchase or owed back, what is owed is sent back by one refund at a     *)
(* time and returned once, a bank transaction is recorded once, and only   *)
(* the tickets of a payment that is kept let anybody in.                   *)
(***************************************************************************)
EXTENDS Integers

CONSTANTS Orders, Qty, MaxAttempts, Reasons, NoPayment

Payments == Orders \X (1 .. MaxAttempts)
TicketsOf(o) == {o} \X (1 .. Qty[o])

VARIABLES
  money,       \* what has become of each payment
  transaction, \* the bank transaction it was recorded with, named by a payment
  boughtBy,    \* the payment that bought each order
  sent,        \* the refunds of each payment that are, or may be, at the provider
  inside       \* tickets that have been let in

\* Recorded money: a copy of a recorded payment is no money of its own.
Recorded == {p \in Payments : money[p] \in {"kept", "owed", "returned"}}
Spent(b) == \E p \in Recorded : transaction[p] = b

Init ==
  /\ money = [p \in Payments |-> "unsettled"]
  /\ transaction = [p \in Payments |-> NoPayment]
  /\ boughtBy = [o \in Orders |-> NoPayment]
  /\ sent = [p \in Payments |-> {}]
  /\ inside = {}

Becomes(p, status) == money' = [money EXCEPT ![p] = status]

\* The payment p, recorded with the bank transaction b: as money or as a copy.
Buy(p, b) ==
  /\ Becomes(p, "kept") /\ ~Spent(b)
  /\ boughtBy[p[1]] = NoPayment
  /\ boughtBy' = [boughtBy EXCEPT ![p[1]] = p]
Owe(p, b) == Becomes(p, "owed") /\ ~Spent(b) /\ UNCHANGED boughtBy
Copy(p, b) == Becomes(p, "copied") /\ Spent(b) /\ UNCHANGED boughtBy

Settle(p) ==
  /\ money[p] = "unsettled"
  /\ \E b \in Payments :
       /\ transaction' = [transaction EXCEPT ![p] = b]
       /\ Buy(p, b) \/ Owe(p, b) \/ Copy(p, b)
  /\ UNCHANGED <<sent, inside>>

\* The purchase is given up, and with it the right to be inside.
GiveUp(p) ==
  /\ money[p] = "kept" /\ Becomes(p, "owed")
  /\ inside' = inside \ TicketsOf(p[1])
  /\ UNCHANGED <<transaction, boughtBy, sent>>

Send(p) ==
  /\ sent[p] = {} /\ money[p] = "owed"
  /\ \E r \in Reasons : sent' = [sent EXCEPT ![p] = {r}]
  /\ UNCHANGED <<money, transaction, boughtBy, inside>>
Refused(p) ==
  /\ sent[p] # {} /\ money[p] = "owed"
  /\ sent' = [sent EXCEPT ![p] = {}]
  /\ UNCHANGED <<money, transaction, boughtBy, inside>>
PayBack(p) ==
  /\ sent[p] # {} /\ money[p] = "owed" /\ Becomes(p, "returned")
  /\ UNCHANGED <<transaction, boughtBy, sent, inside>>

Enter(t) ==
  /\ boughtBy[t[1]] # NoPayment /\ money[boughtBy[t[1]]] = "kept"
  /\ inside' = inside \cup {t}
  /\ UNCHANGED <<money, transaction, boughtBy, sent>>
\* The event is called off.
Empty == inside' = {} /\ UNCHANGED <<money, transaction, boughtBy, sent>>

Next ==
  \/ \E p \in Payments :
       Settle(p) \/ GiveUp(p) \/ Send(p) \/ Refused(p) \/ PayBack(p)
  \/ \E o \in Orders : \E t \in TicketsOf(o) : Enter(t)
  \/ Empty

Spec == Init /\ [][Next]_<<money, transaction, boughtBy, sent, inside>>
=============================================================================
