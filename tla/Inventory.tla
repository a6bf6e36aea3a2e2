----------------------------- MODULE Inventory -----------------------------
(***************************************************************************)
(* What the booking core promises about a tier's stock, without orders'    *)
(* payments, refunds, clocks or counters: every order holds its tickets    *)
(* for a while, buys them, or gives them back, and what is held and sold   *)
(* never exceeds the capacity.                                             *)
(***************************************************************************)
EXTENDS Integers, FiniteSets

CONSTANTS Orders, Qty, InitCapacity, MaxCapacity

VARIABLES
  hold,     \* what each order has of the stock
  capacity  \* the capacity of the tier

Hold == {"none", "reserved", "sold", "expired", "returned"}

Units(os) == UNION {{o} \X (1 .. Qty[o]) : o \in os}
Taken == {o \in Orders : hold[o] \in {"reserved", "sold"}}
Fits(o) == Cardinality(Units(Taken \cup {o})) <= capacity

Init == hold = [o \in Orders |-> "none"] /\ capacity = InitCapacity

Move(o, from, to) ==
  hold[o] = from /\ hold' = [hold EXCEPT ![o] = to] /\ UNCHANGED capacity

Reserve(o) == Fits(o) /\ Move(o, "none", "reserved")
Buy(o) == Move(o, "reserved", "sold")
\* An expired hold may still be bought from stock; one given back may not.
BuyLate(o) == Fits(o) /\ Move(o, "expired", "sold")
GiveUp(o) == Move(o, "reserved", "expired") \/ Move(o, "reserved", "returned")
Return(o) == Move(o, "sold", "returned")
Grow(n) == n > capacity /\ capacity' = n /\ UNCHANGED hold

Next ==
  \/ \E o \in Orders : Reserve(o) \/ Buy(o) \/ BuyLate(o) \/ GiveUp(o) \/ Return(o)
  \/ \E n \in InitCapacity .. MaxCapacity : Grow(n)

Spec == Init /\ [][Next]_<<hold, capacity>>
=============================================================================
