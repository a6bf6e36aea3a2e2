-------------------------- MODULE MCEmailDelivery --------------------------
(* An instance of EmailDelivery small enough for TLC. *)
EXTENDS EmailDelivery

CONSTANTS link, alert, w1, w2

InMotion(n) ==
  \/ state[n] # "NONE" /\ ~Ended(n)
  \/ n \in travelling
  \/ \E w \in Workers : claim[w] # NoClaim /\ claim[w].notice = n

\* Bound of the run: the deliveries share no state but the account, and are sent
\* one after the other.
OneAtATime == ~(InMotion(link) /\ InMotion(alert))
=============================================================================
