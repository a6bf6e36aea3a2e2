------------------------------- MODULE Mailbox -------------------------------
(***************************************************************************)
(* What the delivery of mails promises, without workers, leases, attempts  *)
(* or the provider's keys: a notice is dropped at once or delivered, its   *)
(* mail goes out at most once, and its end is final.  It is SENT only if   *)
(* the mail went out; with any other end the mail may have gone out, or    *)
(* may still.                                                              *)
(***************************************************************************)

CONSTANT Notices

VARIABLES
  outcome, \* of each notice
  sent     \* notices whose mail has gone out

Uncertain == {"FAILED", "CANCELLED", "UNKNOWN"}

Init == outcome = [n \in Notices |-> "none"] /\ sent = {}

Becomes(n, end) == outcome' = [outcome EXCEPT ![n] = end] /\ UNCHANGED sent

Write(n) ==
  /\ outcome[n] = "none"
  /\ Becomes(n, "open") \/ Becomes(n, "dropped")

\* Consent, the link or the occasion is gone before the first attempt.
Drop(n) == outcome[n] = "open" /\ n \notin sent /\ Becomes(n, "dropped")

Send(n) ==
  /\ outcome[n] \in {"open"} \cup Uncertain /\ n \notin sent
  /\ sent' = sent \cup {n}
  /\ UNCHANGED outcome

Confirm(n) == outcome[n] = "open" /\ n \in sent /\ Becomes(n, "SENT")

\* The attempts are used up, refused, or no longer wanted.
Abandon(n) == outcome[n] = "open" /\ \E end \in Uncertain : Becomes(n, end)

Next == \E n \in Notices : Write(n) \/ Drop(n) \/ Send(n) \/ Confirm(n) \/ Abandon(n)

Spec == Init /\ [][Next]_<<outcome, sent>>
=============================================================================
