---------------------------- MODULE EmailDelivery ----------------------------
(***************************************************************************)
(* The emails of one account.  Transactions write notices; jobs deliver    *)
(* them through a mail provider that may answer late, refuse, or accept a  *)
(* mail without anybody hearing of it, while workers crash and stall and   *)
(* the account's consent comes and goes.                                   *)
(***************************************************************************)
EXTENDS Integers, FiniteSets

CONSTANTS
  Notices,    \* email deliveries of the account, one for each notification
  Linked,     \* those that carry a verification link
  Alerts,     \* those that announce something that may cease to be true
  Workers,
  RetryLimit, \* attempts of a delivery
  JobLimit,   \* failures of its job
  NoClaim

ASSUME NoticesAssumption == Linked \cup Alerts \subseteq Notices
ASSUME LimitsAssumption == RetryLimit \in Nat \ {0} /\ JobLimit \in Nat \ {0}

VARIABLES
  active, consent, verified, \* the account, its preferences, its address
  wanted,    \* notices whose link is open, or whose alert still is true
  state, attempts, \* columns of the deliveries
  retry,     \* deliveries with a nextAttemptAt
  lease,     \* the attempt that holds leaseToken, 0 without one
  expired,   \* deliveries whose lease has run out
  closed,    \* deliveries first attempted 23 hours ago
  failures,  \* attempts of the job
  claim,     \* what a worker in deliverNotification has claimed and heard
  mails,     \* mails the provider has accepted
  known,     \* deliveries whose idempotency key the provider remembers
  travelling \* requests that have timed out and not yet arrived

accountVars == <<active, consent, verified, wanted>>
deliveryVars == <<state, attempts, retry, lease, expired, closed>>
providerVars == <<mails, known, travelling>>
vars == <<accountVars, deliveryVars, failures, claim, providerVars>>

DeliveryState == {"NONE", "PENDING", "SENDING", "SENT", "FAILED", "UNKNOWN", "CANCELLED"}
Answers == {"SENT", "PENDING", "FAILED", "UNKNOWN"}
Claims == [notice : Notices, attempt : 1 .. RetryLimit, answer : Answers \cup {"NONE"}]

TypeOK ==
  /\ active \in BOOLEAN /\ consent \in BOOLEAN /\ verified \in BOOLEAN
  /\ wanted \subseteq Notices
  /\ state \in [Notices -> DeliveryState]
  /\ attempts \in [Notices -> 0 .. RetryLimit]
  /\ retry \subseteq Notices
  /\ lease \in [Notices -> 0 .. RetryLimit]
  /\ expired \subseteq Notices /\ closed \subseteq Notices
  /\ failures \in [Notices -> 0 .. JobLimit]
  /\ claim \in [Workers -> Claims \cup {NoClaim}]
  /\ mails \in [Notices -> Nat]
  /\ known \subseteq Notices /\ travelling \subseteq Notices

Init ==
  /\ active = TRUE /\ consent \in BOOLEAN /\ verified \in BOOLEAN
  /\ wanted = Notices \ Linked
  /\ state = [n \in Notices |-> "NONE"]
  /\ attempts = [n \in Notices |-> 0]
  /\ retry = {}
  /\ lease = [n \in Notices |-> 0]
  /\ expired = {} /\ closed = {}
  /\ failures = [n \in Notices |-> 0]
  /\ claim = [w \in Workers |-> NoClaim]
  /\ mails = [n \in Notices |-> 0]
  /\ known = {} /\ travelling = {}

-----------------------------------------------------------------------------
(* The account: notifications.service.                                     *)

\* Consent as the write of a notice and each attempt to send it see it; a link
\* mail needs none.
Consented(n) == active /\ (n \in Linked \/ consent)
Eligible(n) == Consented(n) /\ n \in wanted /\ (n \in Linked \/ verified)

\* writeNotification, for the email channel; a repetition finds the row.
WriteDelivery(n) ==
  /\ state[n] = "NONE"
  /\ state' = [state EXCEPT ![n] = IF Consented(n) THEN "PENDING" ELSE "CANCELLED"]
  /\ retry' = IF Consented(n) THEN retry \cup {n} ELSE retry
  /\ UNCHANGED <<attempts, lease, expired, closed, failures, claim, providerVars>>

WriteNotification(n) ==
  /\ n \notin Linked
  /\ WriteDelivery(n)
  /\ UNCHANGED accountVars

\* requestEmailVerification: the new link replaces the open one.
RequestEmailVerification(n) ==
  /\ n \in Linked
  /\ active /\ ~verified
  /\ wanted' = (wanted \ Linked) \cup {n}
  /\ WriteDelivery(n)
  /\ UNCHANGED <<active, consent, verified>>

\* confirmEmail, with the link the mail brought.
ConfirmEmail(n) ==
  /\ n \in Linked \cap wanted
  /\ mails[n] > 0
  /\ active
  /\ verified' = TRUE
  /\ wanted' = wanted \ {n}
  /\ UNCHANGED <<active, consent, deliveryVars, failures, claim, providerVars>>

\* The link expires, the waitlist wave or the reminder is overtaken; what changes
\* a reminder's event also cancels its delivery, unless that is being sent.
Withdraw(n) ==
  /\ n \in (Linked \cup Alerts) \cap wanted
  /\ wanted' = wanted \ {n}
  /\ \/ UNCHANGED <<state, retry>>
     \/ /\ n \in Alerts /\ state[n] = "PENDING"
        /\ state' = [state EXCEPT ![n] = "CANCELLED"]
        /\ retry' = retry \ {n}
  /\ UNCHANGED <<active, consent, verified, attempts, lease, expired, closed, failures, claim, providerVars>>

UpdatePreferences ==
  /\ consent' = ~consent
  /\ UNCHANGED <<active, verified, wanted, deliveryVars, failures, claim, providerVars>>

SwitchAccount ==
  /\ active' = ~active
  /\ UNCHANGED <<consent, verified, wanted, deliveryVars, failures, claim, providerVars>>

-----------------------------------------------------------------------------
(* Delivery: notification-delivery.                                        *)

\* The worker brings a delivery back until its job has failed for good.
JobRuns(n) == failures[n] < JobLimit

Ended(n) ==
  \/ state[n] \in {"SENT", "FAILED", "CANCELLED"}
  \/ state[n] = "UNKNOWN" /\ n \notin retry

Claimable_Unleased(n) == state[n] \in {"PENDING", "UNKNOWN"} /\ ~Ended(n)  \* mutant: leases are not recovered
\* The time in nextAttemptAt passes by itself.
Claimable(n) ==
  /\ state[n] # "NONE" /\ ~Ended(n)
  /\ state[n] = "SENDING" => n \in expired

CanRetryEmail_AnyTime(n, k) == k < RetryLimit             \* mutant: the provider's memory is not minded
CanRetryEmail_OneMore(n, k) == k <= RetryLimit /\ n \notin closed  \* mutant
CanRetryEmail(n, k) == k < RetryLimit /\ n \notin closed

\* A worker starts deliverNotification, which claims the delivery ...
ClaimDelivery(w, n) ==
  /\ claim[w] = NoClaim
  /\ JobRuns(n) /\ Claimable(n)
  /\ Eligible(n) /\ CanRetryEmail(n, attempts[n])
  /\ state' = [state EXCEPT ![n] = "SENDING"]
  /\ attempts' = [attempts EXCEPT ![n] = @ + 1]
  /\ lease' = [lease EXCEPT ![n] = attempts[n] + 1]
  /\ expired' = expired \ {n}
  /\ claim' = [claim EXCEPT ![w] = [notice |-> n, attempt |-> attempts[n] + 1, answer |-> "NONE"]]
  /\ UNCHANGED <<retry, closed, failures, accountVars, providerVars>>

\* ... or gives it up: what may have been sent stays UNKNOWN.
EndDelivery(n) ==
  /\ JobRuns(n) /\ Claimable(n)
  /\ \/ ~Eligible(n)
     \/ ~CanRetryEmail(n, attempts[n])
  /\ state' = [state EXCEPT ![n] =
       IF @ # "PENDING" THEN "UNKNOWN" ELSE IF Eligible(n) THEN "FAILED" ELSE "CANCELLED"]
  /\ retry' = retry \ {n}
  /\ lease' = [lease EXCEPT ![n] = 0]
  /\ expired' = expired \ {n}
  /\ UNCHANGED <<attempts, closed, failures, accountVars, claim, providerVars>>

Hear(w, answer) == claim' = [claim EXCEPT ![w].answer = answer]
Waiting(w, n) == claim[w] # NoClaim /\ claim[w].notice = n /\ claim[w].answer = "NONE"

\* A request with a key the provider remembers sends nothing new.
Accept(n) ==
  /\ mails' = [mails EXCEPT ![n] = IF n \in known THEN @ ELSE @ + 1]
  /\ known' = known \cup {n}

\* sendEmail: the provider accepts, and the answer arrives or does not.
SendAccepted(w, n) ==
  /\ Waiting(w, n)
  /\ Accept(n)
  /\ \E answer \in {"SENT", "UNKNOWN"} : Hear(w, answer)
  /\ UNCHANGED <<accountVars, deliveryVars, failures, travelling>>

\* It is busy (PENDING), refuses, or fails without a trace.
SendRefused(w, n) ==
  /\ Waiting(w, n)
  /\ \E answer \in {"PENDING", "FAILED", "UNKNOWN"} : Hear(w, answer)
  /\ UNCHANGED <<accountVars, deliveryVars, failures, providerVars>>

\* The call times out before its request has arrived.
SendTimesOut(w, n) ==
  /\ Waiting(w, n)
  /\ Hear(w, "UNKNOWN")
  /\ travelling' = travelling \cup {n}
  /\ UNCHANGED <<accountVars, deliveryVars, failures, mails, known>>

RequestArrives(n) ==
  /\ n \in travelling
  /\ Accept(n)
  /\ travelling' = travelling \ {n}
  /\ UNCHANGED <<accountVars, deliveryVars, failures, claim>>

Fenced_Never(c) == TRUE                                   \* mutant: any answer is recorded
\* The delivery is still this attempt's.
Fenced(c) ==
  /\ state[c.notice] = "SENDING"
  /\ lease[c.notice] = c.attempt
  /\ c.notice \notin expired

\* The answer is recorded, or comes too late.
Record(w) ==
  LET c == claim[w]
      n == c.notice
      again == c.answer \in {"PENDING", "UNKNOWN"} /\ CanRetryEmail(n, c.attempt)
  IN /\ c # NoClaim /\ c.answer # "NONE"
     /\ claim' = [claim EXCEPT ![w] = NoClaim]
     /\ IF Fenced(c)
          THEN /\ state' = [state EXCEPT ![n] =
                    IF c.answer = "PENDING" /\ ~again THEN "FAILED" ELSE c.answer]
               /\ retry' = IF again THEN retry \cup {n} ELSE retry \ {n}
               /\ lease' = [lease EXCEPT ![n] = 0]
          ELSE UNCHANGED <<state, retry, lease>>
     /\ UNCHANGED <<attempts, expired, closed, failures, accountVars, providerVars>>

\* The worker dies, before or after the provider was called.
Crash(w) ==
  /\ claim[w] # NoClaim
  /\ claim' = [claim EXCEPT ![w] = NoClaim]
  /\ UNCHANGED <<accountVars, deliveryVars, failures, providerVars>>

\* A lease outlives every call to the provider: if it runs out its worker is dead
\* or suspended, and has lost the job's lease too, which counts as a failure.
LeaseExpires(n) ==
  /\ state[n] = "SENDING" /\ n \notin expired
  /\ expired' = expired \cup {n}
  /\ failures' = [failures EXCEPT ![n] = IF @ < JobLimit THEN @ + 1 ELSE @]
  /\ UNCHANGED <<state, attempts, retry, lease, closed, accountVars, claim, providerVars>>

WindowCloses(n) ==
  /\ attempts[n] > 0 /\ n \notin closed
  /\ closed' = closed \cup {n}
  /\ UNCHANGED <<state, attempts, retry, lease, expired, failures, accountVars, claim, providerVars>>

\* The provider forgets a key after 24 hours; nothing that was called in the 23
\* before is still on its way then.
KeyForgotten(n) ==
  /\ n \in known \cap closed
  /\ n \notin travelling /\ \A w \in Workers : ~Waiting(w, n)
  /\ known' = known \ {n}
  /\ UNCHANGED <<accountVars, deliveryVars, failures, claim, mails, travelling>>

AccountStep ==
  \/ UpdatePreferences \/ SwitchAccount
  \/ \E n \in Notices :
       \/ WriteNotification(n) \/ RequestEmailVerification(n) \/ ConfirmEmail(n) \/ Withdraw(n)

ProviderCall(w) ==
  \E n \in Notices : SendAccepted(w, n) \/ SendRefused(w, n) \/ SendTimesOut(w, n)

Next ==
  \/ AccountStep
  \/ \E w \in Workers :
       \/ ProviderCall(w) \/ Record(w) \/ Crash(w)
       \/ \E n \in Notices : ClaimDelivery(w, n)
  \/ \E n \in Notices :
       \/ EndDelivery(n) \/ RequestArrives(n) \/ LeaseExpires(n)
       \/ WindowCloses(n) \/ KeyForgotten(n)

\* The worker's jobs run, calls end, and time passes; the provider, the account
\* and crashes are free.
Fairness ==
  /\ \A w \in Workers : WF_vars(ProviderCall(w)) /\ WF_vars(Record(w))
  /\ \A n \in Notices :
       /\ WF_vars(EndDelivery(n) \/ \E w \in Workers : ClaimDelivery(w, n))
       /\ WF_vars(LeaseExpires(n))

Spec == Init /\ [][Next]_vars /\ Fairness

-----------------------------------------------------------------------------
(* Properties.                                                             *)

\* Whatever was lost, late, retried or resumed by another worker, the provider
\* accepts a notice once: no request under its key is made that the provider
\* could not recognise.
OneMail == \A n \in Notices : mails[n] <= 1

\* The end of a delivery is final: a worker that resumes after its lease ran out
\* does not record its answer over what the next one has seen.
EndedStaysEnded ==
  [][\A n \in Notices : Ended(n) => state'[n] = state[n] /\ (n \in retry <=> n \in retry')]_vars

\* A delivery as an abstract mailbox sees it; one that ended untried was dropped.
OutcomeOf(n) ==
  IF state[n] = "NONE" THEN "none"
  ELSE IF ~Ended(n) THEN "open"
  ELSE IF attempts[n] = 0 THEN "dropped"
  ELSE state[n]

Box == INSTANCE Mailbox WITH
  outcome <- [n \in Notices |-> OutcomeOf(n)], sent <- {n \in Notices : mails[n] > 0}

\* Consent, leases, lost answers, late requests and retries together implement
\* the abstract mailbox: one mail, none for what was dropped, a truthful SENT and
\* a final end, which a worker that resumes late does not record over.
ImplementsMailbox == Box!Spec

\* Every delivery comes to an end, or its job has failed visibly: no crash and no
\* change of consent leaves it between two attempts.
DeliveryEnds ==
  \A n \in Notices : state[n] # "NONE" ~> Ended(n) \/ ~JobRuns(n)

\* A send whose outcome is uncertain is not relabelled as cancelled
\* (notifications.test.ts, consent withdrawn after an uncertain send).
UncertainNotCancelled ==
  \A n \in Notices : state[n] = "CANCELLED" => mails[n] = 0
=============================================================================
