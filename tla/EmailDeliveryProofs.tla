------------------------ MODULE EmailDeliveryProofs ------------------------
(***************************************************************************)
(* Safety of EmailDelivery, for any deliveries, workers and limits.        *)
(***************************************************************************)
EXTENDS EmailDelivery, TLAPS

\* A mail whose key the provider has forgotten: its delivery may not be tried
\* again, and no request for it is left anywhere.
Forgotten(n) ==
  n \in closed /\ n \notin travelling /\ \A w \in Workers : ~Waiting(w, n)

KeysRemembered ==
  \A n \in Notices : mails[n] <= 1 /\ (mails[n] > 0 => n \in known \/ Forgotten(n))

DeliveryInv == TypeOK /\ KeysRemembered

AccountSteps == UpdatePreferences \/ SwitchAccount

-----------------------------------------------------------------------------
(* Types.                                                                  *)

LEMMA StepTypeOK == TypeOK /\ [Next]_vars => TypeOK'
<1> SUFFICES ASSUME TypeOK, [Next]_vars PROVE TypeOK'
  OBVIOUS
<1> USE LimitsAssumption
<1> USE DEF TypeOK, DeliveryState, Answers, Claims, accountVars, deliveryVars, providerVars
<1>1. ASSUME NEW n \in Notices, WriteNotification(n) \/ RequestEmailVerification(n) PROVE TypeOK'
  BY <1>1 DEF WriteNotification, RequestEmailVerification, WriteDelivery
<1>2. ASSUME NEW n \in Notices, ConfirmEmail(n) PROVE TypeOK'
  BY <1>2 DEF ConfirmEmail
<1>3. ASSUME NEW n \in Notices, Withdraw(n) PROVE TypeOK'
  BY <1>3 DEF Withdraw
<1>4. AccountSteps => TypeOK'
  BY DEF AccountSteps, UpdatePreferences, SwitchAccount
<1>5. ASSUME NEW w \in Workers, NEW n \in Notices, ClaimDelivery(w, n) PROVE TypeOK'
  <2>1. attempts[n] + 1 \in 1 .. RetryLimit
    BY <1>5 DEF ClaimDelivery, CanRetryEmail
  <2> QED
    BY <1>5, <2>1 DEF ClaimDelivery
<1>6. ASSUME NEW n \in Notices, EndDelivery(n) PROVE TypeOK'
  BY <1>6 DEF EndDelivery
<1>7. ASSUME NEW w \in Workers, NEW n \in Notices, NEW answer \in Answers,
             Waiting(w, n), Hear(w, answer)
      PROVE  claim' \in [Workers -> Claims \cup {NoClaim}]
  <2>1. claim[w] \in Claims
    BY <1>7 DEF Waiting
  <2>2. [claim[w] EXCEPT !.answer = answer] \in Claims
    BY <2>1
  <2> QED
    BY <1>7, <2>2 DEF Hear
<1>8. ASSUME NEW n \in Notices, Accept(n)
      PROVE  mails' \in [Notices -> Nat] /\ known' \subseteq Notices
  BY <1>8 DEF Accept
<1>9. ASSUME NEW w \in Workers, ProviderCall(w) PROVE TypeOK'
  <2>1. ASSUME NEW n \in Notices, SendAccepted(w, n) PROVE TypeOK'
    BY <2>1, <1>7, <1>8 DEF SendAccepted
  <2>2. ASSUME NEW n \in Notices, SendRefused(w, n) PROVE TypeOK'
    BY <2>2, <1>7 DEF SendRefused
  <2>3. ASSUME NEW n \in Notices, SendTimesOut(w, n) PROVE TypeOK'
    BY <2>3, <1>7 DEF SendTimesOut
  <2> QED
    BY <1>9, <2>1, <2>2, <2>3 DEF ProviderCall
<1>10. ASSUME NEW n \in Notices, RequestArrives(n) PROVE TypeOK'
  BY <1>8, <1>10 DEF RequestArrives
<1>11. ASSUME NEW w \in Workers, Record(w) PROVE TypeOK'
  <2>1. claim[w] \in Claims /\ claim[w].answer \in DeliveryState
    BY <1>11 DEF Record
  <2> QED
    BY <1>11, <2>1 DEF Record
<1>12. ASSUME NEW w \in Workers, Crash(w) PROVE TypeOK'
  BY <1>12 DEF Crash
<1>13. ASSUME NEW n \in Notices, LeaseExpires(n) PROVE TypeOK'
  BY <1>13 DEF LeaseExpires
<1>14. ASSUME NEW n \in Notices, WindowCloses(n) \/ KeyForgotten(n) PROVE TypeOK'
  BY <1>14 DEF WindowCloses, KeyForgotten
<1>15. CASE UNCHANGED vars
  BY <1>15 DEF vars
<1> QED
  BY <1>1, <1>2, <1>3, <1>4, <1>5, <1>6, <1>9, <1>10, <1>11, <1>12, <1>13, <1>14, <1>15
  DEF Next, AccountStep, AccountSteps

-----------------------------------------------------------------------------
(* One mail.                                                               *)

\* Steps that neither close a window, start a call nor reach the provider.
LEMMA QuietSteps ==
  ASSUME TypeOK, KeysRemembered, UNCHANGED <<closed, providerVars>>,
         \A w \in Workers : claim'[w] = claim[w] \/ claim'[w] = NoClaim \/ claim'[w].answer # "NONE"
  PROVE  KeysRemembered'
  BY DEF TypeOK, KeysRemembered, Forgotten, Waiting, providerVars

LEMMA StepKeys == TypeOK /\ KeysRemembered /\ [Next]_vars => KeysRemembered'
<1> SUFFICES ASSUME TypeOK, KeysRemembered, [Next]_vars PROVE KeysRemembered'
  OBVIOUS
<1> USE DEF deliveryVars, providerVars
<1>1. ASSUME UNCHANGED <<closed, claim, providerVars>> PROVE KeysRemembered'
  BY <1>1, QuietSteps
<1>2. ASSUME NEW n \in Notices,
             \/ WriteNotification(n) \/ RequestEmailVerification(n) \/ ConfirmEmail(n)
             \/ Withdraw(n) \/ EndDelivery(n) \/ LeaseExpires(n)
      PROVE  UNCHANGED <<closed, claim, providerVars>>
  BY <1>2 DEF WriteNotification, RequestEmailVerification, WriteDelivery, ConfirmEmail, Withdraw,
              EndDelivery, LeaseExpires
<1>3. AccountSteps \/ UNCHANGED vars => UNCHANGED <<closed, claim, providerVars>>
  BY DEF AccountSteps, UpdatePreferences, SwitchAccount, vars
<1>4. ASSUME NEW w \in Workers, Record(w) \/ Crash(w) PROVE KeysRemembered'
  <2>1. claim' = [claim EXCEPT ![w] = NoClaim] /\ UNCHANGED <<closed, providerVars>>
    BY <1>4 DEF Record, Crash
  <2> QED
    BY <2>1, QuietSteps DEF TypeOK
<1>5. ASSUME NEW w \in Workers, NEW n \in Notices, ClaimDelivery(w, n) PROVE KeysRemembered'
  <2>1. n \notin closed /\ UNCHANGED <<closed, providerVars>>
    BY <1>5 DEF ClaimDelivery, CanRetryEmail
  <2>2. \A m \in Notices \ {n} : Forgotten(m) => Forgotten(m)'
    BY <1>5, <2>1 DEF ClaimDelivery, Forgotten, Waiting, TypeOK
  <2> QED
    BY <2>1, <2>2 DEF KeysRemembered, Forgotten
<1>6. ASSUME NEW w \in Workers, NEW n \in Notices, SendRefused(w, n) PROVE KeysRemembered'
  <2>1. PICK answer \in {"PENDING", "FAILED", "UNKNOWN"} : Hear(w, answer)
    BY <1>6 DEF SendRefused
  <2>2. claim'[w].answer = answer
    BY <1>6, <2>1 DEF Hear, TypeOK, Claims, SendRefused, Waiting
  <2> QED
    BY <1>6, <2>1, <2>2, QuietSteps DEF SendRefused, Hear, TypeOK
<1>7. ASSUME NEW w \in Workers, NEW n \in Notices, NEW answer \in Answers, Waiting(w, n), Hear(w, answer)
      PROVE  \A v \in Workers, m \in Notices : Waiting(v, m)' => Waiting(v, m)
  BY <1>7 DEF Waiting, Hear, TypeOK, Claims, Answers
<1>8. ASSUME NEW n \in Notices, Accept(n), ~Forgotten(n), closed' = closed,
             travelling' \subseteq travelling,
             \A v \in Workers, m \in Notices : Waiting(v, m)' => Waiting(v, m)
      PROVE  KeysRemembered'
  BY <1>8 DEF Accept, KeysRemembered, Forgotten, TypeOK
<1>9. ASSUME NEW w \in Workers, NEW n \in Notices, SendAccepted(w, n) PROVE KeysRemembered'
  BY <1>7, <1>8, <1>9 DEF SendAccepted, Answers, Forgotten
<1>10. ASSUME NEW w \in Workers, NEW n \in Notices, SendTimesOut(w, n) PROVE KeysRemembered'
  <2>1. ~Forgotten(n)
    BY <1>10 DEF SendTimesOut, Forgotten
  <2>2. \A m \in Notices \ {n} : Forgotten(m) => Forgotten(m)'
    BY <1>7, <1>10 DEF SendTimesOut, Forgotten, Answers
  <2> QED
    BY <1>10, <2>1, <2>2 DEF KeysRemembered, SendTimesOut
<1>11. ASSUME NEW n \in Notices, RequestArrives(n) PROVE KeysRemembered'
  <2>1. \A v \in Workers, m \in Notices : Waiting(v, m)' => Waiting(v, m)
    BY <1>11 DEF RequestArrives, Waiting
  <2> QED
    BY <1>8, <1>11, <2>1 DEF RequestArrives, Forgotten
<1>12. ASSUME NEW n \in Notices, WindowCloses(n) PROVE KeysRemembered'
  BY <1>12 DEF WindowCloses, KeysRemembered, Forgotten, Waiting
<1>13. ASSUME NEW n \in Notices, KeyForgotten(n) PROVE KeysRemembered'
  BY <1>13 DEF KeyForgotten, KeysRemembered, Forgotten, Waiting
<1> QED
  BY <1>1, <1>2, <1>3, <1>4, <1>5, <1>6, <1>9, <1>10, <1>11, <1>12, <1>13
  DEF Next, AccountStep, AccountSteps, ProviderCall

THEOREM DeliveryInvariant == Spec => []DeliveryInv
<1>1. Init => DeliveryInv
  BY LimitsAssumption
  DEF Init, DeliveryInv, TypeOK, KeysRemembered, DeliveryState, Claims
<1>2. DeliveryInv /\ [Next]_vars => DeliveryInv'
  BY StepTypeOK, StepKeys DEF DeliveryInv
<1> QED
  BY <1>1, <1>2, PTL DEF Spec

\* Every reachable state is well typed: no attempt beyond the limits.
THEOREM DeliveryTypes == Spec => []TypeOK
<1>1. DeliveryInv => TypeOK
  BY DEF DeliveryInv
<1> QED
  BY <1>1, DeliveryInvariant, PTL

\* No notice is accepted twice, whatever was lost, late, retried or resumed.
THEOREM MailsNeverRepeat == Spec => []OneMail
<1>1. DeliveryInv => OneMail
  BY DEF DeliveryInv, KeysRemembered, OneMail
<1> QED
  BY <1>1, DeliveryInvariant, PTL

-----------------------------------------------------------------------------
(* Ends.                                                                   *)

LEMMA StepEnded ==
  ASSUME TypeOK, [Next]_vars, NEW n \in Notices, Ended(n)
  PROVE  state'[n] = state[n] /\ (n \in retry <=> n \in retry')
<1> DEFINE Kept == state'[n] = state[n] /\ (n \in retry <=> n \in retry')
<1> USE DEF deliveryVars, Ended, TypeOK
<1>1. ASSUME NEW m \in Notices, WriteNotification(m) \/ RequestEmailVerification(m) PROVE Kept
  BY <1>1 DEF WriteNotification, RequestEmailVerification, WriteDelivery
<1>2. ASSUME NEW m \in Notices, Withdraw(m) PROVE Kept
  BY <1>2 DEF Withdraw
<1>3. ASSUME NEW m \in Notices, EndDelivery(m) PROVE Kept
  BY <1>3 DEF EndDelivery, Claimable
<1>4. ASSUME NEW w \in Workers, NEW m \in Notices, ClaimDelivery(w, m) PROVE Kept
  BY <1>4 DEF ClaimDelivery, Claimable
<1>5. ASSUME NEW w \in Workers, Record(w) PROVE Kept
  <2>1. claim[w].notice \in Notices
    BY <1>5 DEF Record, Claims
  <2> QED
    BY <1>5, <2>1 DEF Record, Fenced
<1>6. ASSUME NEW w \in Workers, ProviderCall(w) \/ Crash(w) PROVE Kept
  BY <1>6 DEF ProviderCall, SendAccepted, SendRefused, SendTimesOut, Crash
<1>7. ASSUME NEW m \in Notices,
             ConfirmEmail(m) \/ RequestArrives(m) \/ LeaseExpires(m) \/ WindowCloses(m) \/ KeyForgotten(m)
      PROVE  Kept
  BY <1>7 DEF ConfirmEmail, RequestArrives, LeaseExpires, WindowCloses, KeyForgotten
<1>8. AccountSteps \/ UNCHANGED vars => Kept
  BY DEF AccountSteps, UpdatePreferences, SwitchAccount, vars
<1> QED
  BY <1>1, <1>2, <1>3, <1>4, <1>5, <1>6, <1>7, <1>8 DEF Next, AccountStep, AccountSteps

\* No worker that comes late changes a delivery that has ended.
THEOREM EndsAreFinal == Spec => EndedStaysEnded
<1> DEFINE Step ==
      \A n \in Notices : Ended(n) => state'[n] = state[n] /\ (n \in retry <=> n \in retry')
<1>1. DeliveryInv /\ [Next]_vars => [Step]_vars
  BY StepEnded DEF DeliveryInv
<1>2. [][Step]_vars => EndedStaysEnded
  BY PTL DEF EndedStaysEnded
<1> QED
  BY <1>1, <1>2, DeliveryInvariant, PTL DEF Spec

-----------------------------------------------------------------------------
(* The mailbox.                                                            *)

\* Nothing has left for the provider before a delivery's first attempt, and SENT,
\* recorded or about to be, is the provider's word.
OutcomesTrue ==
  /\ \A n \in Notices :
       /\ state[n] = "NONE" => attempts[n] = 0
       /\ mails[n] > 0 \/ n \in travelling => attempts[n] > 0
       /\ state[n] = "SENT" \/ n \in known => mails[n] > 0
  /\ \A w \in Workers :
       claim[w] # NoClaim =>
         /\ attempts[claim[w].notice] > 0
         /\ claim[w].answer = "SENT" => mails[claim[w].notice] > 0

LEMMA Hears ==
  ASSUME TypeOK, NEW w \in Workers, NEW n \in Notices, NEW answer \in Answers,
         Waiting(w, n), Hear(w, answer)
  PROVE  /\ \A v \in Workers \ {w} : claim'[v] = claim[v]
         /\ claim'[w].notice = n /\ claim'[w].answer = answer
  BY DEF TypeOK, Claims, Waiting, Hear

LEMMA Accepts ==
  ASSUME TypeOK, KeysRemembered, OutcomesTrue, NEW n \in Notices, Accept(n), ~Forgotten(n)
  PROVE  /\ mails'[n] > 0 /\ known' = known \cup {n}
         /\ \A m \in Notices \ {n} : mails'[m] = mails[m]
         /\ mails[n] > 0 => mails' = mails
  BY DEF TypeOK, Accept, OutcomesTrue, KeysRemembered

LEMMA StepOutcomes ==
  ASSUME TypeOK, KeysRemembered, OutcomesTrue, [Next]_vars
  PROVE  OutcomesTrue'
<1> USE DEF TypeOK, OutcomesTrue, accountVars, deliveryVars, providerVars
<1>1. ASSUME NEW n \in Notices, WriteNotification(n) \/ RequestEmailVerification(n) PROVE OutcomesTrue'
  BY <1>1 DEF WriteNotification, RequestEmailVerification, WriteDelivery
<1>2. ASSUME NEW n \in Notices, Withdraw(n) \/ EndDelivery(n) PROVE OutcomesTrue'
  <2>1. /\ UNCHANGED <<attempts, claim, providerVars>>
        /\ \A m \in Notices : state'[m] \in {"NONE", "SENT"} => state'[m] = state[m]
    BY <1>2 DEF Withdraw, EndDelivery
  <2> QED
    BY <2>1
<1>3. ASSUME NEW w \in Workers, NEW n \in Notices, ClaimDelivery(w, n) PROVE OutcomesTrue'
  <2>1. /\ attempts' = [attempts EXCEPT ![n] = @ + 1] /\ attempts[n] \in Nat
        /\ state' = [state EXCEPT ![n] = "SENDING"] /\ state[n] # "NONE"
        /\ UNCHANGED providerVars
        /\ \A v \in Workers \ {w} : claim'[v] = claim[v]
        /\ claim'[w].notice = n /\ claim'[w].answer = "NONE"
    BY <1>3 DEF ClaimDelivery, Claimable
  <2>2. attempts'[n] > 0 /\ \A m \in Notices : attempts[m] > 0 => attempts'[m] > 0
    BY <2>1
  <2>3. \A v \in Workers : claim[v] # NoClaim => claim[v].notice \in Notices
    BY DEF Claims
  <2>4. \A m \in Notices : attempts'[m] \in Nat
    BY <2>1
  <2>5. \A m \in Notices \ {n} : state'[m] = state[m] /\ attempts'[m] = attempts[m]
    BY <2>1
  <2> QED
    BY <2>1, <2>2, <2>3, <2>4, <2>5
<1>4. ASSUME NEW w \in Workers, Record(w) PROVE OutcomesTrue'
  <2>1. /\ claim[w] \in Claims /\ claim[w] # NoClaim
        /\ claim' = [claim EXCEPT ![w] = NoClaim] /\ UNCHANGED <<attempts, providerVars>>
    BY <1>4 DEF Record
  <2>2. ASSUME NEW m \in Notices
        PROVE  state'[m] = state[m] \/ (m = claim[w].notice /\ state'[m] \in {claim[w].answer, "FAILED"} /\ state'[m] # "NONE")
    BY <1>4, <2>1 DEF Record, Claims, Answers
  <2> QED
    BY <2>1, <2>2
<1>5. ASSUME NEW w \in Workers, NEW n \in Notices, NEW answer \in Answers,
             Waiting(w, n), Hear(w, answer), UNCHANGED deliveryVars,
             mails'[n] > 0 \/ (answer # "SENT" /\ mails'[n] = mails[n]),
             \A m \in Notices \ {n} : mails'[m] = mails[m],
             mails[n] > 0 => mails'[n] > 0,
             known' \in {known, known \cup {n}}, n \in known' => mails'[n] > 0,
             travelling' \in {travelling, travelling \cup {n}}
      PROVE  OutcomesTrue'
  <2>1. attempts[n] > 0
    BY <1>5 DEF Waiting
  <2>2. /\ \A v \in Workers \ {w} : claim'[v] = claim[v]
        /\ claim'[w].notice = n /\ claim'[w].answer = answer
    BY <1>5, Hears
  <2>3. \A v \in Workers : claim[v] # NoClaim => claim[v].notice \in Notices
    BY DEF Claims
  <2> QED
    BY <1>5, <2>1, <2>2, <2>3
<1>6. ASSUME NEW w \in Workers, NEW n \in Notices, SendAccepted(w, n) PROVE OutcomesTrue'
  <2>1. PICK answer \in {"SENT", "UNKNOWN"} : Hear(w, answer)
    BY <1>6 DEF SendAccepted
  <2>2. Waiting(w, n) /\ ~Forgotten(n) /\ Accept(n) /\ UNCHANGED <<deliveryVars, travelling>>
    BY <1>6 DEF SendAccepted, Forgotten
  <2> QED
    BY <1>5, <2>1, <2>2, Accepts DEF Answers
<1>7. ASSUME NEW w \in Workers, NEW n \in Notices, SendRefused(w, n) \/ SendTimesOut(w, n) PROVE OutcomesTrue'
  <2>1. PICK answer \in {"PENDING", "FAILED", "UNKNOWN"} : Hear(w, answer)
    BY <1>7 DEF SendRefused, SendTimesOut
  <2>2. /\ Waiting(w, n) /\ UNCHANGED <<deliveryVars, mails, known>>
        /\ travelling' \in {travelling, travelling \cup {n}}
    BY <1>7 DEF SendRefused, SendTimesOut
  <2> QED
    BY <1>5, <2>1, <2>2 DEF Answers
<1>8. ASSUME NEW n \in Notices, RequestArrives(n) PROVE OutcomesTrue'
  <2>1. /\ n \in travelling /\ Accept(n) /\ ~Forgotten(n) /\ travelling' = travelling \ {n}
        /\ UNCHANGED <<deliveryVars, claim>>
    BY <1>8 DEF RequestArrives, Forgotten
  <2>2. \A v \in Workers : claim[v] # NoClaim => claim[v].notice \in Notices
    BY DEF Claims
  <2> QED
    BY <2>1, <2>2, Accepts
<1>9. ASSUME NEW w \in Workers, Crash(w) PROVE OutcomesTrue'
  BY <1>9 DEF Crash
<1>10. ASSUME NEW n \in Notices, KeyForgotten(n) PROVE OutcomesTrue'
  BY <1>10 DEF KeyForgotten
<1>11. ASSUME UNCHANGED <<state, attempts, claim, providerVars>> PROVE OutcomesTrue'
  BY <1>11
<1>12. ASSUME NEW n \in Notices, ConfirmEmail(n) \/ LeaseExpires(n) \/ WindowCloses(n)
       PROVE  UNCHANGED <<state, attempts, claim, providerVars>>
  BY <1>12 DEF ConfirmEmail, LeaseExpires, WindowCloses
<1>13. AccountSteps \/ UNCHANGED vars => UNCHANGED <<state, attempts, claim, providerVars>>
  BY DEF AccountSteps, UpdatePreferences, SwitchAccount, vars
<1> QED
  BY <1>1, <1>2, <1>3, <1>4, <1>6, <1>7, <1>8, <1>9, <1>10, <1>11, <1>12, <1>13
  DEF Next, AccountStep, AccountSteps, ProviderCall

BoxInv == DeliveryInv /\ OutcomesTrue

LEMMA BoxInvariant == Spec => []BoxInv
<1>1. Init => OutcomesTrue
  BY DEF Init, OutcomesTrue
<1>2. DeliveryInv /\ OutcomesTrue /\ [Next]_vars => OutcomesTrue'
  BY StepOutcomes DEF DeliveryInv
<1> QED
  BY <1>1, <1>2, DeliveryInvariant, PTL DEF Spec, BoxInv

Outcome == [n \in Notices |-> OutcomeOf(n)]
Sent == {n \in Notices : mails[n] > 0}

\* A step that tells on the mailbox only through the row of one delivery.
LEMMA RowStep ==
  ASSUME NEW n \in Notices, mails' = mails,
         \A m \in Notices \ {n} :
           state'[m] = state[m] /\ attempts'[m] = attempts[m] /\ (m \in retry <=> m \in retry')
  PROVE  Sent' = Sent /\ Outcome' = [Outcome EXCEPT ![n] = OutcomeOf(n)']
<1>1. \A m \in Notices \ {n} : OutcomeOf(m)' = OutcomeOf(m)
  BY DEF OutcomeOf, Ended
<1> QED
  BY <1>1 DEF Outcome, Sent

\* A delivery that ends, at once or after attempts that were not confirmed.
LEMMA EndsOpen ==
  ASSUME BoxInv, NEW n \in Notices, mails' = mails, attempts' = attempts,
         \A m \in Notices \ {n} : state'[m] = state[m] /\ (m \in retry <=> m \in retry'),
         OutcomeOf(n) = "open", Ended(n)', state'[n] \in {"FAILED", "CANCELLED", "UNKNOWN"}
  PROVE  Box!Next
<1>1. Sent' = Sent /\ Outcome' = [Outcome EXCEPT ![n] = OutcomeOf(n)'] /\ Outcome[n] = "open"
  BY RowStep DEF Outcome
<1>2. CASE attempts[n] = 0
  <2>1. OutcomeOf(n)' = "dropped" /\ n \notin Sent
    BY <1>2 DEF OutcomeOf, BoxInv, OutcomesTrue, Sent
  <2>2. Box!Drop(n)
    BY <1>1, <2>1 DEF Box!Drop, Box!Becomes, Outcome, Sent
  <2> QED
    BY <2>2 DEF Box!Next
<1>3. CASE attempts[n] # 0
  <2>1. OutcomeOf(n)' = state'[n]
    BY <1>3 DEF OutcomeOf
  <2>2. Box!Abandon(n)
    BY <1>1, <2>1 DEF Box!Abandon, Box!Becomes, Box!Uncertain, Outcome, Sent
  <2> QED
    BY <2>2 DEF Box!Next
<1> QED
  BY <1>2, <1>3

\* What reaches the provider is the one mail of a delivery that was attempted.
LEMMA AcceptSends ==
  ASSUME BoxInv, NEW n \in Notices, Accept(n), ~Forgotten(n), attempts[n] > 0,
         UNCHANGED deliveryVars
  PROVE  Box!Next \/ UNCHANGED <<Outcome, Sent>>
<1> USE DEF BoxInv, DeliveryInv
<1>1. Outcome' = Outcome
  BY DEF deliveryVars, Outcome, OutcomeOf, Ended
<1>2. CASE mails[n] > 0
  BY <1>1, <1>2, Accepts DEF Sent
<1>3. CASE ~(mails[n] > 0)
  <2>1. n \notin Sent /\ Sent' = Sent \cup {n}
    BY <1>3, Accepts DEF Sent
  <2>2. Outcome[n] \in {"open"} \cup Box!Uncertain
    BY <1>3 DEF Outcome, OutcomeOf, Ended, Box!Uncertain, TypeOK, DeliveryState, OutcomesTrue
  <2>3. Box!Send(n)
    BY <1>1, <2>1, <2>2 DEF Box!Send, Outcome, Sent
  <2> QED
    BY <2>3 DEF Box!Next
<1> QED
  BY <1>2, <1>3

LEMMA RecordEnds ==
  ASSUME BoxInv, NEW w \in Workers, Record(w)
  PROVE  Box!Next \/ UNCHANGED <<Outcome, Sent>>
<1> USE DEF BoxInv, DeliveryInv, TypeOK, deliveryVars, providerVars
<1>1. PICK c \in Claims : c = claim[w]
  BY DEF Record
<1>2. PICK n \in Notices : n = c.notice
  BY DEF Claims
<1>3. /\ c # NoClaim /\ c.answer \in Answers /\ attempts[n] > 0
      /\ UNCHANGED <<attempts, mails>>
      /\ c.answer = "SENT" => mails[n] > 0
  BY <1>1, <1>2 DEF Record, Claims, OutcomesTrue
<1>4. CASE ~Fenced(c)
  <2>1. UNCHANGED <<state, retry>>
    BY <1>1, <1>4 DEF Record
  <2> QED
    BY <1>3, <2>1 DEF Outcome, OutcomeOf, Ended, Sent
<1>5. CASE Fenced(c)
  <2> DEFINE again == c.answer \in {"PENDING", "UNKNOWN"} /\ CanRetryEmail(n, c.attempt)
  <2>1. /\ state' = [state EXCEPT ![n] = IF c.answer = "PENDING" /\ ~again THEN "FAILED" ELSE c.answer]
        /\ retry' = IF again THEN retry \cup {n} ELSE retry \ {n}
    BY <1>1, <1>2, <1>5 DEF Record
  <2>2. OutcomeOf(n) = "open"
    BY <1>2, <1>5 DEF Fenced, OutcomeOf, Ended
  <2>3. Sent' = Sent /\ Outcome' = [Outcome EXCEPT ![n] = OutcomeOf(n)'] /\ Outcome[n] = "open"
    BY <1>3, <2>1, <2>2, RowStep DEF Outcome
  <2>4. CASE again
    <3>1. OutcomeOf(n)' = "open"
      BY <2>1, <2>4 DEF OutcomeOf, Ended
    <3>2. Outcome' = Outcome
      BY <2>3, <3>1 DEF Outcome
    <3> QED
      BY <2>3, <3>2
  <2>5. CASE c.answer = "SENT"
    <3>1. OutcomeOf(n)' = "SENT" /\ n \in Sent
      BY <1>3, <2>1, <2>5 DEF OutcomeOf, Ended, Sent
    <3>2. Box!Confirm(n)
      BY <2>3, <3>1 DEF Box!Confirm, Box!Becomes, Outcome, Sent
    <3> QED
      BY <3>2 DEF Box!Next
  <2>6. CASE ~again /\ c.answer # "SENT"
    <3>1. Ended(n)' /\ state'[n] \in {"FAILED", "CANCELLED", "UNKNOWN"}
      BY <1>3, <2>1, <2>6 DEF Ended, Answers
    <3>2. \A m \in Notices \ {n} : state'[m] = state[m] /\ (m \in retry <=> m \in retry')
      BY <2>1
    <3> QED
      BY <1>3, <2>2, <3>1, <3>2, EndsOpen
  <2> QED
    BY <2>4, <2>5, <2>6
<1> QED
  BY <1>4, <1>5

LEMMA StepBox ==
  ASSUME BoxInv, [Next]_vars
  PROVE  Box!Next \/ UNCHANGED <<Outcome, Sent>>
<1> USE DEF BoxInv, DeliveryInv, TypeOK, accountVars, deliveryVars, providerVars
<1>1. ASSUME NEW n \in Notices, WriteNotification(n) \/ RequestEmailVerification(n) PROVE Box!Next
  <2>1. WriteDelivery(n)
    BY <1>1 DEF WriteNotification, RequestEmailVerification
  <2>2. state[n] = "NONE" /\ attempts[n] = 0 /\ UNCHANGED <<attempts, mails>>
    BY <2>1 DEF WriteDelivery, OutcomesTrue
  <2>3. Sent' = Sent /\ Outcome' = [Outcome EXCEPT ![n] = OutcomeOf(n)']
    BY <2>1, RowStep DEF WriteDelivery
  <2>4. Outcome[n] = "none" /\ OutcomeOf(n)' \in {"open", "dropped"}
    BY <2>1, <2>2 DEF WriteDelivery, Outcome, OutcomeOf, Ended
  <2>5. Box!Write(n)
    BY <2>3, <2>4 DEF Box!Write, Box!Becomes, Outcome, Sent
  <2> QED
    BY <2>5 DEF Box!Next
<1>2. ASSUME UNCHANGED <<state, attempts, retry, mails>> PROVE UNCHANGED <<Outcome, Sent>>
  BY <1>2 DEF Outcome, OutcomeOf, Ended, Sent
<1>3. ASSUME NEW n \in Notices, Withdraw(n) PROVE Box!Next \/ UNCHANGED <<Outcome, Sent>>
  <2>1. CASE UNCHANGED <<state, retry>>
    BY <1>2, <1>3, <2>1 DEF Withdraw
  <2>2. CASE state[n] = "PENDING" /\ state' = [state EXCEPT ![n] = "CANCELLED"] /\ retry' = retry \ {n}
    <3>1. OutcomeOf(n) = "open" /\ Ended(n)'
      BY <2>2 DEF OutcomeOf, Ended
    <3> QED
      BY <1>3, <2>2, <3>1, EndsOpen DEF Withdraw
  <2> QED
    BY <1>3, <2>1, <2>2 DEF Withdraw
<1>4. ASSUME NEW n \in Notices, EndDelivery(n) PROVE Box!Next
  <2>1. OutcomeOf(n) = "open"
    BY <1>4 DEF EndDelivery, Claimable, OutcomeOf
  <2>2. Ended(n)' /\ state'[n] \in {"FAILED", "CANCELLED", "UNKNOWN"}
    BY <1>4 DEF EndDelivery, Ended
  <2> QED
    BY <1>4, <2>1, <2>2, EndsOpen DEF EndDelivery
<1>5. ASSUME NEW w \in Workers, NEW n \in Notices, ClaimDelivery(w, n) PROVE UNCHANGED <<Outcome, Sent>>
  <2>1. /\ UNCHANGED <<retry, mails>> /\ state[n] # "NONE" /\ ~Ended(n)
        /\ state' = [state EXCEPT ![n] = "SENDING"] /\ attempts' = [attempts EXCEPT ![n] = @ + 1]
    BY <1>5 DEF ClaimDelivery, Claimable
  <2>2. Sent' = Sent /\ Outcome' = [Outcome EXCEPT ![n] = OutcomeOf(n)']
    BY <2>1, RowStep
  <2>3. OutcomeOf(n)' = Outcome[n]
    BY <2>1 DEF Outcome, OutcomeOf, Ended
  <2> QED
    BY <2>2, <2>3 DEF Outcome
<1>6. ASSUME NEW w \in Workers, NEW n \in Notices, SendAccepted(w, n)
      PROVE  Box!Next \/ UNCHANGED <<Outcome, Sent>>
  <2>1. ~Forgotten(n) /\ attempts[n] > 0
    BY <1>6 DEF SendAccepted, Waiting, Forgotten, OutcomesTrue
  <2> QED
    BY <1>6, <2>1, AcceptSends DEF SendAccepted
<1>7. ASSUME NEW n \in Notices, RequestArrives(n)
      PROVE  Box!Next \/ UNCHANGED <<Outcome, Sent>>
  <2>1. ~Forgotten(n) /\ attempts[n] > 0
    BY <1>7 DEF RequestArrives, Forgotten, OutcomesTrue
  <2> QED
    BY <1>7, <2>1, AcceptSends DEF RequestArrives
<1>8. ASSUME NEW w \in Workers, NEW n \in Notices, SendRefused(w, n) \/ SendTimesOut(w, n) \/ Crash(w)
      PROVE  UNCHANGED <<state, attempts, retry, mails>>
  BY <1>8 DEF SendRefused, SendTimesOut, Crash
<1>9. ASSUME NEW n \in Notices, ConfirmEmail(n) \/ LeaseExpires(n) \/ WindowCloses(n) \/ KeyForgotten(n)
      PROVE  UNCHANGED <<state, attempts, retry, mails>>
  BY <1>9 DEF ConfirmEmail, LeaseExpires, WindowCloses, KeyForgotten
<1>10. AccountSteps \/ UNCHANGED vars => UNCHANGED <<state, attempts, retry, mails>>
  BY DEF AccountSteps, UpdatePreferences, SwitchAccount, vars
<1>11. ASSUME NEW w \in Workers, Crash(w) PROVE UNCHANGED <<state, attempts, retry, mails>>
  BY <1>11 DEF Crash
<1> QED
  BY <1>1, <1>2, <1>3, <1>4, <1>5, <1>6, <1>7, <1>8, <1>9, <1>10, <1>11, RecordEnds
  DEF Next, AccountStep, AccountSteps, ProviderCall

\* Consent that comes and goes, leases that run out, answers that are lost and
\* requests that arrive late amount to a mailbox: a delivery is dropped before
\* anything has left, or its one mail may go out; SENT is true; the end is final.
THEOREM DeliveryImplementsMailbox == Spec => ImplementsMailbox
<1>1. Init => Box!Init
  BY DEF Init, Box!Init, OutcomeOf
<1>2. BoxInv /\ [Next]_vars => [Box!Next]_<<Outcome, Sent>>
  BY StepBox
<1> QED
  BY <1>1, <1>2, BoxInvariant, PTL
  DEF Spec, ImplementsMailbox, Box!Spec, Outcome, Sent
=============================================================================
