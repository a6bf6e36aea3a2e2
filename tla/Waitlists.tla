------------------------------ MODULE Waitlists ------------------------------
(***************************************************************************)
(* The waitlist of one ticket tier.  Units that become available open a    *)
(* wave, whose job alerts the members in the order they joined, a batch    *)
(* at a time, while units are sold, released and withheld from sale.       *)
(***************************************************************************)
EXTENDS Integers, Sequences, FiniteSets, SequencesExt

CONSTANTS
  Users,       \* attendees who may join; each buys one ticket at a time
  MaxCapacity, \* bound: of the tier
  Buyers,      \* bound: those who also buy, leave and change their preferences
  Batch        \* entries a transaction of the wave's job reads

ASSUME BoundsAssumption == MaxCapacity \in Nat \ {0} /\ Batch \in Nat \ {0}
ASSUME UsersAssumption == IsFiniteSet(Users) /\ Buyers \subseteq Users

VARIABLES
  window,    \* of sales: OPEN, CLOSED, or OVER once the event has started or was cancelled
  paused,    \* salesPaused
  capacity,
  others,    \* units that other attendees have reserved or bought
  order,     \* the order of each user; LAPSED until its units are released, VOIDED while it
             \* is refunded; NONE also after a cancellation or a refund
  entry,     \* status of the waitlist entries
  line,      \* users with an entry, by joinedAt
  cooling,   \* alerted less than an hour ago
  alertable, \* active attendees whose preferences let an alert reach them
  inTime,    \* those who joined before the current wave was opened
  passed,    \* those of them its cursor has passed
  working,   \* the current wave's job is not done
  extended   \* sales were extended while members waited, and no wave opened since

saleVars == <<window, paused>>
stockVars == <<capacity, others, order>>
memberVars == <<entry, line, cooling, alertable>>
waveVars == <<inTime, passed, working, extended>>
vars == <<saleVars, stockVars, memberVars, waveVars>>

Windows == {"OPEN", "CLOSED", "OVER"}
Orders == {"NONE", "PENDING", "LAPSED", "EXPIRED", "PAID", "VOIDED"}
Released == {"NONE", "EXPIRED"}
WaitlistStatus == {"NONE", "WAITING", "NOTIFIED", "FULFILLED", "LEFT", "CLOSED"}

TypeOK ==
  /\ window \in Windows /\ paused \in BOOLEAN
  /\ capacity \in 1 .. MaxCapacity
  /\ others \in 0 .. capacity
  /\ order \in [Users -> Orders]
  /\ entry \in [Users -> WaitlistStatus]
  /\ line \in Seq(Users) /\ IsInjective(line)
  /\ ToSet(line) = {u \in Users : entry[u] # "NONE"}
  /\ cooling \subseteq Users /\ alertable \subseteq Users
  /\ inTime \subseteq ToSet(line) /\ passed \subseteq inTime
  /\ working \in BOOLEAN /\ extended \in BOOLEAN

Init ==
  /\ window = "OPEN" /\ paused = FALSE
  /\ capacity = 1
  /\ others = 0
  /\ order = [u \in Users |-> "NONE"]
  /\ entry = [u \in Users |-> "NONE"]
  /\ line = <<>>
  /\ cooling = {} /\ alertable = Users
  /\ inTime = {} /\ passed = {}
  /\ working = FALSE /\ extended = FALSE

Active == {u \in Users : entry[u] \in {"WAITING", "NOTIFIED"}}
WaitlistClosed_Ended == window = "CLOSED"                 \* mutant: the event starts first
WaitlistClosed == window \in {"CLOSED", "OVER"}
Sellable(w, p) == w = "OPEN" /\ ~p
Unsold == capacity - others - Cardinality({u \in Users : order[u] \notin Released})
\* With q units given back.
AvailabilityWith(q) == IF Sellable(window, paused) THEN Unsold + q ELSE 0
EffectiveAvailability == AvailabilityWith(0)
Entitled(u) == order[u] \in {"PENDING", "PAID"}

\* Active entries of these users take another status.
Settle(users, new) == entry' = [u \in Users |-> IF u \in users \cap Active THEN new ELSE entry[u]]

-----------------------------------------------------------------------------
(* availability.service: waves.                                            *)

OpensWave_Below(available, released, opening) ==          \* mutant: the last unit of several
  available > 0 /\ (opening \/ available < released)
OpensWave(available, released, opening) ==
  /\ released > 0 \/ opening
  /\ available > 0
  /\ opening \/ available <= released

\* recordInventoryRelease, in the transaction that has released the units.  The
\* job of a wave that is superseded ends with its next transaction.
RecordInventoryRelease(available, released, opening) ==
  IF OpensWave(available, released, opening)
    THEN /\ inTime' = ToSet(line) /\ passed' = {}
         /\ working' = TRUE /\ extended' = FALSE
    ELSE UNCHANGED waveVars

Place(u) == CHOOSE i \in DOMAIN line : line[i] = u

\* The next batch of the wave, by joinedAt, and those its cursor leaves behind.
Waiting == {u \in inTime \ passed : entry[u] = "WAITING"}
Batches ==
  {rows \in SUBSET Waiting :
     /\ Cardinality(rows) = IF Cardinality(Waiting) < Batch THEN Cardinality(Waiting) ELSE Batch
     /\ \A u \in rows, v \in Waiting \ rows : Place(u) < Place(v)}
BehindCursor(rows) == passed \cup {u \in inTime : \E v \in rows : Place(u) <= Place(v)}

\* A member the alert is meant for; the others are passed over.
Alerts(u) == u \in alertable \ cooling /\ ~Entitled(u)

MoreRows_Never(rows) == FALSE                             \* mutant: one batch is taken for the whole wave
MoreRows(rows) == Cardinality(rows) = Batch

\* dispatchWaitlistWave, one transaction.
DispatchWave ==
  /\ working
  /\ IF EffectiveAvailability = 0
       THEN working' = FALSE /\ UNCHANGED <<entry, cooling, passed>>
       ELSE \E rows \in Batches :
              LET reached == {u \in rows : Alerts(u)}
              IN /\ entry' = [u \in Users |->
                      CASE u \in reached -> "NOTIFIED"
                        [] u \in rows \cap (alertable \ cooling) /\ order[u] = "PAID" -> "FULFILLED"
                        [] OTHER -> entry[u]]
                 /\ cooling' = cooling \cup reached
                 /\ passed' = BehindCursor(rows)
                 /\ working' = MoreRows(rows)
  /\ UNCHANGED <<saleVars, stockVars, line, alertable, inTime, extended>>

\* closeTierWaitlist, at the end of the window or found by a later pass.
CloseTierWaitlist ==
  /\ WaitlistClosed /\ Active # {}
  /\ Settle(Users, "CLOSED")
  /\ UNCHANGED <<saleVars, stockVars, line, cooling, alertable, waveVars>>

-----------------------------------------------------------------------------
(* waitlists.service: members.                                             *)

\* waitlistEligibility.
MayJoin(u) ==
  /\ Sellable(window, paused) /\ Unsold = 0
  /\ ~Entitled(u)
  /\ u \notin cooling

Joined_Again(u) == Append(line, u)                        \* mutant: a second entry
Joined(u) == Append(IF entry[u] = "NONE" THEN line ELSE RemoveAt(line, Place(u)), u)

JoinWaitlist(u) ==
  /\ entry[u] # "WAITING"
  /\ MayJoin(u)
  /\ entry' = [entry EXCEPT ![u] = "WAITING"]
  /\ line' = Joined(u)
  /\ inTime' = inTime \ {u} /\ passed' = passed \ {u}
  /\ UNCHANGED <<saleVars, stockVars, cooling, alertable, working, extended>>

LeaveWaitlist(u) ==
  /\ u \in Active
  /\ Settle({u}, "LEFT")
  /\ UNCHANGED <<saleVars, stockVars, line, cooling, alertable, waveVars>>

\* An hour after the alert.
CoolDown(u) ==
  /\ u \in cooling
  /\ cooling' = cooling \ {u}
  /\ UNCHANGED <<saleVars, stockVars, entry, line, alertable, waveVars>>

\* Preferences, suspension, reactivation.
SwitchAlerts(u) ==
  /\ alertable' = IF u \in alertable THEN alertable \ {u} ELSE alertable \cup {u}
  /\ UNCHANGED <<saleVars, stockVars, entry, line, cooling, waveVars>>

-----------------------------------------------------------------------------
(* Orders and payments, as the tier and the waitlist see them.             *)

Reserve(u) ==
  /\ order[u] \in Released /\ EffectiveAvailability > 0
  /\ order' = [order EXCEPT ![u] = "PENDING"]
  /\ UNCHANGED <<saleVars, capacity, others, memberVars, waveVars>>

Lapse(u) ==
  /\ order[u] = "PENDING"
  /\ order' = [order EXCEPT ![u] = "LAPSED"]
  /\ UNCHANGED <<saleVars, capacity, others, memberVars, waveVars>>

\* A refund is approved: the order stays paid, its tickets are void.
VoidTickets(u) ==
  /\ order[u] = "PAID"
  /\ order' = [order EXCEPT ![u] = "VOIDED"]
  /\ UNCHANGED <<saleVars, capacity, others, memberVars, waveVars>>

\* cancelOrder or a confirmed refund, and the expiry of the reservation, found by
\* its job or by a payment that cannot take the units again.
Release(u) ==
  /\ \/ order[u] \in {"PENDING", "LAPSED", "VOIDED"} /\ order' = [order EXCEPT ![u] = "NONE"]
     \/ order[u] = "LAPSED" /\ order' = [order EXCEPT ![u] = "EXPIRED"]
  /\ RecordInventoryRelease(AvailabilityWith(1), 1, FALSE)
  /\ UNCHANGED <<saleVars, capacity, others, memberVars>>

FulfillWaitlist_Waiting(u) ==                             \* mutant: alerted members are forgotten
  entry' = [entry EXCEPT ![u] = IF @ = "WAITING" THEN "FULFILLED" ELSE @]
FulfillWaitlist(u) == Settle({u}, "FULFILLED")

\* fulfillValidatedPayment, when it buys: of a lapsed or an expired order the units
\* are taken again, as from new.  No wave opens: nothing is given back.
Fulfill(u) ==
  /\ \/ order[u] = "PENDING" /\ window # "OVER"
     \/ order[u] = "LAPSED" /\ AvailabilityWith(1) > 0
     \/ order[u] = "EXPIRED" /\ EffectiveAvailability > 0
  /\ order' = [order EXCEPT ![u] = "PAID"]
  /\ FulfillWaitlist(u)
  /\ UNCHANGED <<saleVars, capacity, others, line, cooling, alertable, waveVars>>

OthersBuy(q) ==
  /\ q <= EffectiveAvailability
  /\ others' = others + q
  /\ UNCHANGED <<saleVars, capacity, order, memberVars, waveVars>>

OthersRelease(q) ==
  /\ q <= others
  /\ others' = others - q
  /\ RecordInventoryRelease(AvailabilityWith(q), q, FALSE)
  /\ UNCHANGED <<saleVars, capacity, order, memberVars>>

-----------------------------------------------------------------------------
(* The organizer and the clock.                                            *)

\* updateTicketTier: a larger capacity, the end of sales at once or a later one,
\* and pauses.  An extension alone opens no wave.
UpdateTicketTier(more, new, pause) ==
  LET opening == paused /\ ~pause
      extends == window = "CLOSED" /\ new = "OPEN" /\ Active # {}
      available == IF Sellable(new, pause) THEN Unsold + more ELSE 0
  IN /\ window # "OVER" /\ new # "OVER"
     /\ window = "OPEN" /\ new = "CLOSED" => ~paused
     /\ opening => new = "OPEN"
     /\ capacity + more <= MaxCapacity
     /\ capacity' = capacity + more
     /\ window' = new /\ paused' = pause
     /\ IF extends /\ ~OpensWave(available, more, opening)
          THEN extended' = TRUE /\ UNCHANGED <<inTime, passed, working>>
          ELSE RecordInventoryRelease(available, more, opening)
     /\ Settle(IF new = "CLOSED" THEN Users ELSE {}, "CLOSED")
     /\ UNCHANGED <<others, order, line, cooling, alertable>>

\* cancelEvent.
CancelEvent ==
  /\ window # "OVER"
  /\ window' = "OVER"
  /\ Settle(Users, "CLOSED")
  /\ UNCHANGED <<paused, stockVars, line, cooling, alertable, waveVars>>

\* The sales window ends, the event starts.
TimePasses ==
  /\ \/ window = "OPEN" /\ window' \in {"CLOSED", "OVER"}
     \/ window = "CLOSED" /\ window' = "OVER"
  /\ UNCHANGED <<paused, stockVars, memberVars, waveVars>>

Next ==
  \/ DispatchWave \/ CloseTierWaitlist \/ CancelEvent \/ TimePasses
  \/ \E u \in Users : JoinWaitlist(u) \/ CoolDown(u)
  \/ \E u \in Buyers :
       \/ LeaveWaitlist(u) \/ SwitchAlerts(u)
       \/ Reserve(u) \/ Lapse(u) \/ VoidTickets(u) \/ Release(u) \/ Fulfill(u)
  \/ \E q \in 1 .. MaxCapacity : OthersBuy(q) \/ OthersRelease(q)
  \/ \E more \in 0 .. MaxCapacity, new \in Windows, pause \in BOOLEAN :
       UpdateTicketTier(more, new, pause)

\* The worker's jobs; the rest is free.
Fairness == WF_vars(DispatchWave) /\ WF_vars(CloseTierWaitlist)

Spec == Init /\ [][Next]_vars /\ Fairness

-----------------------------------------------------------------------------
(* Properties.                                                             *)

\* Whenever units can be bought, the current wave was opened after every waiting
\* member had joined: nobody waits beside stock that no wave announces to him.
\* (An extension of a window that has ended is the exception: it opens no wave.)
WaveCoversWaiters ==
  EffectiveAvailability > 0 /\ ~extended =>
    \A u \in Users : entry[u] = "WAITING" => u \in inTime /\ (u \in passed \/ working)

\* Nobody who holds a ticket of the tier waits for one.
HoldersDoNotWait == \A u \in Active : order[u] # "PAID"

\* A waiting member in reach of a wave is alerted, unless the stock, his interest
\* or his consent is gone before.
AlertArrives ==
  \A u \in Users :
    entry[u] = "WAITING" /\ u \in inTime \ passed /\ working ~>
      \/ entry[u] # "WAITING" \/ EffectiveAvailability = 0 \/ ~Alerts(u)

\* A tier that is not on sale any more ends with an empty waitlist.
WaitlistEnds == window # "OPEN" ~> Active = {} \/ window = "OPEN"
=============================================================================
