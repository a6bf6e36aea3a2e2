--------------------------- MODULE WaitlistsProofs ---------------------------
(***************************************************************************)
(* Waitlists: the types, that no ticket holder waits, and that every wave  *)
(* covers the members who wait beside stock, for any users, capacity and   *)
(* batch.                                                                  *)
(***************************************************************************)
EXTENDS Waitlists, FiniteSetTheorems, SequenceTheorems, TLAPS

-----------------------------------------------------------------------------
(* The line: each member once, the latest to join last.                    *)

LEMMA ElementsOf ==
  ASSUME NEW S, NEW s \in Seq(S)
  PROVE  ToSet(s) = {s[i] : i \in 1 .. Len(s)} /\ DOMAIN s = 1 .. Len(s) /\ Len(s) \in Nat
  BY DEF ToSet

LEMMA RemovalKeepsOthers ==
  ASSUME NEW S, NEW s \in Seq(S), IsInjective(s), NEW k \in DOMAIN s
  PROVE  /\ RemoveAt(s, k) \in Seq(S) /\ IsInjective(RemoveAt(s, k))
         /\ ToSet(RemoveAt(s, k)) = ToSet(s) \ {s[k]}
<1> DEFINE front == SubSeq(s, 1, k - 1)
           rest == SubSeq(s, k + 1, Len(s))
           r == RemoveAt(s, k)
<1>1. k \in 1 .. Len(s) /\ Len(s) \in Nat
  BY ElementsOf
<1>2. \A i \in 1 .. Len(s) : s[i] \in S
  BY ElementOfSeq
<1>3. /\ front \in Seq(S) /\ Len(front) = k - 1
      /\ \A i \in 1 .. k - 1 : front[i] = s[i]
  <2>1. \A i \in 1 .. k - 1 : s[i] \in S
    BY <1>1, <1>2
  <2>2. /\ SubSeq(s, 1, k - 1) \in Seq(S)
        /\ Len(SubSeq(s, 1, k - 1)) = IF 1 <= k - 1 THEN (k - 1) - 1 + 1 ELSE 0
        /\ \A i \in 1 .. (k - 1) - 1 + 1 : SubSeq(s, 1, k - 1)[i] = s[1 + i - 1]
    BY <1>1, <2>1, SubSeqProperties
  <2> QED
    BY <1>1, <2>2
<1>4. /\ rest \in Seq(S) /\ Len(rest) = Len(s) - k
      /\ \A i \in 1 .. Len(s) - k : rest[i] = s[k + i]
  <2>1. \A i \in k + 1 .. Len(s) : s[i] \in S
    BY <1>1, <1>2
  <2>2. /\ SubSeq(s, k + 1, Len(s)) \in Seq(S)
        /\ Len(SubSeq(s, k + 1, Len(s))) = IF k + 1 <= Len(s) THEN Len(s) - (k + 1) + 1 ELSE 0
        /\ \A i \in 1 .. Len(s) - (k + 1) + 1 :
             SubSeq(s, k + 1, Len(s))[i] = s[(k + 1) + i - 1]
    BY <1>1, <2>1, SubSeqProperties
  <2> QED
    BY <1>1, <2>2
<1>5. /\ r \in Seq(S) /\ Len(r) = Len(s) - 1
      /\ \A i \in 1 .. Len(s) - 1 : r[i] = IF i <= k - 1 THEN s[i] ELSE s[i + 1]
  <2>1. /\ front \o rest \in Seq(S) /\ Len(front \o rest) = Len(front) + Len(rest)
        /\ \A i \in 1 .. Len(front) + Len(rest) :
             (front \o rest)[i] = IF i <= Len(front) THEN front[i] ELSE rest[i - Len(front)]
    BY <1>3, <1>4, ConcatProperties
  <2>2. r = front \o rest
    BY DEF RemoveAt
  <2> HIDE DEF front, rest, r
  <2>3. (k - 1) + (Len(s) - k) = Len(s) - 1
    BY <1>1
  <2>4. /\ r \in Seq(S) /\ Len(r) = Len(s) - 1
        /\ \A i \in 1 .. Len(s) - 1 : r[i] = IF i <= k - 1 THEN front[i] ELSE rest[i - (k - 1)]
    BY <1>3, <1>4, <2>1, <2>2, <2>3
  <2>5. ASSUME NEW i \in 1 .. Len(s) - 1
        PROVE  r[i] = IF i <= k - 1 THEN s[i] ELSE s[i + 1]
    <3>1. CASE i <= k - 1
      BY <1>1, <1>3, <2>4, <3>1
    <3>2. CASE i > k - 1
      <4>1. r[i] = rest[i - (k - 1)] /\ i - (k - 1) \in 1 .. Len(s) - k
        BY <1>1, <2>4, <3>2
      <4>2. rest[i - (k - 1)] = s[k + (i - (k - 1))] /\ k + (i - (k - 1)) = i + 1
        BY <1>1, <1>4, <4>1
      <4> QED
        BY <1>1, <3>2, <4>1, <4>2
    <3> QED
      BY <1>1, <3>1, <3>2
  <2> QED
    BY <2>4, <2>5
<1> HIDE DEF front, rest, r
<1>6. /\ DOMAIN r = 1 .. Len(s) - 1 /\ ToSet(r) = {r[i] : i \in 1 .. Len(s) - 1}
      /\ DOMAIN s = 1 .. Len(s) /\ ToSet(s) = {s[i] : i \in 1 .. Len(s)}
  BY <1>5, ElementsOf
<1>7. IsInjective(r)
  <2>1. ASSUME NEW i \in 1 .. Len(s) - 1, NEW j \in 1 .. Len(s) - 1, r[i] = r[j] PROVE i = j
    <3> DEFINE from(n) == IF n <= k - 1 THEN n ELSE n + 1
    <3>1. from(i) \in 1 .. Len(s) /\ from(j) \in 1 .. Len(s) /\ s[from(i)] = s[from(j)]
      BY <1>1, <1>5, <2>1
    <3>2. from(i) = from(j)
      BY <1>6, <3>1 DEF IsInjective
    <3> QED
      BY <1>1, <3>2
  <2> QED
    BY <1>6, <2>1 DEF IsInjective
<1>8. ToSet(r) \subseteq ToSet(s) \ {s[k]}
  <2>1. ASSUME NEW i \in 1 .. Len(s) - 1 PROVE \E j \in 1 .. Len(s) : j # k /\ r[i] = s[j]
    BY <1>1, <1>5
  <2> QED
    BY <1>1, <1>6, <2>1 DEF IsInjective
<1>9. ToSet(s) \ {s[k]} \subseteq ToSet(r)
  <2>1. ASSUME NEW j \in 1 .. Len(s), j # k PROVE \E i \in 1 .. Len(s) - 1 : r[i] = s[j]
    <3>1. CASE j < k
      <4>1. j \in 1 .. Len(s) - 1 /\ r[j] = s[j]
        BY <1>1, <1>5, <3>1
      <4> QED
        BY <4>1
    <3>2. CASE j > k
      <4>1. j - 1 \in 1 .. Len(s) - 1 /\ r[j - 1] = s[(j - 1) + 1] /\ (j - 1) + 1 = j
        BY <1>1, <1>5, <3>2
      <4> QED
        BY <4>1
    <3> QED
      BY <1>1, <2>1, <3>1, <3>2
  <2> QED
    BY <1>6, <2>1
<1> QED
  BY <1>5, <1>7, <1>8, <1>9 DEF r

LEMMA AppendAddsOne ==
  ASSUME NEW S, NEW s \in Seq(S), IsInjective(s), NEW e \in S, e \notin ToSet(s)
  PROVE  /\ Append(s, e) \in Seq(S) /\ IsInjective(Append(s, e))
         /\ ToSet(Append(s, e)) = ToSet(s) \cup {e}
<1> DEFINE r == Append(s, e)
<1>1. /\ r \in Seq(S) /\ Len(r) = Len(s) + 1
      /\ \A i \in 1 .. Len(s) : r[i] = s[i]
      /\ r[Len(s) + 1] = e
  BY AppendProperties
<1> HIDE DEF r
<1>2. /\ DOMAIN r = 1 .. Len(s) + 1 /\ ToSet(r) = {r[i] : i \in 1 .. Len(s) + 1}
      /\ DOMAIN s = 1 .. Len(s) /\ ToSet(s) = {s[i] : i \in 1 .. Len(s)} /\ Len(s) \in Nat
  BY <1>1, ElementsOf
<1>3. \A i \in 1 .. Len(s) + 1 : i \in 1 .. Len(s) \/ i = Len(s) + 1
  BY <1>2
<1>4. \A i \in 1 .. Len(s) : i \in 1 .. Len(s) + 1
  BY <1>2
<1>5. Len(s) + 1 \in 1 .. Len(s) + 1
  BY <1>2
<1>6. IsInjective(r)
  BY <1>1, <1>2, <1>3 DEF IsInjective
<1>7. ToSet(r) = ToSet(s) \cup {e}
  BY <1>1, <1>2, <1>3, <1>4, <1>5
<1> QED
  BY <1>1, <1>6, <1>7 DEF r

\* A member who joins again moves to the end of the line.
LEMMA JoinedKeepsLine ==
  ASSUME TypeOK, NEW u \in Users
  PROVE  /\ Joined(u) \in Seq(Users) /\ IsInjective(Joined(u))
         /\ ToSet(Joined(u)) = ToSet(line) \cup {u}
<1>1. /\ line \in Seq(Users) /\ IsInjective(line)
      /\ ToSet(line) = {v \in Users : entry[v] # "NONE"}
  BY DEF TypeOK
<1>2. CASE entry[u] = "NONE"
  BY <1>1, <1>2, AppendAddsOne DEF Joined
<1>3. CASE entry[u] # "NONE"
  <2>1. Place(u) \in DOMAIN line /\ line[Place(u)] = u
    BY <1>1, <1>3 DEF Place, ToSet
  <2>2. /\ RemoveAt(line, Place(u)) \in Seq(Users) /\ IsInjective(RemoveAt(line, Place(u)))
        /\ ToSet(RemoveAt(line, Place(u))) = ToSet(line) \ {u}
    BY <1>1, <2>1, RemovalKeepsOthers
  <2>3. /\ Append(RemoveAt(line, Place(u)), u) \in Seq(Users)
        /\ IsInjective(Append(RemoveAt(line, Place(u)), u))
        /\ ToSet(Append(RemoveAt(line, Place(u)), u)) = (ToSet(line) \ {u}) \cup {u}
    BY <2>2, AppendAddsOne
  <2> QED
    BY <1>1, <1>3, <2>3 DEF Joined
<1> QED
  BY <1>2, <1>3

-----------------------------------------------------------------------------
(* Ticket holders.                                                         *)

Records ==
  /\ order \in [Users -> Orders]
  /\ entry \in [Users -> WaitlistStatus]
  /\ HoldersDoNotWait

LEMMA SettleKeeps ==
  ASSUME entry \in [Users -> WaitlistStatus],
         NEW users, NEW new \in {"LEFT", "CLOSED", "FULFILLED"}, Settle(users, new)
  PROVE  /\ entry' \in [Users -> WaitlistStatus]
         /\ Active' = Active \ users
         /\ \A u \in Users : /\ entry'[u] = "NONE" <=> entry[u] = "NONE"
                            /\ entry'[u] = "WAITING" => entry[u] = "WAITING" /\ u \notin users
  BY DEF Settle, Active, WaitlistStatus

\* The transaction of a wave alerts nobody who holds a ticket.
LEMMA WaveKeeps == ASSUME Records, DispatchWave PROVE Records'
<1>1. order' = order
  BY DEF DispatchWave, stockVars
<1>2. CASE UNCHANGED entry
  BY <1>1, <1>2 DEF Records, HoldersDoNotWait, Active
<1>3. ASSUME NEW rows \in Batches,
             entry' = [u \in Users |->
               CASE u \in {v \in rows : Alerts(v)} -> "NOTIFIED"
                 [] u \in rows \cap (alertable \ cooling) /\ order[u] = "PAID" -> "FULFILLED"
                 [] OTHER -> entry[u]]
      PROVE  Records'
  <2>1. ASSUME NEW u \in Users
        PROVE  entry'[u] \in {entry[u], "FULFILLED"} \/ (entry'[u] = "NOTIFIED" /\ Alerts(u))
    BY <1>3
  <2>2. entry' \in [Users -> WaitlistStatus]
    BY <1>3, <2>1 DEF Records, WaitlistStatus
  <2>3. \A u \in Users : Alerts(u) => order[u] # "PAID"
    BY DEF Alerts, Entitled
  <2> QED
    BY <1>1, <2>1, <2>2, <2>3 DEF Records, HoldersDoNotWait, Active
<1> QED
  BY <1>2, <1>3 DEF DispatchWave

LEMMA MembersKeep ==
  ASSUME Records, NEW u \in Users,
         JoinWaitlist(u) \/ CoolDown(u) \/ LeaveWaitlist(u) \/ SwitchAlerts(u)
  PROVE  Records'
<1>1. CASE JoinWaitlist(u)
  BY <1>1 DEF JoinWaitlist, MayJoin, Entitled, Records, HoldersDoNotWait, Active, WaitlistStatus, stockVars
<1>2. CASE CoolDown(u) \/ SwitchAlerts(u)
  BY <1>2 DEF CoolDown, SwitchAlerts, Records, HoldersDoNotWait, Active, stockVars
<1>3. CASE LeaveWaitlist(u)
  BY <1>3, SettleKeeps DEF Records, LeaveWaitlist, HoldersDoNotWait, stockVars
<1> QED
  BY <1>1, <1>2, <1>3

\* Payment is the only way to a ticket, and it ends the wait.
LEMMA OrdersKeep ==
  ASSUME Records, NEW u \in Users,
         Reserve(u) \/ Lapse(u) \/ VoidTickets(u) \/ Release(u) \/ Fulfill(u)
  PROVE  Records'
<1>1. CASE Fulfill(u)
  <2>1. entry' \in [Users -> WaitlistStatus] /\ Active' = Active \ {u}
    BY <1>1, SettleKeeps DEF Records, Fulfill, FulfillWaitlist
  <2>2. order' = [order EXCEPT ![u] = "PAID"]
    BY <1>1 DEF Fulfill
  <2> QED
    BY <2>1, <2>2 DEF Records, HoldersDoNotWait, Orders, Active
<1>2. ASSUME NEW new \in Orders \ {"PAID"},
             order' = [order EXCEPT ![u] = new], UNCHANGED entry
      PROVE  Records'
  BY <1>2 DEF Records, HoldersDoNotWait, Orders, Active
<1>3. CASE Reserve(u) \/ Lapse(u) \/ VoidTickets(u) \/ Release(u)
  BY <1>2, <1>3 DEF Reserve, Lapse, VoidTickets, Release, memberVars, Orders
<1> QED
  BY <1>1, <1>3

LEMMA SalesKeep ==
  ASSUME Records, Active' \subseteq Active, order' = order, entry' \in [Users -> WaitlistStatus]
  PROVE  Records'
  BY DEF Records, HoldersDoNotWait

LEMMA StepRecords == ASSUME Records, [Next]_vars PROVE Records'
<1>1. ASSUME NEW u \in Users, JoinWaitlist(u) \/ CoolDown(u) PROVE Records'
  BY <1>1, MembersKeep
<1>2. ASSUME NEW u \in Buyers,
             \/ LeaveWaitlist(u) \/ SwitchAlerts(u)
             \/ Reserve(u) \/ Lapse(u) \/ VoidTickets(u) \/ Release(u) \/ Fulfill(u)
      PROVE  Records'
  BY <1>2, UsersAssumption, MembersKeep, OrdersKeep
<1>3. CloseTierWaitlist \/ CancelEvent => Records'
  BY SettleKeeps, SalesKeep DEF Records, CloseTierWaitlist, CancelEvent, stockVars
<1>4. ASSUME NEW q \in 1 .. MaxCapacity, OthersBuy(q) \/ OthersRelease(q) PROVE Records'
  <2>1. UNCHANGED <<order, entry>>
    BY <1>4 DEF OthersBuy, OthersRelease, memberVars
  <2> QED
    BY <2>1, SalesKeep DEF Active, Records
<1>5. ASSUME NEW more \in 0 .. MaxCapacity, NEW new \in Windows, NEW pause \in BOOLEAN,
             UpdateTicketTier(more, new, pause)
      PROVE  Records'
  BY <1>5, SettleKeeps, SalesKeep DEF Records, UpdateTicketTier
<1>6. TimePasses \/ UNCHANGED vars => Records'
  BY SalesKeep DEF TimePasses, vars, stockVars, memberVars, Active, Records
<1> QED
  BY <1>1, <1>2, <1>3, <1>4, <1>5, <1>6, WaveKeeps DEF Next

\* Whoever pays leaves the waitlist with that payment, and neither a new entry nor
\* a wave that is under way brings a ticket holder back to it.
THEOREM HoldersNeverWait == Spec => []HoldersDoNotWait
<1>1. Init => Records
  BY DEF Init, Records, HoldersDoNotWait, Active, Orders, WaitlistStatus
<1>2. Records /\ [Next]_vars => Records'
  BY StepRecords
<1>3. Records => HoldersDoNotWait
  BY DEF Records
<1> QED
  BY <1>1, <1>2, <1>3, PTL DEF Spec

-----------------------------------------------------------------------------
(* Types.                                                                  *)

Holding == {u \in Users : order[u] \notin Released}

LEMMA UnsoldIs ==
  ASSUME TypeOK
  PROVE  /\ Unsold = capacity - others - Cardinality(Holding)
         /\ IsFiniteSet(Holding) /\ Cardinality(Holding) \in Nat
         /\ capacity \in Nat /\ others \in Nat /\ Unsold \in Int
<1>1. IsFiniteSet(Holding)
  BY FS_Subset, UsersAssumption DEF Holding
<1>2. Cardinality(Holding) \in Nat
  BY <1>1, FS_CardinalityType
<1>3. capacity \in Nat /\ others \in Nat
  BY BoundsAssumption DEF TypeOK
<1> QED
  BY <1>1, <1>2, <1>3 DEF Unsold, Holding

\* An order takes a unit, and gives it back.
LEMMA UnitsOfOrders ==
  ASSUME TypeOK, NEW u \in Users, NEW new \in Orders, order' = [order EXCEPT ![u] = new],
         UNCHANGED <<capacity, others>>
  PROVE  Unsold' = Unsold + (IF order[u] \notin Released THEN 1 ELSE 0) - (IF new \notin Released THEN 1 ELSE 0)
<1> DEFINE held == Cardinality(Holding)
<1>1. order \in [Users -> Orders]
  BY DEF TypeOK
<1>2. Holding' = IF new \notin Released THEN Holding \cup {u} ELSE Holding \ {u}
  BY <1>1 DEF Holding
<1>3. u \in Holding <=> order[u] \notin Released
  BY DEF Holding
<1>4. Unsold' = capacity - others - Cardinality(Holding')
  BY DEF Unsold, Holding
<1>5. IsFiniteSet(Holding) /\ held \in Nat /\ Unsold = capacity - others - held
      /\ capacity \in Nat /\ others \in Nat
  BY UnsoldIs
<1>6. Cardinality(Holding \cup {u}) = IF u \in Holding THEN held ELSE held + 1
  BY <1>5, FS_AddElement
<1>7. Cardinality(Holding \ {u}) = IF u \in Holding THEN held - 1 ELSE held
  BY <1>5, FS_RemoveElement
<1> HIDE DEF held
<1>8. CASE new \notin Released
  <2>1. Cardinality(Holding') = IF order[u] \notin Released THEN held ELSE held + 1
    BY <1>2, <1>3, <1>6, <1>8
  <2> QED
    BY <1>4, <1>5, <1>8, <2>1
<1>9. CASE new \in Released
  <2>1. Cardinality(Holding') = IF order[u] \notin Released THEN held - 1 ELSE held
    BY <1>2, <1>3, <1>7, <1>9
  <2> QED
    BY <1>4, <1>5, <1>9, <2>1
<1> QED
  BY <1>8, <1>9

SaleTypes ==
  /\ window \in Windows /\ paused \in BOOLEAN
  /\ capacity \in 1 .. MaxCapacity
  /\ others \in 0 .. capacity
  /\ order \in [Users -> Orders]

EntryTypes ==
  /\ entry \in [Users -> WaitlistStatus]
  /\ line \in Seq(Users) /\ IsInjective(line)
  /\ ToSet(line) = {u \in Users : entry[u] # "NONE"}
  /\ cooling \subseteq Users /\ alertable \subseteq Users

WaveTypes ==
  /\ inTime \subseteq ToSet(line) /\ passed \subseteq inTime
  /\ working \in BOOLEAN /\ extended \in BOOLEAN

LEMMA TypeParts ==
  /\ TypeOK <=> SaleTypes /\ EntryTypes /\ WaveTypes
  /\ TypeOK' <=> SaleTypes' /\ EntryTypes' /\ WaveTypes'
  BY DEF TypeOK, SaleTypes, EntryTypes, WaveTypes

LEMMA RecordKeepsWave ==
  ASSUME TypeOK, line' = line, NEW available, NEW released, NEW opening,
         RecordInventoryRelease(available, released, opening)
  PROVE  WaveTypes'
  BY DEF TypeOK, WaveTypes, RecordInventoryRelease, waveVars

\* A step that lets no entry appear or disappear.
LEMMA EntriesKeep ==
  ASSUME TypeOK, entry' \in [Users -> WaitlistStatus], line' = line, alertable' = alertable,
         cooling' \subseteq Users, \A u \in Users : entry'[u] = "NONE" <=> entry[u] = "NONE"
  PROVE  EntryTypes'
  BY DEF TypeOK, EntryTypes

LEMMA SettleTypes ==
  ASSUME TypeOK, NEW users, NEW new \in {"LEFT", "CLOSED", "FULFILLED"}, Settle(users, new),
         UNCHANGED <<line, cooling, alertable>>
  PROVE  EntryTypes'
<1>1. entry \in [Users -> WaitlistStatus] /\ cooling \subseteq Users
  BY DEF TypeOK
<1>2. entry' \in [Users -> WaitlistStatus] /\ \A u \in Users : entry'[u] = "NONE" <=> entry[u] = "NONE"
  BY <1>1 DEF Settle, Active, WaitlistStatus
<1> QED
  BY <1>1, <1>2, EntriesKeep

LEMMA UnchangedTypes ==
  ASSUME TypeOK
  PROVE  /\ UNCHANGED <<saleVars, stockVars>> => SaleTypes'
         /\ UNCHANGED memberVars => EntryTypes'
         /\ UNCHANGED <<waveVars, line>> => WaveTypes'
  BY DEF TypeOK, SaleTypes, EntryTypes, WaveTypes, saleVars, stockVars, memberVars, waveVars

LEMMA DispatchTypes == ASSUME TypeOK, DispatchWave PROVE TypeOK'
<1>1. UNCHANGED <<saleVars, stockVars, line, alertable, inTime, extended>>
  BY DEF DispatchWave
<1>2. SaleTypes'
  BY <1>1, UnchangedTypes
<1>3. ASSUME working' = FALSE, UNCHANGED <<entry, cooling, passed>>
      PROVE  EntryTypes' /\ WaveTypes'
  BY <1>1, <1>3 DEF TypeOK, EntryTypes, WaveTypes
<1>4. ASSUME NEW rows \in Batches,
             entry' = [u \in Users |->
               CASE u \in {v \in rows : Alerts(v)} -> "NOTIFIED"
                 [] u \in rows \cap (alertable \ cooling) /\ order[u] = "PAID" -> "FULFILLED"
                 [] OTHER -> entry[u]],
             cooling' = cooling \cup {v \in rows : Alerts(v)},
             passed' = BehindCursor(rows),
             working' = MoreRows(rows)
      PROVE  EntryTypes' /\ WaveTypes'
  <2>1. rows \subseteq Waiting /\ Waiting \subseteq Users /\ \A u \in Waiting : entry[u] = "WAITING"
    BY DEF Batches, Waiting, TypeOK
  <2>2. \A u \in Users : \/ entry'[u] = entry[u]
                         \/ u \in rows /\ entry'[u] \in {"NOTIFIED", "FULFILLED"}
    BY <1>4
  <2>3. entry' \in [Users -> WaitlistStatus]
    BY <1>4, <2>2 DEF TypeOK, WaitlistStatus
  <2>4. \A u \in Users : entry'[u] = "NONE" <=> entry[u] = "NONE"
    BY <2>1, <2>2
  <2>5. EntryTypes'
    BY <1>1, <1>4, <2>1, <2>3, <2>4, EntriesKeep DEF TypeOK
  <2>6. WaveTypes'
    BY <1>1, <1>4 DEF TypeOK, WaveTypes, BehindCursor, MoreRows
  <2> QED
    BY <2>5, <2>6
<1> QED
  BY <1>2, <1>3, <1>4, TypeParts DEF DispatchWave

LEMMA MemberTypes ==
  ASSUME TypeOK, NEW u \in Users,
         JoinWaitlist(u) \/ CoolDown(u) \/ LeaveWaitlist(u) \/ SwitchAlerts(u)
  PROVE  TypeOK'
<1>1. CASE JoinWaitlist(u)
  <2>1. SaleTypes'
    BY <1>1, UnchangedTypes DEF JoinWaitlist
  <2>2. /\ entry' = [entry EXCEPT ![u] = "WAITING"]
        /\ line' \in Seq(Users) /\ IsInjective(line') /\ ToSet(line') = ToSet(line) \cup {u}
        /\ inTime' = inTime \ {u} /\ passed' = passed \ {u}
        /\ UNCHANGED <<cooling, alertable, working, extended>>
    BY <1>1, JoinedKeepsLine DEF JoinWaitlist
  <2>3. EntryTypes'
    BY <2>2 DEF TypeOK, EntryTypes, WaitlistStatus
  <2>4. WaveTypes'
    BY <2>2 DEF TypeOK, WaveTypes
  <2> QED
    BY <2>1, <2>3, <2>4, TypeParts
<1>2. CASE CoolDown(u) \/ SwitchAlerts(u)
  <2>1. SaleTypes' /\ WaveTypes'
    BY <1>2, UnchangedTypes DEF CoolDown, SwitchAlerts
  <2>2. EntryTypes'
    BY <1>2 DEF CoolDown, SwitchAlerts, TypeOK, EntryTypes
  <2> QED
    BY <2>1, <2>2, TypeParts
<1>3. CASE LeaveWaitlist(u)
  <2>1. SaleTypes' /\ WaveTypes'
    BY <1>3, UnchangedTypes DEF LeaveWaitlist
  <2>2. EntryTypes'
    BY <1>3, SettleTypes DEF LeaveWaitlist
  <2> QED
    BY <2>1, <2>2, TypeParts
<1> QED
  BY <1>1, <1>2, <1>3

LEMMA OrderTypes ==
  ASSUME TypeOK, NEW u \in Users,
         Reserve(u) \/ Lapse(u) \/ VoidTickets(u) \/ Release(u) \/ Fulfill(u)
  PROVE  TypeOK'
<1>1. SaleTypes'
  <2>1. UNCHANGED <<window, paused, capacity, others>>
    BY DEF Reserve, Lapse, VoidTickets, Release, Fulfill, saleVars
  <2>2. \E new \in Orders : order' = [order EXCEPT ![u] = new]
    BY DEF Reserve, Lapse, VoidTickets, Release, Fulfill, Orders
  <2> QED
    BY <2>1, <2>2 DEF TypeOK, SaleTypes
<1>2. CASE Reserve(u) \/ Lapse(u) \/ VoidTickets(u)
  <2>1. EntryTypes' /\ WaveTypes'
    BY <1>2, UnchangedTypes DEF Reserve, Lapse, VoidTickets, memberVars
  <2> QED
    BY <1>1, <2>1, TypeParts
<1>3. CASE Release(u)
  <2>1. EntryTypes' /\ line' = line
    BY <1>3, UnchangedTypes DEF Release, memberVars
  <2>2. WaveTypes'
    BY <1>3, <2>1, RecordKeepsWave DEF Release
  <2> QED
    BY <1>1, <2>1, <2>2, TypeParts
<1>4. CASE Fulfill(u)
  <2>1. line' = line /\ EntryTypes'
    BY <1>4, SettleTypes DEF Fulfill, FulfillWaitlist
  <2>2. WaveTypes'
    BY <1>4, UnchangedTypes DEF Fulfill
  <2> QED
    BY <1>1, <2>1, <2>2, TypeParts
<1> QED
  BY <1>2, <1>3, <1>4

LEMMA OtherTypes ==
  ASSUME TypeOK, NEW q \in 1 .. MaxCapacity, OthersBuy(q) \/ OthersRelease(q)
  PROVE  TypeOK'
<1>1. UNCHANGED <<saleVars, capacity, order, memberVars>> /\ line' = line
  BY DEF OthersBuy, OthersRelease, memberVars
<1>2. EntryTypes'
  BY <1>1, UnchangedTypes
<1>3. others' \in 0 .. capacity
  <2>1. CASE OthersRelease(q)
    BY <2>1, UnsoldIs, BoundsAssumption DEF OthersRelease, TypeOK
  <2>2. CASE OthersBuy(q)
    <3>1. EffectiveAvailability = Unsold
      BY <2>2, UnsoldIs, BoundsAssumption DEF OthersBuy, EffectiveAvailability, AvailabilityWith
    <3> QED
      BY <2>2, <3>1, UnsoldIs, BoundsAssumption DEF OthersBuy
  <2> QED
    BY <2>1, <2>2
<1>4. SaleTypes'
  BY <1>1, <1>3 DEF TypeOK, SaleTypes, saleVars
<1>5. WaveTypes'
  BY <1>1, RecordKeepsWave, UnchangedTypes DEF OthersBuy, OthersRelease
<1> QED
  BY <1>2, <1>4, <1>5, TypeParts

LEMMA OrganizerTypes ==
  ASSUME TypeOK, NEW more \in 0 .. MaxCapacity, NEW new \in Windows, NEW pause \in BOOLEAN,
         UpdateTicketTier(more, new, pause)
  PROVE  TypeOK'
<1>1. UNCHANGED <<others, order, line, cooling, alertable>>
  BY DEF UpdateTicketTier
<1>2. capacity' \in 1 .. MaxCapacity /\ capacity' >= capacity
  BY BoundsAssumption DEF UpdateTicketTier, TypeOK
<1>3. SaleTypes'
  BY <1>1, <1>2, UnsoldIs DEF UpdateTicketTier, TypeOK, SaleTypes
<1>4. EntryTypes'
  <2>1. \E users : Settle(users, "CLOSED")
    BY DEF UpdateTicketTier
  <2> QED
    BY <1>1, <2>1, SettleTypes
<1>5. WaveTypes'
  <2>1. CASE extended' = TRUE /\ UNCHANGED <<inTime, passed, working>>
    BY <1>1, <2>1 DEF TypeOK, WaveTypes
  <2>2. CASE \E available, opening : RecordInventoryRelease(available, more, opening)
    BY <1>1, <2>2, RecordKeepsWave
  <2> QED
    BY <2>1, <2>2 DEF UpdateTicketTier
<1> QED
  BY <1>3, <1>4, <1>5, TypeParts

LEMMA StepTypes == ASSUME TypeOK, [Next]_vars PROVE TypeOK'
<1>1. ASSUME NEW u \in Users, JoinWaitlist(u) \/ CoolDown(u) PROVE TypeOK'
  BY <1>1, MemberTypes
<1>2. ASSUME NEW u \in Buyers,
             \/ LeaveWaitlist(u) \/ SwitchAlerts(u)
             \/ Reserve(u) \/ Lapse(u) \/ VoidTickets(u) \/ Release(u) \/ Fulfill(u)
      PROVE  TypeOK'
  BY <1>2, UsersAssumption, MemberTypes, OrderTypes
<1>3. ASSUME CloseTierWaitlist \/ CancelEvent PROVE TypeOK'
  <2>1. SaleTypes' /\ WaveTypes'
    <3>1. UNCHANGED <<waveVars, line>>
      BY <1>3 DEF CloseTierWaitlist, CancelEvent
    <3>2. UNCHANGED <<paused, stockVars>> /\ window' \in {window, "OVER"}
      BY <1>3 DEF CloseTierWaitlist, CancelEvent, saleVars
    <3> QED
      BY <3>1, <3>2, UnchangedTypes DEF TypeOK, SaleTypes, stockVars, Windows
  <2>2. EntryTypes'
    BY <1>3, SettleTypes DEF CloseTierWaitlist, CancelEvent
  <2> QED
    BY <2>1, <2>2, TypeParts
<1>4. ASSUME TimePasses PROVE TypeOK'
  <2>1. window' \in Windows /\ UNCHANGED <<paused, stockVars, memberVars, waveVars>>
    BY <1>4 DEF TimePasses, Windows
  <2>2. SaleTypes'
    BY <2>1 DEF TypeOK, SaleTypes, stockVars
  <2>3. EntryTypes' /\ WaveTypes'
    BY <2>1, UnchangedTypes DEF memberVars
  <2> QED
    BY <2>2, <2>3, TypeParts
<1>5. UNCHANGED vars => TypeOK'
  BY UnchangedTypes, TypeParts DEF vars, memberVars
<1> QED
  BY <1>1, <1>2, <1>3, <1>4, <1>5, OtherTypes, OrganizerTypes, DispatchTypes DEF Next

LEMMA InitTypes == Init => TypeOK
<1>1. ASSUME Init PROVE EntryTypes /\ WaveTypes
  <2>1. ToSet(<<>>) = {} /\ IsInjective(<<>>) /\ <<>> \in Seq(Users)
    BY DEF ToSet, IsInjective
  <2> QED
    BY <1>1, <2>1 DEF Init, EntryTypes, WaveTypes, WaitlistStatus
<1>2. ASSUME Init PROVE SaleTypes
  <2>1. order \in [Users -> Orders]
    BY <1>2 DEF Init, Orders
  <2>2. window \in Windows /\ paused \in BOOLEAN
    BY <1>2 DEF Init, Windows
  <2>3. capacity \in 1 .. MaxCapacity /\ others \in 0 .. capacity
    BY <1>2, BoundsAssumption DEF Init
  <2> QED
    BY <2>1, <2>2, <2>3 DEF SaleTypes
<1> QED
  BY <1>1, <1>2, TypeParts

\* The line holds each member once and exactly the members with an entry, the
\* cursor of a wave stays among those it was opened for, and what others hold
\* stays within the capacity, however members join again and capacity grows.
THEOREM WaitlistTypes == Spec => []TypeOK
  BY InitTypes, StepTypes, PTL DEF Spec

-----------------------------------------------------------------------------
(* Waves.                                                                  *)

\* A step that opens no wave keeps the coverage of those who still wait.
LEMMA CoverageKept ==
  ASSUME WaveCoversWaiters, UNCHANGED waveVars,
         EffectiveAvailability' > 0 => EffectiveAvailability > 0,
         \A u \in Users : entry'[u] = "WAITING" => entry[u] = "WAITING"
  PROVE  WaveCoversWaiters'
  BY DEF WaveCoversWaiters, waveVars

\* A wave that is opened covers everybody in the line.
LEMMA WaveOpened ==
  ASSUME TypeOK, line' = line, \A u \in Users : entry'[u] = "WAITING" => entry[u] = "WAITING",
         NEW available, NEW released, NEW opening, OpensWave(available, released, opening),
         RecordInventoryRelease(available, released, opening)
  PROVE  WaveCoversWaiters'
<1>1. inTime' = ToSet(line) /\ working' = TRUE
  BY DEF RecordInventoryRelease
<1>2. \A u \in Users : entry[u] = "WAITING" => u \in ToSet(line)
  BY DEF TypeOK
<1> QED
  BY <1>1, <1>2 DEF WaveCoversWaiters

\* The units of a release that opens no wave were not the only ones on sale.
LEMMA ReleaseCovers ==
  ASSUME TypeOK, WaveCoversWaiters, line' = line, UNCHANGED saleVars,
         \A u \in Users : entry'[u] = "WAITING" => entry[u] = "WAITING",
         NEW q \in Nat \ {0}, Unsold' <= Unsold + q,
         RecordInventoryRelease(AvailabilityWith(q), q, FALSE),
         Unsold' \in Int
  PROVE  WaveCoversWaiters'
<1>1. CASE OpensWave(AvailabilityWith(q), q, FALSE)
  BY <1>1, WaveOpened
<1>2. CASE ~OpensWave(AvailabilityWith(q), q, FALSE)
  <2>1. UNCHANGED waveVars
    BY <1>2 DEF RecordInventoryRelease
  <2>2. ASSUME EffectiveAvailability' > 0 PROVE EffectiveAvailability > 0
    <3>1. Sellable(window, paused) /\ Unsold' > 0
      BY <2>2 DEF EffectiveAvailability, AvailabilityWith, saleVars, Sellable
    <3>2. AvailabilityWith(q) = Unsold + q /\ Unsold \in Int
      BY <3>1, UnsoldIs DEF AvailabilityWith
    <3>3. ~(Unsold + q <= q)
      BY <1>2, <3>1, <3>2 DEF OpensWave
    <3>4. Unsold > 0
      BY <3>2, <3>3
    <3>5. EffectiveAvailability = Unsold
      BY <3>1, <3>2 DEF EffectiveAvailability, AvailabilityWith
    <3> QED
      BY <3>4, <3>5
  <2> QED
    BY <2>1, <2>2, CoverageKept
<1> QED
  BY <1>1, <1>2

\* The job of a wave ends with the transaction that has read every member who is
\* left: a batch that is not full is all of them.
LEMMA LastBatch ==
  ASSUME TypeOK, NEW rows \in Batches, ~MoreRows(rows)
  PROVE  Waiting \subseteq BehindCursor(rows)
<1>1. IsFiniteSet(Waiting)
  BY FS_Subset, UsersAssumption DEF TypeOK, Waiting
<1>2. rows \in SUBSET Waiting /\ Cardinality(Waiting) = Cardinality(rows)
  BY DEF Batches, MoreRows
<1>3. rows = Waiting
  BY <1>1, <1>2, FS_Subset
<1>4. ASSUME NEW u \in Waiting PROVE Place(u) \in Nat
  <2>1. u \in ToSet(line) /\ line \in Seq(Users)
    BY <1>4 DEF TypeOK, Waiting
  <2>2. Place(u) \in DOMAIN line /\ DOMAIN line = 1 .. Len(line) /\ Len(line) \in Nat
    BY <2>1, ElementsOf DEF Place, ToSet
  <2> QED
    BY <2>2
<1>5. ASSUME NEW u \in Waiting PROVE u \in inTime /\ Place(u) <= Place(u)
  BY <1>4 DEF Waiting
<1> QED
  BY <1>3, <1>5 DEF BehindCursor

LEMMA DispatchCovers ==
  ASSUME TypeOK, WaveCoversWaiters, DispatchWave PROVE WaveCoversWaiters'
<1>1. EffectiveAvailability' = EffectiveAvailability /\ UNCHANGED <<inTime, extended>> /\ working
  BY DEF DispatchWave, EffectiveAvailability, AvailabilityWith, Unsold, Sellable, saleVars, stockVars
<1>2. CASE EffectiveAvailability = 0
  BY <1>1, <1>2 DEF WaveCoversWaiters
<1>3. ASSUME NEW rows \in Batches,
             entry' = [u \in Users |->
               CASE u \in {v \in rows : Alerts(v)} -> "NOTIFIED"
                 [] u \in rows \cap (alertable \ cooling) /\ order[u] = "PAID" -> "FULFILLED"
                 [] OTHER -> entry[u]],
             passed' = BehindCursor(rows),
             working' = MoreRows(rows)
      PROVE  WaveCoversWaiters'
  <2>1. \A u \in Users : entry'[u] = "WAITING" => entry[u] = "WAITING"
    BY <1>3
  <2>2. ASSUME NEW u \in Users, u \in inTime, entry[u] = "WAITING", ~MoreRows(rows)
        PROVE  u \in BehindCursor(rows)
    <3>1. CASE u \in passed
      BY <3>1 DEF BehindCursor
    <3>2. CASE u \notin passed
      BY <2>2, <3>2, LastBatch DEF Waiting
    <3> QED
      BY <3>1, <3>2
  <2> QED
    BY <1>1, <1>3, <2>1, <2>2 DEF WaveCoversWaiters
<1> QED
  BY <1>2, <1>3 DEF DispatchWave

LEMMA MembersCover ==
  ASSUME TypeOK, WaveCoversWaiters, NEW u \in Users,
         JoinWaitlist(u) \/ CoolDown(u) \/ LeaveWaitlist(u) \/ SwitchAlerts(u)
  PROVE  WaveCoversWaiters'
<1>1. EffectiveAvailability' = EffectiveAvailability
  BY DEF JoinWaitlist, CoolDown, LeaveWaitlist, SwitchAlerts, EffectiveAvailability,
         AvailabilityWith, Unsold, Sellable, saleVars, stockVars
<1>2. CASE JoinWaitlist(u)
  <2>1. EffectiveAvailability = 0
    BY <1>2 DEF JoinWaitlist, MayJoin, EffectiveAvailability, AvailabilityWith
  <2> QED
    BY <1>1, <2>1 DEF WaveCoversWaiters
<1>3. CASE CoolDown(u) \/ SwitchAlerts(u)
  BY <1>1, <1>3, CoverageKept DEF CoolDown, SwitchAlerts
<1>4. CASE LeaveWaitlist(u)
  <2>1. \A v \in Users : entry'[v] = "WAITING" => entry[v] = "WAITING"
    BY <1>4 DEF LeaveWaitlist, Settle
  <2> QED
    BY <1>1, <1>4, <2>1, CoverageKept DEF LeaveWaitlist
<1> QED
  BY <1>2, <1>3, <1>4

LEMMA OrdersCover ==
  ASSUME TypeOK, TypeOK', WaveCoversWaiters, NEW u \in Users,
         Reserve(u) \/ Lapse(u) \/ VoidTickets(u) \/ Release(u) \/ Fulfill(u)
  PROVE  WaveCoversWaiters'
<1>1. /\ UNCHANGED saleVars /\ UNCHANGED <<capacity, others>> /\ line' = line
      /\ \A v \in Users : entry'[v] = "WAITING" => entry[v] = "WAITING"
  BY DEF Reserve, Lapse, VoidTickets, Release, Fulfill, FulfillWaitlist, Settle, memberVars
<1>2. Unsold \in Int /\ Unsold' \in Int
  <2>1. Unsold' = capacity - others - Cardinality(Holding')
    BY <1>1 DEF Unsold, Holding
  <2>2. Cardinality(Holding') \in Nat
    <3>1. IsFiniteSet(Holding')
      BY FS_Subset, UsersAssumption DEF Holding
    <3> QED
      BY <3>1, FS_CardinalityType
  <2> QED
    BY <2>1, <2>2, UnsoldIs
<1>3. ASSUME Unsold' <= Unsold, EffectiveAvailability' > 0 PROVE EffectiveAvailability > 0
  <2>1. EffectiveAvailability = IF Sellable(window, paused) THEN Unsold + 0 ELSE 0
    BY DEF EffectiveAvailability, AvailabilityWith
  <2>2. EffectiveAvailability' = IF Sellable(window, paused) THEN Unsold' ELSE 0
    BY <1>1, <1>2 DEF EffectiveAvailability, AvailabilityWith, Sellable, Unsold, saleVars
  <2> QED
    BY <1>2, <1>3, <2>1, <2>2
<1>4. ASSUME NEW new \in Orders \ Released, order' = [order EXCEPT ![u] = new]
      PROVE  Unsold' <= Unsold
  <2>1. \/ Unsold' = Unsold + 1 - 1
        \/ Unsold' = Unsold + 0 - 1
    BY <1>1, <1>4, UnitsOfOrders
  <2> QED
    BY <1>2, <2>1
<1>5. CASE Reserve(u) \/ Lapse(u) \/ VoidTickets(u)
  <2>1. Unsold' <= Unsold
    BY <1>4, <1>5 DEF Reserve, Lapse, VoidTickets, Orders, Released
  <2>2. UNCHANGED waveVars
    BY <1>5 DEF Reserve, Lapse, VoidTickets
  <2> QED
    BY <1>1, <1>3, <2>1, <2>2, CoverageKept
<1>6. CASE Release(u)
  <2>1. Unsold' = Unsold + 1 - 0
    <3>1. PICK new \in Released : order' = [order EXCEPT ![u] = new]
      BY <1>6 DEF Release, Released
    <3>2. new \in Orders /\ order[u] \notin Released
      BY <1>6 DEF Release, Orders, Released
    <3> QED
      BY <1>1, <3>1, <3>2, UnitsOfOrders
  <2>2. Unsold' <= Unsold + 1
    BY <1>2, <2>1
  <2>3. RecordInventoryRelease(AvailabilityWith(1), 1, FALSE)
    BY <1>6, Zenon DEF Release
  <2>4. 1 \in Nat \ {0}
    OBVIOUS
  <2> QED
    BY <1>1, <1>2, <2>2, <2>3, <2>4, ReleaseCovers, Zenon
<1>7. CASE Fulfill(u)
  <2>1. Unsold' <= Unsold
    BY <1>4, <1>7 DEF Fulfill, Orders, Released
  <2>2. UNCHANGED waveVars
    BY <1>7 DEF Fulfill
  <2> QED
    BY <1>1, <1>3, <2>1, <2>2, CoverageKept
<1> QED
  BY <1>5, <1>6, <1>7

LEMMA OthersCover ==
  ASSUME TypeOK, WaveCoversWaiters, NEW q \in 1 .. MaxCapacity, OthersBuy(q) \/ OthersRelease(q)
  PROVE  WaveCoversWaiters'
<1>1. UNCHANGED <<saleVars, capacity, order, entry>> /\ line' = line
  BY DEF OthersBuy, OthersRelease, memberVars
<1>2. Unsold' = capacity - others' - Cardinality(Holding)
  BY <1>1 DEF Unsold, Holding
<1>3. CASE OthersBuy(q)
  <2>1. Unsold' = Unsold - q /\ Unsold \in Int
    BY <1>2, <1>3, UnsoldIs DEF OthersBuy
  <2>2. EffectiveAvailability' > 0 => EffectiveAvailability > 0
    BY <1>1, <2>1 DEF EffectiveAvailability, AvailabilityWith, Sellable, saleVars
  <2> QED
    BY <1>1, <1>3, <2>2, CoverageKept DEF OthersBuy
<1>4. CASE OthersRelease(q)
  <2>1. Unsold' = Unsold + q /\ Unsold' \in Int
    BY <1>2, <1>4, UnsoldIs DEF OthersRelease
  <2>2. Unsold' <= Unsold + q /\ q \in Nat \ {0}
    BY <2>1, UnsoldIs
  <2> QED
    BY <1>1, <1>4, <2>1, <2>2, ReleaseCovers DEF OthersRelease
<1> QED
  BY <1>3, <1>4

\* A larger capacity or the end of a pause opens a wave unless stock was on sale
\* before; a window that ended with members waiting and opens again is marked.
LEMMA OrganizerCovers ==
  ASSUME TypeOK, WaveCoversWaiters,
         NEW more \in 0 .. MaxCapacity, NEW new \in Windows, NEW pause \in BOOLEAN,
         UpdateTicketTier(more, new, pause)
  PROVE  WaveCoversWaiters'
<1> DEFINE opening == paused /\ ~pause
           extends == window = "CLOSED" /\ new = "OPEN" /\ Active # {}
           available == IF Sellable(new, pause) THEN Unsold + more ELSE 0
<1>1. /\ UNCHANGED <<others, order, line>>
      /\ window # "OVER" /\ window' = new /\ paused' = pause /\ capacity' = capacity + more
      /\ IF extends /\ ~OpensWave(available, more, opening)
           THEN extended' = TRUE
           ELSE RecordInventoryRelease(available, more, opening)
  BY DEF UpdateTicketTier
<1>2. \A u \in Users : entry'[u] = "WAITING" => entry[u] = "WAITING"
  <2>1. \E users : Settle(users, "CLOSED")
    BY DEF UpdateTicketTier
  <2> QED
    BY <2>1 DEF Settle
<1>3. EffectiveAvailability' = available
  <2>1. PICK enlarged : enlarged = capacity'
    OBVIOUS
  <2>2. Unsold' = Unsold + more
    <3>1. Unsold' = enlarged - others - Cardinality(Holding)
      BY <1>1, <2>1 DEF Unsold, Holding
    <3>2. enlarged = capacity + more
      BY <1>1, <2>1
    <3> QED
      BY <3>1, <3>2, UnsoldIs
  <2>3. Unsold' \in Int
    BY <2>2, UnsoldIs
  <2> QED
    BY <1>1, <2>2, <2>3 DEF EffectiveAvailability, AvailabilityWith, Sellable
<1>4. CASE OpensWave(available, more, opening)
  BY <1>1, <1>2, <1>4, WaveOpened
<1>5. CASE ~OpensWave(available, more, opening) /\ extends
  BY <1>1, <1>5 DEF WaveCoversWaiters
<1>6. CASE ~OpensWave(available, more, opening) /\ ~extends
  <2>1. UNCHANGED waveVars
    BY <1>1, <1>6 DEF RecordInventoryRelease
  <2>2. CASE window = "CLOSED" /\ new = "OPEN"
    BY <1>2, <1>6, <2>2 DEF WaveCoversWaiters, Active
  <2>3. CASE ~(window = "CLOSED" /\ new = "OPEN")
    <3>1. ASSUME EffectiveAvailability' > 0 PROVE EffectiveAvailability > 0
      <4>1. new = "OPEN" /\ ~pause /\ available = Unsold + more /\ available > 0
        BY <1>3, <3>1 DEF Sellable
      <4>2. window = "OPEN"
        BY <1>1, <2>3, <4>1 DEF TypeOK, Windows
      <4>3. ~opening /\ (more > 0 => ~(available <= more))
        BY <1>6, <4>1 DEF OpensWave
      <4>4. Unsold > 0
        BY <4>1, <4>3, UnsoldIs, BoundsAssumption
      <4>5. EffectiveAvailability = Unsold
        BY <4>1, <4>2, <4>3, UnsoldIs DEF EffectiveAvailability, AvailabilityWith, Sellable
      <4> QED
        BY <4>4, <4>5
    <3> QED
      BY <1>2, <2>1, <3>1, CoverageKept
  <2> QED
    BY <2>2, <2>3
<1> QED
  BY <1>4, <1>5, <1>6

LEMMA StepCovers == ASSUME TypeOK, TypeOK', WaveCoversWaiters, [Next]_vars PROVE WaveCoversWaiters'
<1>1. ASSUME NEW u \in Users, JoinWaitlist(u) \/ CoolDown(u) PROVE WaveCoversWaiters'
  BY <1>1, MembersCover
<1>2. ASSUME NEW u \in Buyers,
             \/ LeaveWaitlist(u) \/ SwitchAlerts(u)
             \/ Reserve(u) \/ Lapse(u) \/ VoidTickets(u) \/ Release(u) \/ Fulfill(u)
      PROVE  WaveCoversWaiters'
  BY <1>2, UsersAssumption, MembersCover, OrdersCover
<1>3. ASSUME CloseTierWaitlist \/ CancelEvent PROVE WaveCoversWaiters'
  <2>1. \A u \in Users : entry'[u] # "WAITING"
    BY <1>3 DEF CloseTierWaitlist, CancelEvent, Settle, Active
  <2> QED
    BY <2>1 DEF WaveCoversWaiters
<1>4. ASSUME TimePasses PROVE WaveCoversWaiters'
  BY <1>4 DEF TimePasses, WaveCoversWaiters, EffectiveAvailability, AvailabilityWith, Sellable
<1>5. UNCHANGED vars => WaveCoversWaiters'
  BY DEF vars, saleVars, stockVars, memberVars, waveVars, WaveCoversWaiters, EffectiveAvailability,
         AvailabilityWith, Unsold, Sellable
<1> QED
  BY <1>1, <1>2, <1>3, <1>4, <1>5, OthersCover, OrganizerCovers, DispatchCovers DEF Next

\* Nobody is left waiting beside units on sale: whatever order purchases, lapsed
\* reservations, refunds, joins and the batches of a wave's job come in, the wave
\* that stands was opened after every waiting member joined, and has reached him
\* or is still working.  Only an extension of ended sales leaves members behind.
THEOREM WavesCoverWaiters == Spec => []WaveCoversWaiters
<1>1. Init => TypeOK /\ WaveCoversWaiters
  BY InitTypes DEF Init, WaveCoversWaiters
<1>2. TypeOK /\ WaveCoversWaiters /\ [Next]_vars => (TypeOK /\ WaveCoversWaiters)'
  BY StepTypes, StepCovers
<1> QED
  BY <1>1, <1>2, PTL DEF Spec
=============================================================================
