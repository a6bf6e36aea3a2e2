--------------------------- MODULE SessionsProofs ---------------------------
(***************************************************************************)
(* Safety of Sessions, for any accounts, session rows and links.  Whatever *)
(* a step is, it does one of three things to the session rows (RowSteps);  *)
(* the invariants about them are proved for those three.                   *)
(***************************************************************************)
EXTENDS Sessions, FiniteSetTheorems, TLAPS

\* Every used row belongs to an account, and to a family its account opened.
RowsOwned ==
  \A s \in Sessions :
    /\ s \in live => owner[s] # NoUser
    /\ owner[s] # NoUser => owner[family[s]] = owner[s]

\* A link that can be used was asked for under the password its account still has.
LinksCurrent ==
  \A l \in usable : linkOwner[l] \in Users /\ linkFor[l] = version[linkOwner[l]]

SessionsInv ==
  TypeOK /\ RowsOwned /\ LinksCurrent /\ OneLiveToken /\ InactiveSignedOut /\ AdminRemains

Rotation(s, r) ==
  Rotatable(s) /\ OpenSession(r, owner[s], family[s], Spent(s), AbsoluteExpiry(s))

LEMMA RowSteps ==
  ASSUME TypeOK, LinksCurrent, [Next]_vars
  PROVE  \/ \E u \in Users, s \in Sessions : SignIn(u, s) /\ status'[u] = "ACTIVE"
         \/ \E s, r \in Sessions : Rotation(s, r)
         \/ \E rows \in SUBSET Sessions : Revoke(rows)
<1> DEFINE Revokes == \E rows \in SUBSET Sessions : Revoke(rows)
<1>1. ASSUME UNCHANGED sessionVars PROVE Revokes
  <2>1. Revoke({})
    BY <1>1 DEF Revoke, sessionVars
  <2> QED
    BY <2>1
<1>2. ASSUME NEW u \in Users, ReplacePassword(u) PROVE Revokes
  BY <1>2 DEF ReplacePassword, SessionsOf
<1>3. ASSUME NEW u \in Users, NEW s \in Sessions,
             Register(u, s) \/ RegisterWithGoogle(u, s) \/ Login(u, s) \/ LoginWithGoogle(u, s)
      PROVE  SignIn(u, s) /\ status'[u] = "ACTIVE"
  BY <1>3 DEF TypeOK, Register, RegisterWithGoogle, Login, LoginWithGoogle, MaySignIn, accountVars
<1>4. ASSUME NEW s \in Sessions, NEW r \in Sessions, Rotate(s, r) PROVE Rotation(s, r)
  BY <1>4 DEF Rotate, Rotation
<1>5. ASSUME NEW s \in Sessions, CloseFamily(s) PROVE Revokes
  BY <1>5 DEF CloseFamily, FamilyOf
<1>6. ASSUME NEW u \in Users, ChangePassword(u) PROVE Revokes
  BY <1>2, <1>6 DEF ChangePassword
<1>7. ASSUME NEW l \in Links, ResetPassword(l) PROVE Revokes
  BY <1>2, <1>7 DEF ResetPassword, LinksCurrent
<1>8. ASSUME NEW a \in Admins, NEW u \in Users, NEW new, Deactivate(a, u, new) PROVE Revokes
  BY <1>8 DEF Deactivate, SessionsOf
<1>9. ASSUME NEW u \in Users,
             VerifyPassword(u) \/ GiveUp(u) \/ LinkGoogle(u) \/ Reactivate(u)
      PROVE  UNCHANGED sessionVars
  BY <1>9 DEF VerifyPassword, GiveUp, LinkGoogle, Reactivate
<1>10. ASSUME NEW l \in Links, LinkExpires(l) \/ \E u \in Users : RequestPasswordReset(u, l)
       PROVE  UNCHANGED sessionVars
  BY <1>10 DEF LinkExpires, RequestPasswordReset
<1>11. Tick \/ UNCHANGED vars => UNCHANGED sessionVars
  BY DEF Tick, vars
<1> QED
  BY <1>1, <1>3, <1>4, <1>5, <1>6, <1>7, <1>8, <1>9, <1>10, <1>11 DEF Next

-----------------------------------------------------------------------------
(* Types.                                                                  *)

RowTypes ==
  /\ owner \in [Sessions -> Users \cup {NoUser}]
  /\ family \in [Sessions -> Sessions]
  /\ expires \in [Sessions -> 0 .. MaxTime + Lifetime]
  /\ live \subseteq Sessions

LEMMA StepRowTypes == ASSUME TypeOK, LinksCurrent, [Next]_vars PROVE RowTypes'
<1> USE BoundsAssumption DEF TypeOK, RowTypes
<1>1. ASSUME NEW u \in Users, NEW s \in Sessions, SignIn(u, s) PROVE RowTypes'
  BY <1>1 DEF SignIn, OpenSession
<1>2. ASSUME NEW s \in Sessions, NEW r \in Sessions, Rotation(s, r) PROVE RowTypes'
  <2>1. AbsoluteExpiry(s) \in 0 .. MaxTime + Lifetime
    BY DEF AbsoluteExpiry
  <2> QED
    BY <1>2, <2>1 DEF Rotation, OpenSession
<1>3. ASSUME NEW rows \in SUBSET Sessions, Revoke(rows) PROVE RowTypes'
  BY <1>3 DEF Revoke
<1> QED
  BY <1>1, <1>2, <1>3, RowSteps

LEMMA StepTypeOK == ASSUME TypeOK, LinksCurrent, [Next]_vars PROVE TypeOK'
<1> DEFINE Rest ==
      /\ status \in [Users -> AccountStatus]
      /\ keyed \subseteq Users
      /\ version \in [Users -> 0 .. MaxChanges]
      /\ identity \in Users \cup {NoUser}
      /\ linkOwner \in [Links -> Users \cup {NoUser}]
      /\ linkFor \in [Links -> 0 .. MaxChanges]
      /\ usable \subseteq Links
      /\ proof \in [Users -> -1 .. MaxChanges]
      /\ now \in 0 .. MaxTime
<1> USE BoundsAssumption DEF TypeOK, AccountStatus, accountVars, sessionVars, linkVars
<1>1. Tick => Rest'
  BY DEF Tick
<1>2. ASSUME NEW u \in Users, VerifyPassword(u) \/ GiveUp(u) PROVE Rest'
  BY <1>2 DEF VerifyPassword, GiveUp
<1>3. ASSUME NEW u \in Users, ReplacePassword(u), UNCHANGED proof PROVE Rest'
  <2>1. version[u] + 1 \in 0 .. MaxChanges
    BY <1>3 DEF ReplacePassword
  <2> QED
    BY <1>3, <2>1 DEF ReplacePassword
<1>4. ASSUME NEW u \in Users, ChangePassword(u) PROVE Rest'
  BY <1>3, <1>4 DEF ChangePassword
<1>5. ASSUME NEW l \in Links, ResetPassword(l) PROVE Rest'
  BY <1>3, <1>5 DEF ResetPassword, LinksCurrent
<1>6. ASSUME NEW u \in Users, LinkGoogle(u) \/ Reactivate(u) PROVE Rest'
  BY <1>6 DEF LinkGoogle, Reactivate
<1>7. ASSUME NEW u \in Users, NEW s \in Sessions, Register(u, s) \/ RegisterWithGoogle(u, s)
      PROVE  Rest'
  BY <1>7 DEF Register, RegisterWithGoogle
<1>8. ASSUME NEW u \in Users, NEW s \in Sessions, Login(u, s) \/ LoginWithGoogle(u, s)
      PROVE  Rest'
  BY <1>8 DEF Login, LoginWithGoogle
<1>9. ASSUME NEW u \in Users, NEW l \in Links, RequestPasswordReset(u, l) PROVE Rest'
  BY <1>9 DEF RequestPasswordReset
<1>10. ASSUME NEW l \in Links, LinkExpires(l) PROVE Rest'
  BY <1>10 DEF LinkExpires
<1>11. ASSUME NEW a \in Admins, NEW u \in Users, NEW new \in {"SUSPENDED", "DELETED"},
              Deactivate(a, u, new)
       PROVE  Rest'
  BY <1>11 DEF Deactivate
<1>12. ASSUME NEW s \in Sessions, CloseFamily(s) \/ \E r \in Sessions : Rotate(s, r) PROVE Rest'
  BY <1>12 DEF CloseFamily, Rotate
<1>13. UNCHANGED vars => Rest'
  BY DEF vars
<1>14. Rest'
  BY <1>1, <1>2, <1>4, <1>5, <1>6, <1>7, <1>8, <1>9, <1>10, <1>11, <1>12, <1>13 DEF Next
<1> QED
  BY <1>14, StepRowTypes DEF RowTypes

-----------------------------------------------------------------------------
(* Session rows.                                                           *)

LEMMA StepRows ==
  ASSUME TypeOK, LinksCurrent, RowsOwned, OneLiveToken, [Next]_vars
  PROVE  RowsOwned' /\ OneLiveToken'
<1> USE NullAssumption DEF TypeOK, RowsOwned, OneLiveToken
<1>1. ASSUME NEW u \in Users, NEW s \in Sessions, SignIn(u, s)
      PROVE  RowsOwned' /\ OneLiveToken'
  BY <1>1 DEF SignIn, OpenSession
<1>2. ASSUME NEW s \in Sessions, NEW r \in Sessions, Rotation(s, r)
      PROVE  RowsOwned' /\ OneLiveToken'
  BY <1>2 DEF Rotation, Rotatable, OpenSession, Spent
<1>3. ASSUME NEW rows \in SUBSET Sessions, Revoke(rows) PROVE RowsOwned' /\ OneLiveToken'
  BY <1>3 DEF Revoke
<1> QED
  BY <1>1, <1>2, <1>3, RowSteps

LEMMA StepLinks == ASSUME TypeOK, LinksCurrent, [Next]_vars PROVE LinksCurrent'
<1> USE NullAssumption, BoundsAssumption DEF TypeOK, LinksCurrent, accountVars, linkVars, LinksOf
<1>1. UNCHANGED <<version, linkVars>> => LinksCurrent'
  OBVIOUS
<1>2. ASSUME NEW u \in Users, ReplacePassword(u) PROVE LinksCurrent'
  BY <1>2 DEF ReplacePassword
<1>3. ASSUME NEW u \in Users, NEW l \in Links, RequestPasswordReset(u, l) PROVE LinksCurrent'
  BY <1>3 DEF RequestPasswordReset
<1>4. ASSUME NEW l \in Links, LinkExpires(l) PROVE LinksCurrent'
  BY <1>4 DEF LinkExpires
<1>5. ASSUME NEW u \in Users, ChangePassword(u) PROVE LinksCurrent'
  BY <1>2, <1>5 DEF ChangePassword
<1>6. ASSUME NEW l \in Links, ResetPassword(l) PROVE LinksCurrent'
  BY <1>2, <1>6 DEF ResetPassword
<1>7. ASSUME NEW u \in Users, VerifyPassword(u) \/ GiveUp(u) \/ LinkGoogle(u) \/ Reactivate(u)
      PROVE  UNCHANGED <<version, linkVars>>
  BY <1>7 DEF VerifyPassword, GiveUp, LinkGoogle, Reactivate
<1>8. ASSUME NEW u \in Users, NEW s \in Sessions,
             Register(u, s) \/ RegisterWithGoogle(u, s) \/ Login(u, s) \/ LoginWithGoogle(u, s)
      PROVE  UNCHANGED <<version, linkVars>>
  BY <1>8 DEF Register, RegisterWithGoogle, Login, LoginWithGoogle
<1>9. ASSUME NEW a \in Admins, NEW u \in Users, NEW new, Deactivate(a, u, new)
      PROVE  UNCHANGED <<version, linkVars>>
  BY <1>9 DEF Deactivate
<1>10. ASSUME NEW s \in Sessions, CloseFamily(s) \/ \E r \in Sessions : Rotate(s, r)
       PROVE  UNCHANGED <<version, linkVars>>
  BY <1>10 DEF CloseFamily, Rotate
<1>11. Tick \/ UNCHANGED vars => UNCHANGED <<version, linkVars>>
  BY DEF Tick, vars
<1> QED
  BY <1>1, <1>3, <1>4, <1>5, <1>6, <1>7, <1>8, <1>9, <1>10, <1>11 DEF Next

-----------------------------------------------------------------------------
(* Accounts.                                                               *)

\* An account stops being active only together with its sessions.
LEMMA StatusSteps ==
  ASSUME TypeOK, [Next]_vars, NEW u \in Users, status[u] = "ACTIVE", status'[u] # "ACTIVE"
  PROVE  Removable(u) /\ Revoke(SessionsOf(u)) /\ \A v \in Users \ {u} : status'[v] = status[v]
<1> USE DEF TypeOK, accountVars
<1>1. ASSUME NEW a \in Admins, NEW v \in Users, NEW new, Deactivate(a, v, new)
      PROVE  Removable(u) /\ Revoke(SessionsOf(u)) /\ \A w \in Users \ {u} : status'[w] = status[w]
  BY <1>1 DEF Deactivate
<1>2. ASSUME NEW v \in Users, Reactivate(v) \/ VerifyPassword(v) \/ GiveUp(v) \/ LinkGoogle(v)
      PROVE  FALSE
  BY <1>2 DEF Reactivate, VerifyPassword, GiveUp, LinkGoogle
<1>3. ASSUME NEW v \in Users, NEW s \in Sessions,
             Register(v, s) \/ RegisterWithGoogle(v, s) \/ Login(v, s) \/ LoginWithGoogle(v, s)
      PROVE  FALSE
  BY <1>3 DEF Register, RegisterWithGoogle, Login, LoginWithGoogle
<1>4. ASSUME NEW v \in Users, ChangePassword(v) PROVE FALSE
  BY <1>4 DEF ChangePassword, ReplacePassword
<1>5. ASSUME NEW l \in Links,
             LinkExpires(l) \/ ResetPassword(l) \/ \E v \in Users : RequestPasswordReset(v, l)
      PROVE  FALSE
  BY <1>5 DEF LinkExpires, ResetPassword, ReplacePassword, RequestPasswordReset
<1>6. ASSUME NEW s \in Sessions, CloseFamily(s) \/ \E r \in Sessions : Rotate(s, r) PROVE FALSE
  BY <1>6 DEF CloseFamily, Rotate
<1>7. ~ (Tick \/ UNCHANGED vars)
  BY DEF Tick, vars
<1> QED
  BY <1>1, <1>2, <1>3, <1>4, <1>5, <1>6, <1>7 DEF Next

LEMMA StepAdmins ==
  ASSUME TypeOK, AdminRemains, [Next]_vars PROVE AdminRemains'
<1> USE AdminAssumption DEF TypeOK, AdminRemains, ActiveAdmins
<1>1. CASE \A a \in Admins : status[a] = "ACTIVE" => status'[a] = "ACTIVE"
  BY <1>1
<1>2. ASSUME NEW a \in Admins, status[a] = "ACTIVE", status'[a] # "ACTIVE" PROVE AdminRemains'
  <2>1. Removable(a) /\ \A v \in Users \ {a} : status'[v] = status[v]
    BY <1>2, StatusSteps
  <2>2. Cardinality(ActiveAdmins) > 1
    BY <1>2, <2>1 DEF Removable
  <2>3. ActiveAdmins # {a}
    <3>1. Cardinality({a}) = 1
      BY FS_Singleton
    <3> QED
      BY <2>2, <3>1
  <2> QED
    BY <1>2, <2>1, <2>3
<1> QED
  BY <1>1, <1>2

LEMMA StepSignedOut ==
  ASSUME TypeOK, LinksCurrent, RowsOwned, InactiveSignedOut, [Next]_vars
  PROVE  InactiveSignedOut'
<1> SUFFICES ASSUME NEW s \in live' PROVE status'[owner'[s]] = "ACTIVE"
  BY DEF InactiveSignedOut
<1> DEFINE u == owner'[s]
<1> USE DEF TypeOK, RowsOwned
<1>1. CASE s \in live
  <2>1. u = owner[s]
    BY <1>1, RowSteps DEF SignIn, Rotation, OpenSession, Revoke
  <2>2. u \in Users /\ status[u] = "ACTIVE"
    BY <1>1, <2>1 DEF InactiveSignedOut
  <2>3. ~ Revoke(SessionsOf(u))
    BY <1>1, <2>1 DEF Revoke, SessionsOf
  <2> QED
    BY <2>2, <2>3, StatusSteps
<1>2. CASE s \notin live
  <2>1. ASSUME NEW v \in Users, NEW r \in Sessions, SignIn(v, r), status'[v] = "ACTIVE"
        PROVE  status'[u] = "ACTIVE"
    BY <1>2, <2>1 DEF SignIn, OpenSession
  <2>2. ASSUME NEW x \in Sessions, NEW r \in Sessions, Rotation(x, r)
        PROVE  status'[u] = "ACTIVE"
    <3>1. u = owner[x] /\ u \in Users /\ status[u] = "ACTIVE"
      BY <1>2, <2>2 DEF Rotation, Rotatable, OpenSession, Spent
    <3>2. ~ Revoke(SessionsOf(u))
      BY <1>2 DEF Revoke
    <3> QED
      BY <3>1, <3>2, StatusSteps
  <2>3. ASSUME NEW rows \in SUBSET Sessions, Revoke(rows) PROVE FALSE
    BY <1>2, <2>3 DEF Revoke
  <2> QED
    BY <2>1, <2>2, <2>3, RowSteps
<1> QED
  BY <1>1, <1>2

-----------------------------------------------------------------------------
(* The theorems.                                                           *)

LEMMA InitInv == Init => SessionsInv
<1> SUFFICES ASSUME Init PROVE SessionsInv
  OBVIOUS
<1> USE AdminAssumption, BoundsAssumption, NullAssumption
<1>1. TypeOK
  BY DEF Init, TypeOK, AccountStatus
<1>2. RowsOwned /\ LinksCurrent /\ OneLiveToken /\ InactiveSignedOut
  BY DEF Init, RowsOwned, LinksCurrent, OneLiveToken, InactiveSignedOut
<1>3. AdminRemains
  BY DEF Init, AdminRemains, ActiveAdmins
<1> QED
  BY <1>1, <1>2, <1>3 DEF SessionsInv

LEMMA StepInv == SessionsInv /\ [Next]_vars => SessionsInv'
<1> SUFFICES ASSUME SessionsInv, [Next]_vars PROVE SessionsInv'
  OBVIOUS
<1> QED
  BY StepTypeOK, StepRows, StepLinks, StepSignedOut, StepAdmins DEF SessionsInv

THEOREM SessionsInvariant == Spec => []SessionsInv
  BY InitInv, StepInv, PTL DEF Spec

\* Every reachable state is well typed.
THEOREM SessionTypes == Spec => []TypeOK
<1>1. SessionsInv => TypeOK
  BY DEF SessionsInv
<1> QED
  BY <1>1, SessionsInvariant, PTL

\* Of the tokens a family went through, at most one can be refreshed.
THEOREM TokensExclusive == Spec => []OneLiveToken
<1>1. SessionsInv => OneLiveToken
  BY DEF SessionsInv
<1> QED
  BY <1>1, SessionsInvariant, PTL

\* A suspended or deleted account has no live session, whenever a sign-in read it.
THEOREM InactiveHaveNoSession == Spec => []InactiveSignedOut
<1>1. SessionsInv => InactiveSignedOut
  BY DEF SessionsInv
<1> QED
  BY <1>1, SessionsInvariant, PTL

\* However many administrators suspend and delete each other, one stays active.
THEOREM AnAdminRemains == Spec => []AdminRemains
<1>1. SessionsInv => AdminRemains
  BY DEF SessionsInv
<1> QED
  BY <1>1, SessionsInvariant, PTL

LEMMA StepRevoked ==
  ASSUME SessionsInv, [Next]_vars, NEW s \in Sessions,
         owner[s] # NoUser, FamilyOf(s) \cap live = {}
  PROVE  (FamilyOf(s) \cap live)' = {}
<1> USE NullAssumption DEF SessionsInv, TypeOK, RowsOwned, FamilyOf
<1>1. ASSUME NEW u \in Users, NEW r \in Sessions, SignIn(u, r)
      PROVE  (FamilyOf(s) \cap live)' = {}
  BY <1>1 DEF SignIn, OpenSession
<1>2. ASSUME NEW x \in Sessions, NEW r \in Sessions, Rotation(x, r)
      PROVE  (FamilyOf(s) \cap live)' = {}
  BY <1>2 DEF Rotation, Rotatable, OpenSession, Spent
<1>3. ASSUME NEW rows \in SUBSET Sessions, Revoke(rows)
      PROVE  (FamilyOf(s) \cap live)' = {}
  BY <1>3 DEF Revoke
<1> QED
  BY <1>1, <1>2, <1>3, RowSteps

\* No token of a revoked family works again.
THEOREM RevocationIsFinal == Spec => RevokedFamilyStaysRevoked
<1> DEFINE Step ==
      \A s \in Sessions :
        owner[s] # NoUser /\ FamilyOf(s) \cap live = {} => (FamilyOf(s) \cap live)' = {}
<1>1. SessionsInv /\ [Next]_vars => [Step]_vars
  BY StepRevoked
<1>2. [][Step]_vars => RevokedFamilyStaysRevoked
  BY PTL DEF RevokedFamilyStaysRevoked
<1> QED
  BY <1>1, <1>2, SessionsInvariant, PTL DEF Spec

LEMMA StepPassword ==
  ASSUME SessionsInv, [Next]_vars, NEW u \in Users, version'[u] # version[u]
  PROVE  \/ proof[u] = version[u]
         \/ \E l \in usable : linkOwner[l] = u /\ linkFor[l] = version[u]
<1> USE DEF SessionsInv, TypeOK, accountVars
<1>1. ASSUME NEW v \in Users, ChangePassword(v) PROVE v = u /\ proof[u] = version[u]
  BY <1>1 DEF ChangePassword, MayChange, ReplacePassword
<1>2. ASSUME NEW l \in Links, ResetPassword(l)
      PROVE  l \in usable /\ linkOwner[l] = u /\ linkFor[l] = version[u]
  BY <1>2 DEF ResetPassword, ReplacePassword, LinksCurrent
<1>3. ASSUME NEW v \in Users,
             \/ VerifyPassword(v) \/ GiveUp(v) \/ LinkGoogle(v) \/ Reactivate(v)
             \/ \E l \in Links : RequestPasswordReset(v, l)
             \/ \E a \in Admins, new \in {"SUSPENDED", "DELETED"} : Deactivate(a, v, new)
      PROVE  FALSE
  BY <1>3 DEF VerifyPassword, GiveUp, LinkGoogle, Reactivate, RequestPasswordReset, Deactivate
<1>4. ASSUME NEW v \in Users, NEW s \in Sessions,
             Register(v, s) \/ RegisterWithGoogle(v, s) \/ Login(v, s) \/ LoginWithGoogle(v, s)
      PROVE  FALSE
  BY <1>4 DEF Register, RegisterWithGoogle, Login, LoginWithGoogle
<1>5. ASSUME NEW s \in Sessions, CloseFamily(s) \/ \E r \in Sessions : Rotate(s, r) PROVE FALSE
  BY <1>5 DEF CloseFamily, Rotate
<1>6. ~ (Tick \/ UNCHANGED vars) /\ ~ \E l \in Links : LinkExpires(l)
  BY DEF Tick, vars, LinkExpires
<1> QED
  BY <1>1, <1>2, <1>3, <1>4, <1>5, <1>6 DEF Next

\* Each password is replaced by somebody who proved it or holds its link.
THEOREM PasswordsProved == Spec => PasswordProved
<1> DEFINE Step ==
      \A u \in Users :
        version'[u] # version[u] =>
          \/ proof[u] = version[u]
          \/ \E l \in usable : linkOwner[l] = u /\ linkFor[l] = version[u]
<1>1. SessionsInv /\ [Next]_vars => [Step]_vars
  BY StepPassword
<1>2. [][Step]_vars => PasswordProved
  BY PTL DEF PasswordProved
<1> QED
  BY <1>1, <1>2, SessionsInvariant, PTL DEF Spec

-----------------------------------------------------------------------------
(* The refinement of abstract grants.                                      *)

Entitled == {u \in Users : status[u] = "ACTIVE"}
Issued == {s \in Sessions : owner[s] # NoUser}
Holder == [f \in Sessions |-> IF family[f] = f THEN owner[f] ELSE NoUser]
Token == [f \in Sessions |-> TokensOf(f)]
grantVars == <<Entitled, Issued, Holder, Token>>

\* A family is named by its first row; a row not used yet would be one of its own.
FamiliesNamed ==
  \A s \in Sessions : family[family[s]] = family[s] /\ (owner[s] = NoUser => family[s] = s)

LEMMA StepFamilies ==
  ASSUME SessionsInv, FamiliesNamed, [Next]_vars PROVE FamiliesNamed'
<1> USE NullAssumption DEF SessionsInv, TypeOK, RowsOwned, FamiliesNamed
<1>1. ASSUME NEW u \in Users, NEW s \in Sessions, SignIn(u, s) PROVE FamiliesNamed'
  BY <1>1 DEF SignIn, OpenSession
<1>2. ASSUME NEW s \in Sessions, NEW r \in Sessions, Rotation(s, r) PROVE FamiliesNamed'
  <2>1. owner[family[s]] # NoUser /\ owner[r] = NoUser /\ family' = [family EXCEPT ![r] = family[s]]
        /\ owner' = [owner EXCEPT ![r] = owner[s]] /\ owner[s] # NoUser
    BY <1>2 DEF Rotation, Rotatable, OpenSession
  <2>2. ASSUME NEW t \in Sessions PROVE family'[family'[t]] = family'[t]
    <3>1. \A q \in Sessions \ {r} : family[q] # r
      BY <2>1
    <3> QED
      BY <2>1, <3>1
  <2> QED
    BY <2>1, <2>2
<1>3. ASSUME NEW rows \in SUBSET Sessions, Revoke(rows) PROVE FamiliesNamed'
  BY <1>3 DEF Revoke
<1> QED
  BY <1>1, <1>2, <1>3, RowSteps

GrantInv == SessionsInv /\ FamiliesNamed

LEMMA GrantInvariant == Spec => []GrantInv
<1>1. Init => FamiliesNamed
  BY DEF Init, FamiliesNamed
<1>2. SessionsInv /\ FamiliesNamed /\ [Next]_vars => FamiliesNamed'
  BY StepFamilies
<1> QED
  BY <1>1, <1>2, SessionsInvariant, PTL DEF Spec, GrantInv

LEMMA SignInOpens ==
  ASSUME GrantInv, NEW u \in Users, NEW s \in Sessions, SignIn(u, s)
  PROVE  /\ s \notin Issued /\ Issued' = Issued \cup {s}
         /\ Holder' = [Holder EXCEPT ![s] = u]
         /\ Token' = [Token EXCEPT ![s] = {s}]
<1> USE NullAssumption DEF GrantInv, SessionsInv, TypeOK
<1>1. /\ owner[s] = NoUser
      /\ owner' = [owner EXCEPT ![s] = u] /\ family' = [family EXCEPT ![s] = s] /\ live' = live \cup {s}
  BY DEF SignIn, OpenSession
<1>2. s \notin Issued /\ Issued' = Issued \cup {s}
  BY <1>1 DEF Issued
<1>3. Holder' = [Holder EXCEPT ![s] = u]
  BY <1>1 DEF Holder
<1>4. s \notin live /\ \A t \in live : family[t] # s
  BY <1>1 DEF RowsOwned
<1>5. TokensOf(s)' = {s} /\ \A f \in Sessions \ {s} : TokensOf(f)' = TokensOf(f)
  BY <1>1, <1>4 DEF TokensOf
<1>6. Token' = [Token EXCEPT ![s] = {s}]
  BY <1>5 DEF Token
<1> QED
  BY <1>2, <1>3, <1>6

LEMMA RotationReplaces ==
  ASSUME GrantInv, NEW s \in Sessions, NEW r \in Sessions, Rotation(s, r)
  PROVE  /\ family[s] \in Sessions /\ Token[family[s]] # {}
         /\ Holder[family[s]] \in Entitled
         /\ r \notin Issued /\ Issued' = Issued \cup {r}
         /\ Holder' = Holder
         /\ Token' = [Token EXCEPT ![family[s]] = {r}]
<1> USE NullAssumption DEF GrantInv, SessionsInv, TypeOK
<1> DEFINE f == family[s]
<1>1. /\ s \in live /\ owner[s] # NoUser /\ owner[r] = NoUser /\ status[owner[s]] = "ACTIVE"
      /\ owner' = [owner EXCEPT ![r] = owner[s]] /\ family' = [family EXCEPT ![r] = family[s]]
      /\ live' = (live \ {s}) \cup {r}
  BY DEF Rotation, Rotatable, OpenSession, Spent
<1>2. f \in Sessions /\ owner[f] = owner[s] /\ family[f] = f /\ f # r /\ r # s
  BY <1>1 DEF RowsOwned, FamiliesNamed
<1>3. Token[f] # {} /\ Holder[f] \in Entitled
  BY <1>1, <1>2 DEF Token, TokensOf, Holder, Entitled
<1>4. r \notin Issued /\ Issued' = Issued \cup {r}
  BY <1>1 DEF Issued
<1>5. \A g \in Sessions : (IF family'[g] = g THEN owner'[g] ELSE NoUser) = (IF family[g] = g THEN owner[g] ELSE NoUser)
  BY <1>1, <1>2 DEF FamiliesNamed
<1>6. Holder' = Holder
  BY <1>5 DEF Holder
<1>7. \A g \in Sessions : {t \in live' : family'[t] = g} = IF g = f THEN {r} ELSE {t \in live : family[t] = g}
  <2>1. \A t \in live : family[t] = f => t = s
    BY <1>1 DEF OneLiveToken
  <2>2. r \notin live
    BY <1>1 DEF RowsOwned
  <2> QED
    BY <1>1, <1>2, <2>1, <2>2
<1>8. Token' = [Token EXCEPT ![family[s]] = {r}]
  BY <1>7 DEF Token, TokensOf
<1> QED
  BY <1>2, <1>3, <1>4, <1>6, <1>8

LEMMA RevokeCloses ==
  ASSUME GrantInv, NEW rows \in SUBSET Sessions, Revoke(rows)
  PROVE  /\ Issued' = Issued /\ Holder' = Holder
         /\ Token' = [f \in Sessions |-> TokensOf(f) \ rows]
<1>1. \A f \in Sessions : TokensOf(f)' = TokensOf(f) \ rows
  BY DEF Revoke, TokensOf
<1> QED
  BY <1>1 DEF Revoke, Issued, Holder, Token

LEMMA AccountCloses ==
  ASSUME GrantInv, NEW u \in Users, Revoke(SessionsOf(u)), Entitled' \in {Entitled, Entitled \ {u}}
  PROVE  Granted!CloseAll(u)
<1> USE NullAssumption DEF GrantInv, SessionsInv, TypeOK
<1>1. ASSUME NEW f \in Sessions
      PROVE  TokensOf(f) \ SessionsOf(u) = IF Holder[f] = u THEN {} ELSE TokensOf(f)
  <2>1. \A s \in TokensOf(f) : s \in Sessions /\ owner[s] # NoUser /\ family[s] = f /\ owner[f] = owner[s] /\ family[f] = f
    BY DEF TokensOf, RowsOwned, FamiliesNamed
  <2>2. \A s \in TokensOf(f) : Holder[f] = owner[s]
    BY <2>1 DEF Holder
  <2> QED
    BY <2>1, <2>2 DEF SessionsOf
<1>2. Token' = [f \in Sessions |-> IF Holder[f] = u THEN {} ELSE Token[f]]
  <2>1. Token' = [f \in Sessions |-> TokensOf(f) \ SessionsOf(u)]
    BY RevokeCloses DEF SessionsOf
  <2> QED
    BY <1>1, <2>1 DEF Token
<1> QED
  BY <1>2, RevokeCloses DEF SessionsOf, Granted!CloseAll, Entitled, Issued, Holder, Token

LEMMA FamilyCloses ==
  ASSUME GrantInv, NEW s \in Sessions, Revoke(FamilyOf(s)), UNCHANGED status
  PROVE  Granted!Close(family[s])
<1> DEFINE f == family[s]
<1>1. ASSUME NEW g \in Sessions
      PROVE  TokensOf(g) \ FamilyOf(s) = IF g = f THEN {} ELSE TokensOf(g)
  BY <1>1 DEF TokensOf, FamilyOf, GrantInv, SessionsInv, TypeOK, RowsOwned
<1>2. Token' = [Token EXCEPT ![f] = {}]
  <2>1. Token' = [g \in Sessions |-> TokensOf(g) \ FamilyOf(s)]
    BY RevokeCloses DEF FamilyOf
  <2> QED
    BY <1>1, <2>1 DEF Token
<1> QED
  BY <1>2, RevokeCloses DEF FamilyOf, Granted!Close, Granted!Carry, Entitled, Issued, Holder, Token

LEMMA StepGrants ==
  ASSUME GrantInv, [Next]_vars
  PROVE  Granted!Next \/ UNCHANGED grantVars
<1> USE DEF GrantInv, SessionsInv, TypeOK, accountVars
<1>1. ASSUME NEW u \in Users, NEW s \in Sessions, SignIn(u, s),
             Entitled' \in {Entitled, Entitled \cup {u}}, u \in Entitled'
      PROVE  Granted!Next
  <2>1. Granted!Open(u, s)
    BY <1>1, SignInOpens DEF Granted!Open, Granted!Issue, Granted!Carry, Entitled, Issued, Holder, Token
  <2> QED
    BY <2>1 DEF Granted!Next
<1>2. ASSUME NEW u \in Users, NEW s \in Sessions, Register(u, s) \/ RegisterWithGoogle(u, s)
      PROVE  Granted!Next
  <2>1. SignIn(u, s) /\ status' = [status EXCEPT ![u] = "ACTIVE"]
    BY <1>2 DEF Register, RegisterWithGoogle
  <2> QED
    BY <1>1, <2>1 DEF Entitled
<1>3. ASSUME NEW u \in Users, NEW s \in Sessions, Login(u, s) \/ LoginWithGoogle(u, s)
      PROVE  Granted!Next
  <2>1. SignIn(u, s) /\ status' = status /\ status[u] = "ACTIVE"
    BY <1>3 DEF Login, LoginWithGoogle, MaySignIn
  <2> QED
    BY <1>1, <2>1 DEF Entitled
<1>4. ASSUME NEW s \in Sessions, NEW r \in Sessions, Rotate(s, r)
      PROVE  Granted!Next
  <2>1. Rotation(s, r) /\ UNCHANGED status
    BY <1>4 DEF Rotate, Rotation
  <2>2. PICK f \in Sessions : f = family[s]
    OBVIOUS
  <2>3. Granted!Replace(f, r)
    BY <2>1, <2>2, RotationReplaces
    DEF Granted!Replace, Granted!Issue, Granted!Carry, Entitled, Issued, Holder, Token
  <2> QED
    BY <2>3 DEF Granted!Next
<1>5. ASSUME NEW s \in Sessions, CloseFamily(s)
      PROVE  Granted!Next
  <2>1. PICK f \in Sessions : f = family[s]
    OBVIOUS
  <2>2. Granted!Close(f)
    BY <1>5, <2>1, FamilyCloses DEF CloseFamily, Granted!Close, Granted!Carry
  <2> QED
    BY <2>2 DEF Granted!Next
<1>6. ASSUME NEW u \in Users, Revoke(SessionsOf(u)), Entitled' \in {Entitled, Entitled \ {u}}
      PROVE  Granted!Next
  BY <1>6, AccountCloses DEF Granted!Next
<1>7. ASSUME NEW u \in Users, ChangePassword(u) \/ \E l \in Links : linkOwner[l] = u /\ ResetPassword(l)
      PROVE  Granted!Next
  <2>1. Revoke(SessionsOf(u)) /\ UNCHANGED status
    BY <1>7 DEF ChangePassword, ResetPassword, ReplacePassword
  <2> QED
    BY <1>6, <2>1 DEF Entitled
<1>8. ASSUME NEW l \in Links, ResetPassword(l)
      PROVE  Granted!Next
  BY <1>7, <1>8 DEF ResetPassword, LinksCurrent
<1>9. ASSUME NEW a \in Admins, NEW u \in Users, NEW new \in {"SUSPENDED", "DELETED"}, Deactivate(a, u, new)
      PROVE  Granted!Next
  <2>1. Revoke(SessionsOf(u)) /\ status' = [status EXCEPT ![u] = new] /\ new # "ACTIVE"
    BY <1>9 DEF Deactivate
  <2>2. Entitled' = Entitled \ {u}
    BY <2>1 DEF Entitled
  <2> QED
    BY <1>6, <2>1, <2>2
<1>10. ASSUME NEW u \in Users, Reactivate(u)
       PROVE  Granted!Next
  <2>1. Entitled' = Entitled \cup {u} /\ UNCHANGED sessionVars
    BY <1>10 DEF Reactivate, Entitled
  <2>2. Granted!Entitle(u)
    BY <2>1 DEF Granted!Entitle, Entitled, TokensOf, sessionVars
  <2> QED
    BY <2>2 DEF Granted!Next
<1>11. ASSUME UNCHANGED <<status, sessionVars>>
       PROVE  UNCHANGED grantVars
  BY <1>11 DEF grantVars, Entitled, Issued, Holder, Token, TokensOf, sessionVars
<1>12. ASSUME NEW u \in Users,
              VerifyPassword(u) \/ GiveUp(u) \/ LinkGoogle(u) \/ \E l \in Links : RequestPasswordReset(u, l)
       PROVE  UNCHANGED <<status, sessionVars>>
  BY <1>12 DEF VerifyPassword, GiveUp, LinkGoogle, RequestPasswordReset
<1>13. Tick \/ UNCHANGED vars \/ (\E l \in Links : LinkExpires(l)) => UNCHANGED <<status, sessionVars>>
  BY DEF Tick, vars, LinkExpires
<1> QED
  BY <1>2, <1>3, <1>4, <1>5, <1>7, <1>8, <1>9, <1>10, <1>11, <1>12, <1>13 DEF Next

\* However requests to sign in, refresh, sign out, change a password and suspend
\* interleave, the session rows read as grants that open once, pass from one token
\* to the next, and never come back when they are closed.
THEOREM SessionsImplementGrants == Spec => ImplementsGrants
<1>1. Init => Granted!Init
  BY DEF Init, Granted!Init, TokensOf
<1>2. GrantInv /\ [Next]_vars => [Granted!Next]_grantVars
  BY StepGrants
<1> QED
  BY <1>1, <1>2, GrantInvariant, PTL
  DEF Spec, ImplementsGrants, Granted!Spec, grantVars, Entitled, Issued, Holder, Token
=============================================================================
