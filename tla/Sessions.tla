------------------------------ MODULE Sessions ------------------------------
(***************************************************************************)
(* Accounts, their passwords and their refresh sessions.  A sign-in opens  *)
(* a family of refresh tokens; each refresh replaces its token by another  *)
(* of the family.  Passwords are verified outside the transactions that    *)
(* rely on them, and administrators suspend and delete accounts meanwhile. *)
(***************************************************************************)
EXTENDS Integers, FiniteSets

CONSTANTS
  Users, Admins, \* administrators are seeded, and stay administrators
  Sessions,      \* rows of RefreshSession; a family is named by its first row
  Links,         \* rows of PasswordReset, one for each mailed link
  Lifetime,      \* of a refresh token
  MaxTime, MaxChanges, \* bounds: time, and passwords an account goes through
  NoUser

ASSUME AdminAssumption == Admins \subseteq Users /\ Admins # {} /\ IsFiniteSet(Admins)
ASSUME BoundsAssumption == Lifetime \in Nat \ {0} /\ MaxTime \in Nat /\ MaxChanges \in Nat
ASSUME NullAssumption == NoUser \notin Users

VARIABLES
  status,   \* status and deletedAt of each account
  keyed,    \* accounts with a passwordHash
  version,  \* tokenVersion; a new password comes with a new one
  identity, \* the account a Google identity is linked to
  owner, family, expires, \* columns of the session rows
  live,     \* rows with no revokedAt
  linkOwner, linkFor, \* the account of a reset link, and the version it was asked for
  usable,   \* reset links neither consumed nor expired
  proof,    \* the password that a request in flight has verified, -1 if none has
  now

accountVars == <<status, keyed, version, identity>>
sessionVars == <<owner, family, expires, live>>
linkVars == <<linkOwner, linkFor, usable>>
vars == <<accountVars, sessionVars, linkVars, proof, now>>

AccountStatus == {"ABSENT", "ACTIVE", "SUSPENDED", "DELETED"}

TypeOK ==
  /\ status \in [Users -> AccountStatus]
  /\ keyed \subseteq Users
  /\ version \in [Users -> 0 .. MaxChanges]
  /\ identity \in Users \cup {NoUser}
  /\ owner \in [Sessions -> Users \cup {NoUser}]
  /\ family \in [Sessions -> Sessions]
  /\ expires \in [Sessions -> 0 .. MaxTime + Lifetime]
  /\ live \subseteq Sessions
  /\ linkOwner \in [Links -> Users \cup {NoUser}]
  /\ linkFor \in [Links -> 0 .. MaxChanges]
  /\ usable \subseteq Links
  /\ proof \in [Users -> -1 .. MaxChanges]
  /\ now \in 0 .. MaxTime

Init ==
  /\ status = [u \in Users |-> IF u \in Admins THEN "ACTIVE" ELSE "ABSENT"]
  /\ keyed = Admins
  /\ version = [u \in Users |-> 0]
  /\ identity = NoUser
  /\ owner = [s \in Sessions |-> NoUser]
  /\ family = [s \in Sessions |-> s]
  /\ expires = [s \in Sessions |-> 0]
  /\ live = {}
  /\ linkOwner = [l \in Links |-> NoUser]
  /\ linkFor = [l \in Links |-> 0]
  /\ usable = {}
  /\ proof = [u \in Users |-> -1]
  /\ now = 0

Registered(u) == status[u] # "ABSENT"
SessionsOf(u) == {s \in Sessions : owner[s] = u}
FamilyOf(s) == {t \in Sessions : owner[t] # NoUser /\ family[t] = family[s]}
LinksOf(u) == {l \in Links : linkOwner[l] = u}

Tick == now < MaxTime /\ now' = now + 1 /\ UNCHANGED <<accountVars, sessionVars, linkVars, proof>>

-----------------------------------------------------------------------------
(* auth.service, google-auth.service.                                      *)

\* A row of the family of f, in place of the rows in revoked.
OpenSession(s, u, f, revoked, end) ==
  /\ owner[s] = NoUser
  /\ owner' = [owner EXCEPT ![s] = u]
  /\ family' = [family EXCEPT ![s] = f]
  /\ expires' = [expires EXCEPT ![s] = end]
  /\ live' = (live \ revoked) \cup {s}

Revoke(rows) == live' = live \ rows /\ UNCHANGED <<owner, family, expires>>

\* createRefreshToken: a family of its own.
SignIn(u, s) == OpenSession(s, u, s, {}, now + Lifetime)

\* register, and loginWithGoogle for a Google identity without an account; the
\* unique columns refuse a second account.
Register(u, s) ==
  /\ ~Registered(u)
  /\ status' = [status EXCEPT ![u] = "ACTIVE"]
  /\ keyed' = keyed \cup {u}
  /\ SignIn(u, s)
  /\ UNCHANGED <<version, identity, linkVars, proof, now>>

RegisterWithGoogle(u, s) ==
  /\ ~Registered(u) /\ identity = NoUser
  /\ status' = [status EXCEPT ![u] = "ACTIVE"]
  /\ identity' = u
  /\ SignIn(u, s)
  /\ UNCHANGED <<keyed, version, linkVars, proof, now>>

\* login and changePassword read the account and verify the password that was
\* sent with them before their transaction starts.
VerifyPassword(u) ==
  /\ u \in keyed
  /\ proof' = [proof EXCEPT ![u] = version[u]]
  /\ UNCHANGED <<accountVars, sessionVars, linkVars, now>>

\* The request fails, in a transaction that changes nothing, or is lost.
GiveUp(u) ==
  /\ proof[u] # -1
  /\ proof' = [proof EXCEPT ![u] = -1]
  /\ UNCHANGED <<accountVars, sessionVars, linkVars, now>>

MaySignIn_Unchecked(u) == Registered(u)                   \* mutant: active when it was read
\* createSessionForUser reads the account again, its password it does not.
MaySignIn(u) == status[u] = "ACTIVE"

Login(u, s) ==
  /\ proof[u] # -1
  /\ MaySignIn(u)
  /\ SignIn(u, s)
  /\ proof' = [proof EXCEPT ![u] = -1]
  /\ UNCHANGED <<accountVars, linkVars, now>>

LoginWithGoogle(u, s) ==
  /\ identity = u
  /\ MaySignIn(u)
  /\ SignIn(u, s)
  /\ UNCHANGED <<accountVars, linkVars, proof, now>>

\* linkGoogleIdentity, in a request authenticated before.
LinkGoogle(u) ==
  /\ Registered(u) /\ identity = NoUser
  /\ identity' = u
  /\ UNCHANGED <<status, keyed, version, sessionVars, linkVars, proof, now>>

\* The end of the family's seven days, whatever the token's own row says.
AbsoluteExpiry_Renewed(s) == expires[s] + Lifetime        \* mutant
AbsoluteExpiry(s) ==
  LET first == family[s] IN IF expires[first] < expires[s] THEN expires[first] ELSE expires[s]

Rotatable_Reused(s) == owner[s] # NoUser /\ AbsoluteExpiry(s) > now  \* mutant: revokedAt is not looked at
Rotatable(s) ==
  /\ owner[s] # NoUser
  /\ s \in live
  /\ AbsoluteExpiry(s) > now
  /\ status[owner[s]] = "ACTIVE"

Spent_Kept(s) == {}                                       \* mutant: the old token stays
Spent(s) == {s}

\* refresh: the token of s is replaced by that of r; whether the answer reaches
\* the client or not, it may present s again.
Rotate(s, r) ==
  /\ Rotatable(s)
  /\ OpenSession(r, owner[s], family[s], Spent(s), AbsoluteExpiry(s))
  /\ UNCHANGED <<accountVars, linkVars, proof, now>>

\* refresh of a token that was replaced or revoked, whose family has come to its
\* end, or whose account is inactive, and logout: the family is revoked.
CloseFamily(s) ==
  /\ owner[s] # NoUser
  /\ Revoke(FamilyOf(s))
  /\ UNCHANGED <<accountVars, linkVars, proof, now>>

-----------------------------------------------------------------------------
(* password.service.                                                       *)

\* replacePassword: every session and every link of the account ends with it.
ReplacePassword(u) ==
  /\ version[u] < MaxChanges
  /\ version' = [version EXCEPT ![u] = @ + 1]
  /\ Revoke(SessionsOf(u))
  /\ usable' = usable \ LinksOf(u)
  /\ UNCHANGED <<status, keyed, identity, linkOwner, linkFor, now>>

MayChange_Unchecked(u) == proof[u] # -1                   \* mutant: the hash is not compared again
MayChange(u) == proof[u] = version[u]

\* changePassword; another request may still hold the same proof.
ChangePassword(u) ==
  /\ MayChange(u) /\ status[u] = "ACTIVE"
  /\ ReplacePassword(u)
  /\ UNCHANGED proof

\* requestPasswordReset, for an account that was eligible when it was read; at
\* most one link a minute and five an hour, else the request does nothing.
RequestPasswordReset(u, l) ==
  /\ u \in keyed /\ linkOwner[l] = NoUser
  /\ linkOwner' = [linkOwner EXCEPT ![l] = u]
  /\ linkFor' = [linkFor EXCEPT ![l] = version[u]]
  /\ usable' = (usable \ LinksOf(u)) \cup {l}
  /\ UNCHANGED <<accountVars, sessionVars, proof, now>>

\* Thirty minutes pass.
LinkExpires(l) ==
  /\ l \in usable
  /\ usable' = usable \ {l}
  /\ UNCHANGED <<accountVars, sessionVars, linkOwner, linkFor, proof, now>>

ResetPassword(l) ==
  /\ l \in usable
  /\ status[linkOwner[l]] = "ACTIVE"
  /\ ReplacePassword(linkOwner[l])
  /\ UNCHANGED proof

-----------------------------------------------------------------------------
(* users.service: the actor's request was authenticated before, and may be *)
(* carried out after the actor has been suspended.                         *)

ActiveAdmins == {a \in Admins : status[a] = "ACTIVE"}

Removable_Any(u) == TRUE                                  \* mutant
\* protectLastActiveAdmin.
Removable(u) == u \in ActiveAdmins => Cardinality(ActiveAdmins) > 1

\* changeUserStatus to SUSPENDED, and softDeleteUser.
Deactivate(actor, u, new) ==
  /\ Registered(u) /\ status[u] \notin {new, "DELETED"}
  /\ actor # u
  /\ Removable(u)
  /\ status' = [status EXCEPT ![u] = new]
  /\ Revoke(SessionsOf(u))
  /\ UNCHANGED <<keyed, version, identity, linkVars, proof, now>>

\* changeUserStatus to ACTIVE.
Reactivate(u) ==
  /\ status[u] = "SUSPENDED"
  /\ status' = [status EXCEPT ![u] = "ACTIVE"]
  /\ UNCHANGED <<keyed, version, identity, sessionVars, linkVars, proof, now>>

Next ==
  \/ Tick
  \/ \E u \in Users :
       \/ VerifyPassword(u) \/ GiveUp(u) \/ ChangePassword(u)
       \/ LinkGoogle(u) \/ Reactivate(u)
       \/ \E s \in Sessions :
            \/ Register(u, s) \/ RegisterWithGoogle(u, s)
            \/ Login(u, s) \/ LoginWithGoogle(u, s)
       \/ \E l \in Links : RequestPasswordReset(u, l)
       \/ \E actor \in Admins, new \in {"SUSPENDED", "DELETED"} : Deactivate(actor, u, new)
  \/ \E s \in Sessions : CloseFamily(s) \/ \E r \in Sessions : Rotate(s, r)
  \/ \E l \in Links : LinkExpires(l) \/ ResetPassword(l)

Spec == Init /\ [][Next]_vars

-----------------------------------------------------------------------------
(* Properties.                                                             *)

\* Of all the tokens a family went through at most one can be refreshed, however
\* the requests that presented them raced.
OneLiveToken ==
  \A s, t \in live : family[s] = family[t] => s = t

\* Once a family was revoked, by a sign-out, a reuse, a password change or a
\* suspension, no token of it works again: not after the account is reactivated,
\* and not for a client that lost the answer to its last refresh.
RevokedFamilyStaysRevoked ==
  [][\A s \in Sessions :
       owner[s] # NoUser /\ FamilyOf(s) \cap live = {} => (FamilyOf(s) \cap live)' = {}]_vars

\* An account that is suspended or deleted has no live session, although a
\* sign-in may have read it while it was active.
InactiveSignedOut ==
  \A s \in live : status[owner[s]] = "ACTIVE"

\* A password is replaced only by someone who has proved the one it replaces, or
\* holds a link requested under it: two changes, or a change and a reset, that
\* started from the same password do not overwrite each other.
PasswordProved ==
  [][\A u \in Users :
       version'[u] # version[u] =>
         \/ proof[u] = version[u]
         \/ \E l \in usable : linkOwner[l] = u /\ linkFor[l] = version[u]]_vars

\* An account's families as abstract grants.
TokensOf(f) == {s \in live : family[s] = f}

Granted == INSTANCE Grants WITH
  Accounts <- Users, Tokens <- Sessions, Nobody <- NoUser,
  entitled <- {u \in Users : status[u] = "ACTIVE"},
  issued <- {s \in Sessions : owner[s] # NoUser},
  holder <- [f \in Sessions |-> IF family[f] = f THEN owner[f] ELSE NoUser],
  token <- [f \in Sessions |-> TokensOf(f)]

\* Sign-ins, racing refreshes, sign-outs, password changes and suspensions together
\* implement abstract grants: a revoked family never comes back, not after the
\* account is reactivated and not for a client that lost its last answer.
ImplementsGrants == Granted!Spec

\* Administrators cannot remove each other until nobody is left, even with
\* requests authenticated before one of them was suspended.
AdminRemains == ActiveAdmins # {}
=============================================================================
