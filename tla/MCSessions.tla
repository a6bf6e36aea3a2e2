----------------------------- MODULE MCSessions -----------------------------
(* An instance of Sessions small enough for TLC. *)
EXTENDS Sessions, TLC

CONSTANTS a1, a2, u1, s1, s2, s3, l1, l2

\* Bound of the run: administrators act, but do not sign in or change passwords.
OthersSignIn ==
  /\ \A s \in Sessions : owner[s] \notin Admins
  /\ \A l \in Links : linkOwner[l] \notin Admins
  /\ \A a \in Admins : proof[a] = -1
  /\ identity \notin Admins

RowsAlike == Permutations(Sessions) \cup Permutations(Links) \cup Permutations(Admins)
=============================================================================
