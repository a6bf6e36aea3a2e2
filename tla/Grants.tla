------------------------------- MODULE Grants -------------------------------
(***************************************************************************)
(* What signing in promises, without passwords, links, clocks or requests: *)
(* a grant is opened once, for an account that is entitled then; it is     *)
(* carried by one token at a time, each used once; and when it is closed,  *)
(* or its account is no longer entitled, no token brings it back.          *)
(***************************************************************************)

CONSTANTS Accounts, Tokens, Nobody

VARIABLES
  entitled, \* accounts that may be signed in
  issued,   \* tokens that were ever handed out
  holder,   \* the account of each grant, which is named by its first token
  token     \* the token that carries each grant now, or none

Init ==
  /\ entitled \subseteq Accounts
  /\ issued = {}
  /\ holder = [g \in Tokens |-> Nobody]
  /\ token = [g \in Tokens |-> {}]

Issue(t) == t \notin issued /\ issued' = issued \cup {t}
Carry(g, tokens) == token' = [token EXCEPT ![g] = tokens]

\* An account signs in; its first grant may come with its registration.
Open(a, g) ==
  /\ Issue(g) /\ Carry(g, {g})
  /\ holder' = [holder EXCEPT ![g] = a]
  /\ entitled' \in {entitled, entitled \cup {a}} /\ a \in entitled'

Replace(g, t) ==
  /\ token[g] # {} /\ holder[g] \in entitled
  /\ Issue(t) /\ Carry(g, {t})
  /\ UNCHANGED <<entitled, holder>>

Close(g) == Carry(g, {}) /\ UNCHANGED <<entitled, issued, holder>>

\* All grants of an account end, because it is disentitled or for another reason.
CloseAll(a) ==
  /\ token' = [g \in Tokens |-> IF holder[g] = a THEN {} ELSE token[g]]
  /\ entitled' \in {entitled, entitled \ {a}}
  /\ UNCHANGED <<issued, holder>>

Entitle(a) == entitled' = entitled \cup {a} /\ UNCHANGED <<issued, holder, token>>

Next ==
  \/ \E a \in Accounts : CloseAll(a) \/ Entitle(a) \/ \E g \in Tokens : Open(a, g)
  \/ \E g \in Tokens : Close(g) \/ \E t \in Tokens : Replace(g, t)

Spec == Init /\ [][Next]_<<entitled, issued, holder, token>>
=============================================================================
