---- MODULE RefreshLedger ----
(***************************************************************************)
(* What the token store promises about refresh tokens, without locks,      *)
(* buffers or files: a token is issued once, at a sign-in or in exchange   *)
(* for one that is good, which it replaces in the same step; a token that  *)
(* stops being good never is again.                                        *)
(***************************************************************************)
CONSTANT Grant

VARIABLES
  good,     \* the refresh tokens that may be exchanged
  parent    \* issued token -> the one it was exchanged for, or 0

vars == <<good, parent>>

Issued(p, t) == parent' = [q \in DOMAIN parent \cup {p} |-> IF q = p THEN t ELSE parent[q]]

Issue(p) ==
  /\ p \notin DOMAIN parent
  /\ Issued(p, 0)
  /\ good' = good \cup {p}

Exchange(t, p) ==
  /\ t \in good
  /\ p \notin DOMAIN parent
  /\ Issued(p, t)
  /\ good' = (good \ {t}) \cup {p}

\* Revoked, purged, swept, or lost to a failure.
Lose(S) == good' = good \ S /\ UNCHANGED parent

Init == good = DOMAIN parent /\ \E S \in SUBSET Grant : parent = [p \in S |-> 0]

Next == \/ \E p \in Grant : Issue(p) \/ \E t \in good : Exchange(t, p)
        \/ \E S \in SUBSET good : Lose(S)

Spec == Init /\ [][Next]_vars
====
