----------------------------- MODULE OnceLedger -----------------------------
(***************************************************************************)
(* What the idempotency records of app/services/security_resilience.py     *)
(* promise of the actions executed under them, whoever executes: an action *)
(* is identified by its key, opened once, performed at most once and only  *)
(* while open, and closed only after it was performed.                     *)
(***************************************************************************)
EXTENDS Naturals, Sequences

CONSTANT Keys

VARIABLES open, closed, performed

vars == <<open, closed, performed>>

Performed == {performed[n] : n \in DOMAIN performed}

Init ==
  /\ open = {}
  /\ closed = {}
  /\ performed = << >>

Open(k) ==
  /\ k \notin open \cup closed
  /\ open' = open \cup {k}
  /\ UNCHANGED <<closed, performed>>

Perform(k) ==
  /\ k \in open
  /\ k \notin Performed
  /\ performed' = Append(performed, k)
  /\ UNCHANGED <<open, closed>>

Close(k) ==
  /\ k \in open
  /\ k \in Performed
  /\ open' = open \ {k}
  /\ closed' = closed \cup {k}
  /\ UNCHANGED performed

Next == \E k \in Keys : Open(k) \/ Perform(k) \/ Close(k)

Spec == Init /\ [][Next]_vars
=============================================================================
