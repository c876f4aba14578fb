----------------------------- MODULE QuorumGate -----------------------------
(***************************************************************************)
(* What the approvals of app/services/approvals.py promise to a sensitive  *)
(* operation, whoever decides and in however many sessions: a request asks *)
(* for one thing and goes on asking for it; an approval is of another      *)
(* actor than the requester and is never taken back; nothing opens the     *)
(* gate of a request but the approval that finds a quorum on record; and   *)
(* only while it is open the requester passes, for what was asked.         *)
(***************************************************************************)
EXTENDS Naturals, FiniteSets

CONSTANTS Requests, Actors, Targets

VARIABLES
  asked,         (* what each request asks for, and of how many            *)
  approvals,     (* who has approved it                                    *)
  open,          (* the requests whose gate is open                        *)
  passed         (* history: the passages through the gates                *)

vars == <<asked, approvals, open, passed>>

Nothing == [quorum |-> 0]
Demand == [actor : Actors, target : Targets, quorum : Nat \ {0}]

Init ==
  /\ asked = [r \in Requests |-> Nothing]
  /\ approvals = [r \in Requests |-> {}]
  /\ open = {}
  /\ passed = {}

Ask(r) ==
  /\ asked[r] = Nothing
  /\ asked'[r] \in Demand
  /\ asked' = [asked EXCEPT ![r] = asked'[r]]
  /\ UNCHANGED <<approvals, open, passed>>

Approve(r, a) ==
  /\ asked[r] # Nothing
  /\ a # asked[r].actor /\ a \notin approvals[r]
  /\ approvals' = [approvals EXCEPT ![r] = @ \cup {a}]
  /\ \/ UNCHANGED open
     \/ /\ Cardinality(approvals'[r]) >= asked[r].quorum
        /\ open' = open \cup {r}
  /\ UNCHANGED <<asked, passed>>

(* A denial, or the end of its time.                                       *)
Shut(r) ==
  /\ r \in open
  /\ open' = open \ {r}
  /\ UNCHANGED <<asked, approvals, passed>>

Pass(r) ==
  /\ r \in open
  /\ passed' = passed \cup
       {[actor |-> asked[r].actor, target |-> asked[r].target, request |-> r]}
  /\ UNCHANGED <<asked, approvals, open>>

Next == \E r \in Requests : Ask(r) \/ Shut(r) \/ Pass(r) \/ \E a \in Actors : Approve(r, a)

Spec == Init /\ [][Next]_vars
=============================================================================
