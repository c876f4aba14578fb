----------------------------- MODULE Approvals -----------------------------
(***************************************************************************)
(* Approval policies, requests and decisions (app/services/approvals.py,   *)
(* app/api/approval_routes.py) and the gate that a sensitive operation     *)
(* passes (assert_gate, called by the configuration rollback of            *)
(* app/api/control_center_routes.py).                                      *)
(*                                                                         *)
(* A step ends at an await on the database: every handler reads in one     *)
(* step what it writes back in a later one (see Orm), and the handlers of  *)
(* the four kinds below interleave freely.                                 *)
(*                                                                         *)
(* The gated actions all have one name, so a policy's action_pattern and   *)
(* system_key amount to whether it covers that action.  Times are          *)
(* abstracted to the set `overdue` of the requests past expires_at.        *)
(***************************************************************************)
EXTENDS Naturals, FiniteSets, Orm

CONSTANTS
  Requests,      (* request ids                                            *)
  Actors,        (* subjects of principals                                 *)
  Roles,
  RolesOf,       (* the roles of each actor                                *)
  Targets,       (* what a sensitive operation is about                    *)
  PolicyKeys,    (* policy keys, numbered in their order                   *)
  PolicyBodies,  (* bodies of PUT /v1/approvals/policies/{key} in use      *)
  Editors,       (* sessions of that route                                 *)
  Voters,        (* sessions of POST /v1/approvals/requests/{id}/decision  *)
  Readers,       (* sessions that get or list requests                     *)
  Callers,       (* sessions of a gated operation                          *)
  Nobody         (* no actor, request or target                            *)

PolicyRow == [required : Nat, roles : SUBSET Roles,
              covers : BOOLEAN, enabled : BOOLEAN]

ASSUME ActorsAssumption == IsFiniteSet(Actors) /\ Nobody \notin Actors
ASSUME RequestsAssumption == Nobody \notin Requests
ASSUME RolesAssumption == RolesOf \in [Actors -> SUBSET Roles]
ASSUME PoliciesAssumption ==
  /\ PolicyKeys \subseteq Nat
  /\ PolicyBodies \subseteq PolicyRow
  /\ \A body \in PolicyBodies : body.required > 0

VARIABLES
  policies,      (* table approval_policies                                *)
  requests,      (* table approval_requests                                *)
  decisions,     (* table approval_decisions                               *)
  overdue,       (* the requests with expires_at <= now                    *)
  edit,          (* what each editor has read and will write               *)
  vote,          (* where each voter is, and the request row it has read   *)
  look,          (* the request each reader holds                          *)
  gate,          (* where each caller is in assert_gate                    *)
  passed         (* history: the passages through the gate                 *)

handlers == <<edit, vote, look, gate>>
tables   == <<policies, requests, decisions>>
vars     == <<tables, overdue, handlers, passed>>
-----------------------------------------------------------------------------
(***************************************************************************)
(* Rows.                                                                   *)
(***************************************************************************)

NoPolicy == [required |-> 0, roles |-> {}, covers |-> FALSE, enabled |-> FALSE]

RequestRow == [status : {"absent", "pending", "approved", "denied", "expired"},
               actor : Actors \cup {Nobody}, target : Targets \cup {Nobody},
               policy : Nat, required : Nat, count : Nat]

NoRow == [status |-> "absent", actor |-> Nobody, target |-> Nobody,
          policy |-> 0, required |-> 0, count |-> 0]

(* The UPDATE of an approval_policies row.                                 *)
FlushPolicy(stored, row, edited) ==
  [required |-> Written(stored.required, row.required, edited.required),
   roles    |-> Written(stored.roles, row.roles, edited.roles),
   covers   |-> Written(stored.covers, row.covers, edited.covers),
   enabled  |-> Written(stored.enabled, row.enabled, edited.enabled)]

(* The UPDATE of an approval_requests row: only status and count change.   *)
FlushRequest(stored, row, edited) ==
  [stored EXCEPT !.status = Written(stored.status, row.status, edited.status),
                 !.count  = Written(stored.count, row.count, edited.count)]

(* create_request: the number of approvals is copied from the policy.      *)
Created(caller) ==
  [status |-> "pending", actor |-> caller.actor, target |-> caller.target,
   policy |-> caller.key, required |-> caller.policy.required, count |-> 0]

(* The edit of decide_request on the row the voter has read.               *)
Decided(row, decision) ==
  IF decision = "deny" THEN [row EXCEPT !.status = "denied"]
  ELSE [row EXCEPT !.count = @ + 1,
                   !.status = IF row.count + 1 >= row.required THEN "approved" ELSE @]

(* _refresh_expiry on the row a session has read.                          *)
Expired(row) == [row EXCEPT !.status = "expired"]

(* The policy assert_gate picks: the first in key order that applies.      *)
Applicable == {k \in PolicyKeys : policies[k].enabled /\ policies[k].covers}
IsFirst(k, S) == k \in S /\ \A other \in S : k <= other
-----------------------------------------------------------------------------
Idle == [at |-> "idle"]

Edit == [at : {"write"}, key : PolicyKeys, body : PolicyBodies, row : PolicyRow]
Vote == [at : {"expire", "policy", "existing", "commit"}, request : Requests,
         row : RequestRow, approver : Actors, decision : {"approve", "deny"}]
Look == [at : {"check"}, request : Requests, row : RequestRow]
Gate == [at : {"look", "create", "expire"}, actor : Actors, target : Targets,
         request : Requests \cup {Nobody}, key : PolicyKeys, policy : PolicyRow,
         row : RequestRow]

Init ==
  /\ policies = [k \in PolicyKeys |-> NoPolicy]
  /\ requests = [r \in Requests |-> NoRow]
  /\ decisions = [r \in Requests |-> [a \in Actors |-> "none"]]
  /\ overdue = {}
  /\ edit = [h \in Editors |-> Idle]
  /\ vote = [h \in Voters |-> Idle]
  /\ look = [h \in Readers |-> Idle]
  /\ gate = [h \in Callers |-> Idle]
  /\ passed = {}

(* The time limit of a request passes.                                     *)
BecomeOverdue(r) ==
  /\ requests[r].status # "absent"
  /\ r \notin overdue
  /\ overdue' = overdue \cup {r}
  /\ UNCHANGED <<tables, handlers, passed>>
-----------------------------------------------------------------------------
(***************************************************************************)
(* upsert_policy.                                                          *)
(***************************************************************************)

EditRead(h, k, body) ==
  /\ edit[h] = Idle
  /\ edit' = [edit EXCEPT ![h] =
                [at |-> "write", key |-> k, body |-> body, row |-> policies[k]]]
  /\ UNCHANGED <<tables, overdue, vote, look, gate, passed>>

(* Of two editors that both saw no policy the second violates the unique   *)
(* key and fails.                                                          *)
EditWrite(h) ==
  LET e == edit[h] IN
    /\ e.at = "write"
    /\ policies' = [policies EXCEPT ![e.key] =
                      IF e.row # NoPolicy THEN FlushPolicy(@, e.row, e.body)
                      ELSE IF @ = NoPolicy THEN e.body ELSE @]
    /\ edit' = [edit EXCEPT ![h] = Idle]
    /\ UNCHANGED <<requests, decisions, overdue, vote, look, gate, passed>>
-----------------------------------------------------------------------------
(***************************************************************************)
(* decide_request: four statements.                                        *)
(***************************************************************************)

VoteGoes(h, place) == vote' = [vote EXCEPT ![h].at = place]
VoteEnds(h) == vote' = [vote EXCEPT ![h] = Idle]

(* A request that is not pending is refused, and so is the requester; one  *)
(* past its time is first marked expired, and then refused.                *)
VoteRead(h, r, approver, decision) ==
  LET ballot(place) == [at |-> place, request |-> r, row |-> requests[r],
                        approver |-> approver, decision |-> decision]
  IN /\ vote[h] = Idle
     /\ requests[r].status = "pending"
     /\ \/ r \in overdue /\ vote' = [vote EXCEPT ![h] = ballot("expire")]
        \/ /\ r \notin overdue
           /\ approver # requests[r].actor
           /\ vote' = [vote EXCEPT ![h] = ballot("policy")]
     /\ UNCHANGED <<tables, overdue, edit, look, gate, passed>>

(* The roles are those the policy asks for now.                            *)
VotePolicy(h) ==
  LET asked == policies[vote[h].row.policy].roles IN
    /\ vote[h].at = "policy"
    /\ IF asked = {} \/ asked \cap RolesOf[vote[h].approver] # {}
       THEN VoteGoes(h, "existing") ELSE VoteEnds(h)
    /\ UNCHANGED <<tables, overdue, edit, look, gate, passed>>

VoteExisting(h) ==
  /\ vote[h].at = "existing"
  /\ IF decisions[vote[h].request][vote[h].approver] = "none"
     THEN VoteGoes(h, "commit") ELSE VoteEnds(h)
  /\ UNCHANGED <<tables, overdue, edit, look, gate, passed>>

(* One transaction inserts the decision and updates the request; when the  *)
(* approver has meanwhile decided in another session, the unique pair of   *)
(* request and approver rolls back both.                                   *)
VoteCommitTwice(h) ==
  LET v == vote[h] IN
    /\ v.at = "commit"
    /\ requests' = [requests EXCEPT ![v.request] =
                      FlushRequest(@, v.row, Decided(v.row, v.decision))]
    /\ decisions' = [decisions EXCEPT ![v.request][v.approver] = v.decision]
    /\ VoteEnds(h)
    /\ UNCHANGED <<policies, overdue, edit, look, gate, passed>>

VoteCommit(h) ==
  LET v == vote[h] IN
    /\ v.at = "commit"
    /\ IF decisions[v.request][v.approver] = "none"
       THEN /\ requests' = [requests EXCEPT ![v.request] =
                              FlushRequest(@, v.row, Decided(v.row, v.decision))]
            /\ decisions' = [decisions EXCEPT ![v.request][v.approver] = v.decision]
       ELSE UNCHANGED <<requests, decisions>>
    /\ VoteEnds(h)
    /\ UNCHANGED <<policies, overdue, edit, look, gate, passed>>

Expire(r, row) ==
  requests' = [requests EXCEPT ![r] = FlushRequest(@, row, Expired(row))]

VoteExpire(h) ==
  /\ vote[h].at = "expire"
  /\ Expire(vote[h].request, vote[h].row)
  /\ VoteEnds(h)
  /\ UNCHANGED <<policies, decisions, overdue, edit, look, gate, passed>>
-----------------------------------------------------------------------------
(***************************************************************************)
(* get_request and list_requests.  A list reads its rows together and      *)
(* refreshes them one after the other: one reader for each row.            *)
(***************************************************************************)

LookRead(h, r) ==
  /\ look[h] = Idle
  /\ requests[r].status = "pending"
  /\ look' = [look EXCEPT ![h] = [at |-> "check", request |-> r, row |-> requests[r]]]
  /\ UNCHANGED <<tables, overdue, edit, vote, gate, passed>>

LookExpire(h) ==
  /\ look[h].at = "check"
  /\ look[h].request \in overdue
  /\ Expire(look[h].request, look[h].row)
  /\ look' = [look EXCEPT ![h] = Idle]
  /\ UNCHANGED <<policies, decisions, overdue, edit, vote, gate, passed>>
-----------------------------------------------------------------------------
(***************************************************************************)
(* assert_gate.                                                            *)
(***************************************************************************)

GateGoes(h, place, row) == gate' = [gate EXCEPT ![h].at = place, ![h].row = row]
GateEnds(h) == gate' = [gate EXCEPT ![h] = Idle]

(* matching_policy.  Without an applicable policy the operation is free.   *)
GateRead(h, actor, target, r) ==
  /\ gate[h] = Idle
  /\ \E k \in PolicyKeys :
       /\ IsFirst(k, Applicable)
       /\ gate' = [gate EXCEPT ![h] =
                     [at |-> IF r = Nobody THEN "create" ELSE "look",
                      actor |-> actor, target |-> target, request |-> r,
                      key |-> k, policy |-> policies[k], row |-> NoRow]]
  /\ UNCHANGED <<tables, overdue, edit, vote, look, passed>>

(* The request named by the caller opens the gate to the actor that made   *)
(* it, for the same target, once it is approved.                           *)
OpensUnlessDenied(row, caller) ==
  /\ row.actor = caller.actor
  /\ row.target = caller.target
  /\ row.status # "denied"

Opens(row, caller) ==
  /\ row.actor = caller.actor
  /\ row.target = caller.target
  /\ row.status = "approved"

GateLook(h) ==
  LET g == gate[h]
      row == requests[g.request]
  IN /\ g.at = "look"
     /\ \/ row.status = "absent" /\ GateGoes(h, "create", NoRow) /\ UNCHANGED passed
        \/ /\ row.status = "pending" /\ g.request \in overdue
           /\ GateGoes(h, "expire", row)
           /\ UNCHANGED passed
        \/ /\ Opens(row, g)
           /\ passed' = passed \cup
                {[actor |-> g.actor, target |-> g.target, request |-> g.request]}
           /\ GateEnds(h)
        \/ /\ row.status # "absent"
           /\ ~(row.status = "pending" /\ g.request \in overdue)
           /\ ~Opens(row, g)
           /\ GateEnds(h)
           /\ UNCHANGED passed
     /\ UNCHANGED <<tables, overdue, edit, vote, look>>

GateExpire(h) ==
  /\ gate[h].at = "expire"
  /\ Expire(gate[h].request, gate[h].row)
  /\ GateEnds(h)
  /\ UNCHANGED <<policies, decisions, overdue, edit, vote, look, passed>>

GateCreate(h, r) ==
  /\ gate[h].at = "create"
  /\ requests[r].status = "absent"
  /\ requests' = [requests EXCEPT ![r] = Created(gate[h])]
  /\ GateEnds(h)
  /\ UNCHANGED <<policies, decisions, overdue, edit, vote, look, passed>>
-----------------------------------------------------------------------------
(* The request timeout of app/main.py cancels a handler between two        *)
(* statements; a reader also ends when its request is not overdue.         *)
HandlerDropped ==
  /\ \/ \E h \in Editors : edit[h] # Idle /\ edit' = [edit EXCEPT ![h] = Idle]
                           /\ UNCHANGED <<vote, look, gate>>
     \/ \E h \in Voters : vote[h] # Idle /\ VoteEnds(h)
                          /\ UNCHANGED <<edit, look, gate>>
     \/ \E h \in Readers : look[h] # Idle /\ look' = [look EXCEPT ![h] = Idle]
                           /\ UNCHANGED <<edit, vote, gate>>
     \/ \E h \in Callers : gate[h] # Idle /\ GateEnds(h)
                           /\ UNCHANGED <<edit, vote, look>>
  /\ UNCHANGED <<tables, overdue, passed>>

Next ==
  \/ \E r \in Requests : BecomeOverdue(r)
  \/ \E h \in Editors, k \in PolicyKeys, body \in PolicyBodies : EditRead(h, k, body)
  \/ \E h \in Editors : EditWrite(h)
  \/ \E h \in Voters, r \in Requests, a \in Actors, d \in {"approve", "deny"} :
       VoteRead(h, r, a, d)
  \/ \E h \in Voters : VotePolicy(h) \/ VoteExisting(h) \/ VoteCommit(h) \/ VoteExpire(h)
  \/ \E h \in Readers, r \in Requests : LookRead(h, r)
  \/ \E h \in Readers : LookExpire(h)
  \/ \E h \in Callers, a \in Actors, t \in Targets, r \in Requests \cup {Nobody} :
       GateRead(h, a, t, r)
  \/ \E h \in Callers : GateLook(h) \/ GateExpire(h)
  \/ \E h \in Callers, r \in Requests : GateCreate(h, r)
  \/ HandlerDropped

Spec == Init /\ [][Next]_vars
-----------------------------------------------------------------------------
(***************************************************************************)
(* Properties.                                                             *)
(***************************************************************************)

(* The tables and the sessions hold what their columns and locals may      *)
(* hold, and a request that exists has an actor and a target.              *)
TypeOK ==
  /\ policies \in [PolicyKeys -> PolicyRow]
  /\ requests \in [Requests -> RequestRow]
  /\ \A r \in Requests : requests[r].status # "absent" =>
       requests[r].actor \in Actors /\ requests[r].policy \in PolicyKeys
  /\ decisions \in [Requests -> [Actors -> {"none", "approve", "deny"}]]
  /\ overdue \subseteq Requests
  /\ edit \in [Editors -> Edit \cup {Idle}]
  /\ vote \in [Voters -> Vote \cup {Idle}]
  /\ look \in [Readers -> Look \cup {Idle}]
  /\ gate \in [Callers -> Gate \cup {Idle}]
  /\ passed \subseteq [actor : Actors, target : Targets, request : Requests]

Approvers(r) == {a \in Actors : decisions[r][a] = "approve"}

(* Enough actors other than the requester have approved the request.       *)
HasQuorum(r) ==
  /\ Cardinality(Approvers(r)) >= requests[r].required
  /\ requests[r].actor \notin Approvers(r)

(* "approval_count <= required_approvals"                                  *)
(* (tests/test_approval_gate_contracts.py:20), and the count never exceeds *)
(* the approvals on record: sessions that count from the same row lose     *)
(* approvals, they never invent one.                                       *)
CountIsBacked ==
  \A r \in Requests :
    /\ requests[r].count <= requests[r].required
    /\ requests[r].count <= Cardinality(Approvers(r))

(* A request is approved only by a quorum of different actors without the  *)
(* requester, however their sessions overlap and also when one of them     *)
(* sends the decision twice; the gate opens only to the requester, for     *)
(* the target of the request, and on such a quorum.                        *)
GateOpensOnQuorum ==
  /\ \A r \in Requests : requests[r].status = "approved" => HasQuorum(r)
  /\ \A p \in passed :
       /\ requests[p.request].actor = p.actor
       /\ requests[p.request].target = p.target
       /\ HasQuorum(p.request)

(* What a request asks of QuorumGate.                                      *)
Asks(r) ==
  IF requests[r].status = "absent" THEN [quorum |-> 0]
  ELSE [actor |-> requests[r].actor, target |-> requests[r].target,
        quorum |-> requests[r].required]

(* To the operations behind it the gate is that of QuorumGate: whatever    *)
(* sessions overlap, lose each other's counts or send a decision twice,    *)
(* approvals stay, only an approval opens, and a passage is through a gate *)
(* that is open at that moment.                                            *)
Promise == INSTANCE QuorumGate WITH
  asked <- [r \in Requests |-> Asks(r)],
  approvals <- [r \in Requests |-> Approvers(r)],
  open <- {r \in Requests : requests[r].status = "approved"}

ImplementsGate == Promise!Spec
=============================================================================
