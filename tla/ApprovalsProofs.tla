-------------------------- MODULE ApprovalsProofs --------------------------
(***************************************************************************)
(* What the approval tables guarantee for any number of requests, actors,  *)
(* policies and sessions.                                                  *)
(***************************************************************************)
EXTENDS Approvals, FiniteSetTheorems, TLAPS

-----------------------------------------------------------------------------
(***************************************************************************)
(* The inductive invariant.                                                *)
(***************************************************************************)

(* A policy that exists asks for an approval, and an editor that has read  *)
(* an existing one still finds it.                                         *)
PoliciesAsk ==
  /\ \A k \in PolicyKeys : policies[k] # NoPolicy => policies[k].required > 0
  /\ \A h \in Editors : edit[h].at = "write" /\ edit[h].row # NoPolicy =>
       policies[edit[h].key] # NoPolicy
  /\ \A h \in Callers : gate[h].at # "idle" => gate[h].policy.required > 0

(* What holds of each row of the request table and its decisions.          *)
RowSound(r) ==
  /\ requests[r].status = "absent" => \A a \in Actors : decisions[r][a] = "none"
  /\ requests[r].status = "pending" => requests[r].count < requests[r].required
  /\ requests[r].status = "approved" =>
       Cardinality(Approvers(r)) >= requests[r].required
  /\ requests[r].actor \notin Approvers(r)
  /\ requests[r].count <= requests[r].required
  /\ requests[r].count <= Cardinality(Approvers(r))

Exists(r) == requests[r].status # "absent"

(* What a voter has read is still so, or lags behind the table.            *)
BallotSound(v) ==
  /\ Exists(v.request)
  /\ v.row.status = "pending"
  /\ v.row.count < v.row.required
  /\ v.row.required = requests[v.request].required
  /\ v.row.count <= Cardinality(Approvers(v.request))
  /\ v.at # "expire" => v.approver # requests[v.request].actor

PassageSound(p) ==
  /\ Exists(p.request)
  /\ requests[p.request].actor = p.actor
  /\ requests[p.request].target = p.target
  /\ HasQuorum(p.request)

HeldSound ==
  /\ \A h \in Voters : vote[h].at # "idle" => BallotSound(vote[h])
  /\ \A h \in Readers : look[h].at = "check" => Exists(look[h].request)
  /\ \A h \in Callers :
       /\ gate[h].at \in {"look", "expire"} => gate[h].request \in Requests
       /\ gate[h].at = "expire" => Exists(gate[h].request)
  /\ \A p \in passed : PassageSound(p)

Inv ==
  /\ TypeOK
  /\ PoliciesAsk
  /\ \A r \in Requests : RowSound(r)
  /\ HeldSound
-----------------------------------------------------------------------------
(***************************************************************************)
(* Rows and sessions.                                                      *)
(***************************************************************************)

LEMMA ApproversFinite ==
  \A r \in Requests : /\ IsFiniteSet(Approvers(r))
                      /\ Cardinality(Approvers(r)) \in Nat
                      /\ Cardinality(Approvers(r)') \in Nat
<1>1. \A r \in Requests : Approvers(r) \subseteq Actors /\ Approvers(r)' \subseteq Actors
  BY DEF Approvers
<1> QED BY <1>1, ActorsAssumption, FS_Subset, FS_CardinalityType

(* A handler that is not idle holds a record of its kind.                  *)
LEMMA Busy ==
  ASSUME TypeOK
  PROVE  /\ \A h \in Editors : edit[h].at # "idle" => edit[h] \in Edit
         /\ \A h \in Voters : vote[h].at # "idle" => vote[h] \in Vote
         /\ \A h \in Readers : look[h].at # "idle" => look[h] \in Look
         /\ \A h \in Callers : gate[h].at # "idle" => gate[h] \in Gate
  BY DEF TypeOK, Idle

LEMMA NoRowType == NoRow \in RequestRow
  BY DEF NoRow, RequestRow

LEMMA NoPolicyType == NoPolicy \in PolicyRow
  BY DEF NoPolicy, PolicyRow

LEMMA FlushPolicyType ==
  ASSUME NEW stored \in PolicyRow, NEW row \in PolicyRow, NEW body \in PolicyBodies
  PROVE  /\ FlushPolicy(stored, row, body) \in PolicyRow
         /\ stored.required > 0 => FlushPolicy(stored, row, body).required > 0
         /\ FlushPolicy(stored, row, body).required > 0 =>
              FlushPolicy(stored, row, body) # NoPolicy
<1>1. body \in PolicyRow /\ body.required > 0
  BY PoliciesAssumption
<1> QED BY <1>1 DEF FlushPolicy, Written, PolicyRow, NoPolicy

(* The edit of an expiry writes nothing but, perhaps, the status.          *)
LEMMA ExpiredFlush ==
  ASSUME NEW stored \in RequestRow, NEW row \in RequestRow
  PROVE  \E s \in {stored.status, "expired"} :
           FlushRequest(stored, row, Expired(row)) = [stored EXCEPT !.status = s]
<1> DEFINE s == IF row.status = "expired" THEN stored.status ELSE "expired"
<1>1. s \in {stored.status, "expired"}
  OBVIOUS
<1>2. Expired(row).status = "expired" /\ Expired(row).count = row.count
  BY DEF Expired, RequestRow
<1>3. FlushRequest(stored, row, Expired(row))
        = [stored EXCEPT !.status = s, !.count = stored.count]
  BY <1>2 DEF FlushRequest, Written, RequestRow
<1>4. [stored EXCEPT !.status = s, !.count = stored.count] = [stored EXCEPT !.status = s]
  BY DEF RequestRow
<1> QED BY <1>1, <1>3, <1>4

(* What the commit of a voter with a sound ballot leaves in the row.       *)
LEMMA DecidedFlush ==
  ASSUME NEW stored \in RequestRow, NEW row \in RequestRow,
         NEW decision \in {"approve", "deny"}, stored.status # "absent",
         row.status = "pending", row.required = stored.required,
         row.count < row.required, stored.count <= stored.required,
         stored.status = "pending" => stored.count < stored.required,
         NEW after, after = FlushRequest(stored, row, Decided(row, decision))
  PROVE  /\ after \in RequestRow
         /\ after.status # "absent"
         /\ after.actor = stored.actor /\ after.target = stored.target
         /\ after.policy = stored.policy /\ after.required = stored.required
         /\ decision = "deny" => after.count = stored.count
                                 /\ after.status \in {"denied", stored.status}
         /\ decision = "approve" =>
              /\ after.count = row.count + 1
              /\ after.status = stored.status \/ after.status = "approved"
         /\ after.status = "approved" =>
              \/ stored.status = "approved"
              \/ (decision = "approve" /\ row.count + 1 >= stored.required)
         /\ after.status = "pending" => after.count < after.required
<1> DEFINE c == Written(stored.count, row.count, Decided(row, decision).count)
           s == Written(stored.status, row.status, Decided(row, decision).status)
<1>1. after = [stored EXCEPT !.status = s, !.count = c]
  BY DEF FlushRequest
<1>2. CASE decision = "deny"
  <2>1. c = stored.count /\ s = "denied"
    BY <1>2 DEF Decided, Written, RequestRow
  <2> QED BY <1>1, <1>2, <2>1 DEF RequestRow
<1>3. CASE decision = "approve"
  <2>1. c = row.count + 1 /\ c \in Nat
    BY <1>3 DEF Decided, Written, RequestRow
  <2>2. s = IF row.count + 1 >= row.required THEN "approved" ELSE stored.status
    BY <1>3 DEF Decided, Written, RequestRow
  <2>3. s \in {"approved", stored.status}
    BY <2>2
  <2> HIDE DEF c, s
  <2>4. /\ after \in RequestRow
        /\ after.status = s /\ after.count = c
        /\ after.actor = stored.actor /\ after.target = stored.target
        /\ after.policy = stored.policy /\ after.required = stored.required
    BY <1>1, <2>1, <2>3 DEF RequestRow
  <2>5. row.count \in Nat /\ row.required \in Nat
    BY DEF RequestRow
  <2> QED BY <1>3, <2>1, <2>2, <2>3, <2>4, <2>5
<1> QED BY <1>2, <1>3
-----------------------------------------------------------------------------
(***************************************************************************)
(* The steps of the request and decision tables.                           *)
(***************************************************************************)

(* Requests stay, with their actor, target and quorum, and approvals on    *)
(* record are never withdrawn.                                             *)
Grows ==
  \A r \in Requests :
    /\ Exists(r) => /\ Exists(r)'
                    /\ requests'[r].actor = requests[r].actor
                    /\ requests'[r].target = requests[r].target
                    /\ requests'[r].required = requests[r].required
                    /\ requests[r].actor \notin Approvers(r) =>
                         requests[r].actor \notin Approvers(r)'
    /\ Cardinality(Approvers(r)) <= Cardinality(Approvers(r)')

RowTyped(r) ==
  /\ requests[r] \in RequestRow
  /\ Exists(r) => requests[r].actor \in Actors /\ requests[r].policy \in PolicyKeys
  /\ decisions[r] \in [Actors -> {"none", "approve", "deny"}]

TablesSound ==
  /\ requests \in [Requests -> RequestRow]
  /\ decisions \in [Requests -> [Actors -> {"none", "approve", "deny"}]]
  /\ \A r \in Requests : RowTyped(r) /\ RowSound(r)

LEMMA InvTables == Inv => TablesSound
  BY DEF Inv, TablesSound, TypeOK, RowTyped, Exists

LEMMA TablesQuiet ==
  ASSUME Inv, UNCHANGED <<requests, decisions>>
  PROVE  TablesSound' /\ Grows
<1>1. \A r \in Requests : Approvers(r)' = Approvers(r)
  BY DEF Approvers
<1>2. TablesSound'
  BY InvTables, <1>1 DEF TablesSound, RowTyped, RowSound, Exists
<1> QED BY <1>1, <1>2, ApproversFinite DEF Grows, Exists

(* A step that rewrites the row of r and leaves the decisions alone.       *)
LEMMA RowStep ==
  ASSUME Inv, NEW r \in Requests, NEW row \in RequestRow, decisions' = decisions,
         requests' = [requests EXCEPT ![r] = row],
         RowTyped(r)', RowSound(r)',
         Exists(r) => /\ row.status # "absent" /\ row.actor = requests[r].actor
                      /\ row.target = requests[r].target
                      /\ row.required = requests[r].required
  PROVE  TablesSound' /\ Grows
<1>1. \A s \in Requests : Approvers(s)' = Approvers(s)
  BY DEF Approvers
<1>2. requests' \in [Requests -> RequestRow] /\ requests'[r] = row
  BY DEF Inv, TypeOK
<1>3. \A s \in Requests \ {r} : requests'[s] = requests[s]
  BY DEF Inv, TypeOK
<1>4. \A s \in Requests \ {r} : RowTyped(s)' /\ RowSound(s)'
  BY InvTables, <1>1, <1>3 DEF TablesSound, RowTyped, RowSound, Exists
<1>5. TablesSound'
  BY <1>2, <1>4 DEF TablesSound, Inv, TypeOK
<1>6. Grows
  BY <1>1, <1>2, <1>3, ApproversFinite DEF Grows, Exists
<1> QED BY <1>5, <1>6

LEMMA ExpireStep ==
  ASSUME Inv, NEW r \in Requests, NEW row \in RequestRow, Exists(r),
         Expire(r, row), decisions' = decisions
  PROVE  TablesSound' /\ Grows
<1>1. requests[r] \in RequestRow /\ RowTyped(r) /\ RowSound(r)
  BY InvTables DEF TablesSound
<1>2. PICK s \in {requests[r].status, "expired"} :
        FlushRequest(requests[r], row, Expired(row)) = [requests[r] EXCEPT !.status = s]
  BY <1>1, ExpiredFlush
<1> DEFINE after == [requests[r] EXCEPT !.status = s]
<1>3. requests' = [requests EXCEPT ![r] = after]
  BY <1>2 DEF Expire
<1>4. requests'[r] = after
  BY <1>3 DEF Inv, TypeOK
<1>5. Approvers(r)' = Approvers(r)
  BY DEF Approvers
<1>6. /\ after \in RequestRow /\ after.status # "absent"
      /\ after.actor = requests[r].actor /\ after.target = requests[r].target
      /\ after.policy = requests[r].policy /\ after.count = requests[r].count
      /\ after.required = requests[r].required
      /\ after.status \in {requests[r].status, "expired"}
  BY <1>1 DEF RequestRow, Exists
<1> HIDE DEF after
<1>7. RowTyped(r)'
  BY <1>1, <1>4, <1>6 DEF RowTyped, Exists
<1>8. RowSound(r)'
  BY <1>1, <1>4, <1>5, <1>6 DEF RowSound
<1> QED BY <1>3, <1>6, <1>7, <1>8, RowStep

LEMMA CreateStep ==
  ASSUME Inv, NEW h \in Callers, NEW r \in Requests, GateCreate(h, r)
  PROVE  TablesSound' /\ Grows
<1> DEFINE row == Created(gate[h])
<1>1. gate[h] \in Gate /\ gate[h].policy.required > 0
  BY Busy DEF GateCreate, Inv, PoliciesAsk
<1>2. /\ row \in RequestRow /\ row.status = "pending" /\ row.actor = gate[h].actor
      /\ row.policy = gate[h].key /\ row.count = 0 /\ row.required > 0
      /\ row.actor \in Actors /\ row.policy \in PolicyKeys /\ row.required \in Nat
  BY <1>1, PoliciesAssumption DEF Created, Gate, RequestRow, PolicyRow
<1>3. requests' = [requests EXCEPT ![r] = row] /\ decisions' = decisions
  BY DEF GateCreate
<1>4. requests'[r] = row
  BY <1>3 DEF Inv, TypeOK
<1>5. \A a \in Actors : decisions[r][a] = "none"
  BY DEF Inv, RowSound, GateCreate
<1>6. Approvers(r)' = {}
  BY <1>3, <1>5 DEF Approvers
<1>7. ~Exists(r)
  BY DEF GateCreate, Exists
<1> HIDE DEF row
<1>8. RowTyped(r)'
  BY <1>2, <1>3, <1>4 DEF RowTyped, Exists, Inv, TypeOK
<1>9. RowSound(r)'
  BY <1>2, <1>4, <1>6, FS_EmptySet DEF RowSound
<1> QED BY <1>2, <1>3, <1>7, <1>8, <1>9, RowStep

(* A voter's commit adds at most one approval, of an actor who had none on *)
(* record and is not the requester, and counts from a count not above the  *)
(* approvals on record.                                                    *)
LEMMA VoteStep ==
  ASSUME Inv, NEW h \in Voters, VoteCommit(h)
  PROVE  TablesSound' /\ Grows
<1> PICK v : v = vote[h]
  OBVIOUS
<1> DEFINE r == v.request
           a == v.approver
           after == FlushRequest(requests[r], v.row, Decided(v.row, v.decision))
<1>1. CASE decisions[r][a] # "none"
  BY <1>1, TablesQuiet DEF VoteCommit
<1>2. CASE decisions[r][a] = "none"
  <2>1. v \in Vote /\ BallotSound(v) /\ v.at = "commit"
    BY Busy DEF VoteCommit, Inv, HeldSound
  <2>2. r \in Requests /\ a \in Actors /\ v.decision \in {"approve", "deny"}
        /\ v.row \in RequestRow
    BY <2>1 DEF Vote
  <2>3. RowTyped(r) /\ RowSound(r)
    BY <2>2, InvTables DEF TablesSound
  <2>4. /\ requests' = [requests EXCEPT ![r] = after]
        /\ decisions' = [decisions EXCEPT ![r][a] = v.decision]
    BY <1>2 DEF VoteCommit
  <2>5. /\ v.row.status = "pending" /\ v.row.required = requests[r].required
        /\ v.row.count < v.row.required /\ requests[r].status # "absent"
        /\ v.row.count <= Cardinality(Approvers(r))
        /\ a # requests[r].actor
    BY <2>1 DEF BallotSound, Exists
  <2>6. /\ after \in RequestRow
        /\ after.status # "absent"
        /\ after.actor = requests[r].actor /\ after.target = requests[r].target
        /\ after.policy = requests[r].policy /\ after.required = requests[r].required
        /\ v.decision = "deny" => after.count = requests[r].count
                                  /\ after.status \in {"denied", requests[r].status}
        /\ v.decision = "approve" => after.count = v.row.count + 1
        /\ after.status = "approved" =>
             \/ requests[r].status = "approved"
             \/ (v.decision = "approve" /\ v.row.count + 1 >= requests[r].required)
        /\ after.status = "pending" => after.count < after.required
    BY <2>2, <2>3, <2>5, DecidedFlush DEF RowTyped, RowSound
  <2> HIDE DEF after
  <2>7. /\ decisions' \in [Requests -> [Actors -> {"none", "approve", "deny"}]]
        /\ decisions'[r] = [decisions[r] EXCEPT ![a] = v.decision]
        /\ \A s \in Requests \ {r} : decisions'[s] = decisions[s]
    BY <2>2, <2>4 DEF Inv, TypeOK
  <2>8. /\ requests' \in [Requests -> RequestRow]
        /\ requests'[r] = after
        /\ \A s \in Requests \ {r} : requests'[s] = requests[s]
    BY <2>2, <2>4, <2>6 DEF Inv, TypeOK
  <2>9. \A s \in Requests \ {r} : Approvers(s)' = Approvers(s)
    BY <2>7 DEF Approvers
  <2>10. Approvers(r)' = IF v.decision = "approve" THEN Approvers(r) \cup {a}
                         ELSE Approvers(r)
    BY <1>2, <2>2, <2>3, <2>7 DEF Approvers, RowTyped
  <2>11. a \notin Approvers(r)
    BY <1>2 DEF Approvers
  <2>12. /\ Cardinality(Approvers(r)) \in Nat
         /\ Cardinality(Approvers(r)') = IF v.decision = "approve"
                                         THEN Cardinality(Approvers(r)) + 1
                                         ELSE Cardinality(Approvers(r))
    BY <2>2, <2>10, <2>11, ApproversFinite, FS_AddElement
  <2>13. v.row.count \in Nat /\ v.row.required \in Nat /\ requests[r].count \in Nat
    BY <2>2, <2>3 DEF RequestRow, RowTyped
  <2>14. requests[r].actor \notin Approvers(r)'
    BY <2>3, <2>5, <2>10 DEF RowSound
  <2>15. RowTyped(r)'
    BY <2>2, <2>3, <2>5, <2>6, <2>7, <2>8 DEF RowTyped, Exists
  <2>16. RowSound(r)'
    <3>1. requests'[r].count <= requests'[r].required
          /\ requests'[r].count <= Cardinality(Approvers(r)')
      BY <2>2, <2>3, <2>5, <2>6, <2>8, <2>12, <2>13 DEF RowSound
    <3>2. requests'[r].status = "approved" =>
            Cardinality(Approvers(r)') >= requests'[r].required
      BY <2>3, <2>5, <2>6, <2>8, <2>12, <2>13 DEF RowSound
    <3> QED BY <3>1, <3>2, <2>6, <2>8, <2>14 DEF RowSound
  <2>17. \A s \in Requests \ {r} : RowTyped(s)' /\ RowSound(s)'
    BY InvTables, <2>7, <2>8, <2>9 DEF TablesSound, RowTyped, RowSound, Exists
  <2>18. TablesSound'
    BY <2>7, <2>8, <2>15, <2>16, <2>17 DEF TablesSound
  <2>19. Grows
    BY <2>6, <2>8, <2>9, <2>12, <2>14, ApproversFinite DEF Grows, Exists
  <2> QED BY <2>18, <2>19
<1> QED BY <1>1, <1>2
-----------------------------------------------------------------------------
(***************************************************************************)
(* The sessions.                                                           *)
(***************************************************************************)

Passages == [actor : Actors, target : Targets, request : Requests]

(* What a voter holds and what has passed the gate stays sound while the   *)
(* tables grow.                                                            *)
LEMMA HeldGrows ==
  ASSUME Inv, Grows
  PROVE  /\ \A v \in Vote : BallotSound(v) => BallotSound(v)'
         /\ \A r \in Requests : Exists(r) => Exists(r)'
         /\ \A p \in Passages : PassageSound(p) => PassageSound(p)'
         /\ \A p \in passed : p \in Passages /\ PassageSound(p)
<1>1. ASSUME NEW v \in Vote, BallotSound(v)
      PROVE  BallotSound(v)'
  <2>1. /\ v.request \in Requests /\ v.row.count \in Nat
        /\ Cardinality(Approvers(v.request)) \in Nat
        /\ Cardinality(Approvers(v.request)') \in Nat
    BY ApproversFinite DEF Vote, RequestRow
  <2>2. v.row.count <= Cardinality(Approvers(v.request)')
    BY <1>1, <2>1, SMT DEF BallotSound, Grows
  <2> QED BY <1>1, <2>1, <2>2 DEF BallotSound, Grows
<1>2. ASSUME NEW p \in Passages, PassageSound(p)
      PROVE  PassageSound(p)'
  <2>1. p.request \in Requests /\ PassageSound(p)
    BY <1>2 DEF Passages
  <2>2. requests[p.request].required \in Nat
    BY <2>1 DEF Inv, TypeOK, RequestRow
  <2> QED BY <2>1, <2>2, ApproversFinite DEF PassageSound, HasQuorum, Grows
<1>3. \A p \in passed : p \in Passages /\ PassageSound(p)
  BY DEF Inv, TypeOK, HeldSound, Passages
<1> QED BY <1>1, <1>2, <1>3 DEF Grows

LEMMA TablesStep ==
  ASSUME Inv, Next
  PROVE  TablesSound' /\ Grows
<1>1. CASE UNCHANGED <<requests, decisions>>
  BY <1>1, TablesQuiet
<1>2. ASSUME NEW h \in Voters, VoteCommit(h)
      PROVE  TablesSound' /\ Grows
  BY <1>2, VoteStep
<1>3. ASSUME NEW h \in Voters, VoteExpire(h)
      PROVE  TablesSound' /\ Grows
  <2>1. vote[h] \in Vote /\ BallotSound(vote[h])
    BY <1>3, Busy DEF VoteExpire, Inv, HeldSound
  <2> QED BY <1>3, <2>1, ExpireStep DEF VoteExpire, Vote, BallotSound
<1>4. ASSUME NEW h \in Readers, LookExpire(h)
      PROVE  TablesSound' /\ Grows
  <2>1. look[h] \in Look /\ Exists(look[h].request)
    BY <1>4, Busy DEF LookExpire, Inv, HeldSound
  <2> QED BY <1>4, <2>1, ExpireStep DEF LookExpire, Look
<1>5. ASSUME NEW h \in Callers, GateExpire(h)
      PROVE  TablesSound' /\ Grows
  <2>1. gate[h] \in Gate /\ gate[h].request \in Requests /\ Exists(gate[h].request)
    BY <1>5, Busy DEF GateExpire, Inv, HeldSound
  <2> QED BY <1>5, <2>1, ExpireStep DEF GateExpire, Gate
<1>6. ASSUME NEW h \in Callers, NEW r \in Requests, GateCreate(h, r)
      PROVE  TablesSound' /\ Grows
  BY <1>6, CreateStep
<1> QED BY <1>1, <1>2, <1>3, <1>4, <1>5, <1>6
  DEF Next, BecomeOverdue, EditRead, EditWrite, VoteRead, VotePolicy, VoteExisting,
      LookRead, GateRead, GateLook, HandlerDropped, tables

(* What the sessions hold is typed and sound again after their own steps,  *)
(* given that the tables have grown.                                       *)
SessionsTyped ==
  /\ overdue \subseteq Requests
  /\ edit \in [Editors -> Edit \cup {Idle}]
  /\ vote \in [Voters -> Vote \cup {Idle}]
  /\ look \in [Readers -> Look \cup {Idle}]
  /\ gate \in [Callers -> Gate \cup {Idle}]
  /\ passed \subseteq [actor : Actors, target : Targets, request : Requests]

SessionsSound == SessionsTyped /\ HeldSound

LEMMA SessionsQuiet ==
  ASSUME Inv, Grows, overdue' \subseteq Requests,
         UNCHANGED <<vote, look, gate, passed>>,
         edit' \in [Editors -> Edit \cup {Idle}]
  PROVE  SessionsSound'
<1>1. SessionsTyped'
  BY DEF Inv, TypeOK, SessionsTyped
<1>2. HeldSound'
  BY Busy, HeldGrows DEF Inv, HeldSound, Vote, Look, TypeOK, Idle
<1> QED BY <1>1, <1>2 DEF SessionsSound

LEMMA VoterChanges ==
  ASSUME Inv, Grows, NEW h \in Voters, NEW v \in Vote \cup {Idle},
         vote' = [vote EXCEPT ![h] = v], v.at # "idle" => BallotSound(v)',
         UNCHANGED <<overdue, edit, look, gate, passed>>
  PROVE  SessionsSound'
<1>1. SessionsTyped'
  BY DEF Inv, TypeOK, SessionsTyped
<1>2. ASSUME NEW w \in Voters, vote'[w].at # "idle"
      PROVE  BallotSound(vote[w])'
  <2>1. CASE w = h
    <3>1. vote'[w] = v
      BY <2>1 DEF Inv, TypeOK
    <3> QED BY <1>2, <3>1 DEF BallotSound, Exists, Approvers
  <2>2. CASE w # h
    <3>1. vote'[w] = vote[w]
      BY <2>2 DEF Inv, TypeOK
    <3>2. vote[w] \in Vote /\ BallotSound(vote[w])
      BY <1>2, <3>1, Busy DEF Inv, HeldSound
    <3>3. PICK u \in Vote : u = vote[w]
      BY <3>2
    <3>4. BallotSound(u)'
      BY <3>2, <3>3, HeldGrows
    <3> QED BY <3>1, <3>3, <3>4 DEF BallotSound, Exists, Approvers
  <2> QED BY <2>1, <2>2
<1>3. HeldSound'
  BY <1>2, Busy, HeldGrows DEF Inv, HeldSound, Look
<1> QED BY <1>1, <1>3 DEF SessionsSound

LEMMA VoterSteps ==
  ASSUME Inv, Grows, NEW h \in Voters,
         \/ \E r \in Requests, a \in Actors, d \in {"approve", "deny"} :
              VoteRead(h, r, a, d)
         \/ VotePolicy(h) \/ VoteExisting(h) \/ VoteCommit(h) \/ VoteExpire(h)
  PROVE  SessionsSound'
<1>1. ASSUME VoteEnds(h), UNCHANGED <<overdue, edit, look, gate, passed>>
      PROVE  SessionsSound'
  <2>1. Idle.at = "idle"
    BY DEF Idle
  <2> QED BY <1>1, <2>1, VoterChanges DEF VoteEnds
<1>2. ASSUME NEW r \in Requests, NEW a \in Actors, NEW d \in {"approve", "deny"},
             VoteRead(h, r, a, d)
      PROVE  SessionsSound'
  <2>1. requests[r] \in RequestRow /\ RowSound(r)
    BY DEF Inv, TypeOK
  <2>2. PICK place \in {"expire", "policy"} :
          /\ vote' = [vote EXCEPT ![h] =
                        [at |-> place, request |-> r, row |-> requests[r],
                         approver |-> a, decision |-> d]]
          /\ place # "expire" => a # requests[r].actor
    BY <1>2 DEF VoteRead
  <2>3. PICK v : v = [at |-> place, request |-> r, row |-> requests[r],
                      approver |-> a, decision |-> d]
    OBVIOUS
  <2>4. v \in Vote
    BY <2>1, <2>3 DEF Vote
  <2>5. BallotSound(v)
    BY <1>2, <2>1, <2>2, <2>3 DEF BallotSound, RowSound, Exists, VoteRead
  <2>6. BallotSound(v)'
    BY <2>4, <2>5, HeldGrows
  <2> QED BY <1>2, <2>2, <2>3, <2>4, <2>6, VoterChanges DEF VoteRead
<1>3. ASSUME NEW place \in {"existing", "commit"}, vote[h].at \in {"policy", "existing"},
             VoteGoes(h, place), UNCHANGED <<overdue, edit, look, gate, passed>>
      PROVE  SessionsSound'
  <2>1. vote[h] \in Vote /\ BallotSound(vote[h])
    BY <1>3, Busy DEF Inv, HeldSound
  <2>2. PICK v : v = [vote[h] EXCEPT !.at = place]
    OBVIOUS
  <2>3. /\ v \in Vote
        /\ v.request = vote[h].request /\ v.row = vote[h].row
        /\ v.approver = vote[h].approver
    BY <2>1, <2>2 DEF Vote
  <2>4. BallotSound(v)
    BY <1>3, <2>1, <2>3 DEF BallotSound
  <2>5. BallotSound(v)'
    BY <2>3, <2>4, HeldGrows
  <2>6. vote' = [vote EXCEPT ![h] = v]
    BY <1>3, <2>2 DEF VoteGoes
  <2> QED BY <1>3, <2>3, <2>5, <2>6, VoterChanges
<1>4. CASE VotePolicy(h)
  BY <1>1, <1>3, <1>4 DEF VotePolicy
<1>5. CASE VoteExisting(h)
  BY <1>1, <1>3, <1>5 DEF VoteExisting
<1>6. CASE VoteCommit(h) \/ VoteExpire(h)
  BY <1>1, <1>6 DEF VoteCommit, VoteExpire
<1> QED BY <1>2, <1>4, <1>5, <1>6

LEMMA ReaderSteps ==
  ASSUME Inv, Grows, NEW h \in Readers, NEW l \in Look \cup {Idle},
         look' = [look EXCEPT ![h] = l], l.at # "idle" => Exists(l.request),
         UNCHANGED <<overdue, edit, vote, gate, passed>>
  PROVE  SessionsSound'
<1>1. SessionsTyped'
  BY DEF Inv, TypeOK, SessionsTyped
<1>2. \A g \in Readers : look'[g].at = "check" =>
        look'[g].request \in Requests /\ Exists(look'[g].request)
  BY Busy DEF Inv, TypeOK, HeldSound, Look, Idle
<1>3. \A g \in Readers : look'[g].at = "check" => Exists(look[g].request)'
  BY <1>2, HeldGrows DEF Exists
<1>4. HeldSound'
  BY <1>3, Busy, HeldGrows DEF Inv, HeldSound, Vote
<1> QED BY <1>1, <1>4 DEF SessionsSound

LEMMA CallerSteps ==
  ASSUME Inv, Grows, NEW h \in Callers, NEW g \in Gate \cup {Idle},
         gate' = [gate EXCEPT ![h] = g],
         g.at \in {"look", "expire"} => g.request \in Requests,
         g.at = "expire" => Exists(g.request),
         passed' \subseteq Passages,
         \A p \in passed' \ passed : PassageSound(p),
         UNCHANGED <<overdue, edit, vote, look>>
  PROVE  SessionsSound'
<1>1. SessionsTyped'
  BY DEF Inv, TypeOK, SessionsTyped, Passages
<1>2. \A c \in Callers :
        /\ gate'[c].at \in {"look", "expire"} => gate'[c].request \in Requests
        /\ gate'[c].at = "expire" => Exists(gate'[c].request)
  BY DEF Inv, TypeOK, HeldSound, Idle
<1>3. \A c \in Callers : gate'[c].at = "expire" => Exists(gate[c].request)'
  BY <1>2, HeldGrows DEF Exists
<1>4. \A p \in passed' : PassageSound(p)'
  BY HeldGrows
<1>5. HeldSound'
  BY <1>2, <1>3, <1>4, Busy, HeldGrows DEF Inv, HeldSound, Vote, Look
<1> QED BY <1>1, <1>5 DEF SessionsSound

LEMMA GateSteps ==
  ASSUME Inv, Grows, NEW h \in Callers,
         \/ \E a \in Actors, t \in Targets, r \in Requests \cup {Nobody} :
              GateRead(h, a, t, r)
         \/ GateLook(h) \/ GateExpire(h)
         \/ \E r \in Requests : GateCreate(h, r)
  PROVE  SessionsSound'
<1>1. ASSUME GateEnds(h), passed' \subseteq Passages,
             \A p \in passed' \ passed : PassageSound(p),
             UNCHANGED <<overdue, edit, vote, look>>
      PROVE  SessionsSound'
  <2>1. Idle.at = "idle"
    BY DEF Idle
  <2> QED BY <1>1, <2>1, CallerSteps DEF GateEnds
<1>2. passed \subseteq Passages
  BY HeldGrows
<1>3. ASSUME NEW a \in Actors, NEW t \in Targets, NEW r \in Requests \cup {Nobody},
             GateRead(h, a, t, r)
      PROVE  SessionsSound'
  <2>1. PICK k \in PolicyKeys :
          gate' = [gate EXCEPT ![h] =
                     [at |-> IF r = Nobody THEN "create" ELSE "look",
                      actor |-> a, target |-> t, request |-> r,
                      key |-> k, policy |-> policies[k], row |-> NoRow]]
    BY <1>3 DEF GateRead
  <2>2. policies[k] \in PolicyRow
    BY DEF Inv, TypeOK
  <2>3. PICK g : g = [at |-> IF r = Nobody THEN "create" ELSE "look",
                      actor |-> a, target |-> t, request |-> r,
                      key |-> k, policy |-> policies[k], row |-> NoRow]
    OBVIOUS
  <2>4. /\ g \in Gate /\ g.at # "expire"
        /\ g.at = "look" => g.request \in Requests
    BY <2>2, <2>3, NoRowType DEF Gate
  <2>5. gate' = [gate EXCEPT ![h] = g]
    BY <2>1, <2>3
  <2> QED BY <1>2, <1>3, <2>4, <2>5, CallerSteps DEF GateRead
<1>4. CASE GateLook(h)
  <2>1. gate[h] \in Gate /\ gate[h].at = "look" /\ gate[h].request \in Requests
    BY <1>4, Busy DEF GateLook, Inv, HeldSound
  <2>2. ASSUME NEW place \in {"create", "expire"},
               NEW row \in RequestRow,
               place = "expire" => row = requests[gate[h].request]
                                   /\ row.status = "pending",
               GateGoes(h, place, row), passed' = passed
        PROVE  SessionsSound'
    <3>1. PICK g : g = [gate[h] EXCEPT !.at = place, !.row = row]
      OBVIOUS
    <3>2. g \in Gate /\ g.at = place /\ g.request = gate[h].request
      BY <2>1, <2>2, <3>1 DEF Gate
    <3>3. gate' = [gate EXCEPT ![h] = g]
      BY <2>2, <3>1 DEF GateGoes
    <3>4. g.request \in Requests /\ (g.at = "expire" => Exists(g.request))
      BY <2>1, <2>2, <3>2 DEF Exists
    <3> QED BY <1>2, <1>4, <2>2, <3>2, <3>3, <3>4, CallerSteps DEF GateLook
  <2>3. requests[gate[h].request] \in RequestRow
    BY <2>1 DEF Inv, TypeOK
  <2>4. ASSUME Opens(requests[gate[h].request], gate[h])
        PROVE  LET p == [actor |-> gate[h].actor, target |-> gate[h].target,
                         request |-> gate[h].request]
               IN p \in Passages /\ PassageSound(p)
    BY <2>1, <2>4 DEF Opens, PassageSound, Exists, HasQuorum, Inv, RowSound, Gate, Passages
  <2> QED BY <1>1, <1>2, <1>4, <2>1, <2>2, <2>3, <2>4, NoRowType DEF GateLook
<1>5. CASE GateExpire(h)
  BY <1>1, <1>2, <1>5 DEF GateExpire
<1>6. ASSUME NEW r \in Requests, GateCreate(h, r)
      PROVE  SessionsSound'
  BY <1>1, <1>2, <1>6 DEF GateCreate
<1> QED BY <1>3, <1>4, <1>5, <1>6

LEMMA DroppedStep ==
  ASSUME Inv, Grows, HandlerDropped
  PROVE  SessionsSound'
<1>1. Idle.at = "idle"
  BY DEF Idle
<1>2. ASSUME NEW h \in Editors, edit' = [edit EXCEPT ![h] = Idle],
             UNCHANGED <<vote, look, gate>>
      PROVE  SessionsSound'
  BY <1>2, SessionsQuiet DEF HandlerDropped, Inv, TypeOK
<1>3. ASSUME NEW h \in Voters, VoteEnds(h), UNCHANGED <<edit, look, gate>>
      PROVE  SessionsSound'
  BY <1>1, <1>3, VoterChanges DEF HandlerDropped, VoteEnds
<1>4. ASSUME NEW h \in Readers, look' = [look EXCEPT ![h] = Idle],
             UNCHANGED <<edit, vote, gate>>
      PROVE  SessionsSound'
  BY <1>1, <1>4, ReaderSteps DEF HandlerDropped
<1>5. ASSUME NEW h \in Callers, GateEnds(h), UNCHANGED <<edit, vote, look>>
      PROVE  SessionsSound'
  BY <1>1, <1>5, CallerSteps, HeldGrows DEF HandlerDropped, GateEnds
<1> QED BY <1>2, <1>3, <1>4, <1>5 DEF HandlerDropped

LEMMA SessionsStep ==
  ASSUME Inv, Next, Grows
  PROVE  SessionsSound'
<1>1. ASSUME NEW r \in Requests, BecomeOverdue(r)
      PROVE  SessionsSound'
  BY <1>1, SessionsQuiet DEF BecomeOverdue, handlers, Inv, TypeOK
<1>2. ASSUME NEW h \in Editors, NEW k \in PolicyKeys, NEW body \in PolicyBodies,
             EditRead(h, k, body)
      PROVE  SessionsSound'
  BY <1>2, SessionsQuiet DEF EditRead, Inv, TypeOK, Edit
<1>3. ASSUME NEW h \in Editors, EditWrite(h)
      PROVE  SessionsSound'
  BY <1>3, SessionsQuiet DEF EditWrite, Inv, TypeOK
<1>4. ASSUME NEW h \in Readers, NEW r \in Requests, LookRead(h, r)
      PROVE  SessionsSound'
  <2>1. PICK l : l = [at |-> "check", request |-> r, row |-> requests[r]]
    OBVIOUS
  <2>2. l \in Look /\ Exists(l.request) /\ look' = [look EXCEPT ![h] = l]
    BY <1>4, <2>1 DEF LookRead, Look, Exists, Inv, TypeOK
  <2> QED BY <1>4, <2>2, ReaderSteps DEF LookRead
<1>5. ASSUME NEW h \in Readers, LookExpire(h)
      PROVE  SessionsSound'
  <2>1. Idle.at = "idle"
    BY DEF Idle
  <2> QED BY <1>5, <2>1, ReaderSteps DEF LookExpire
<1> QED BY <1>1, <1>2, <1>3, <1>4, <1>5, VoterSteps, GateSteps, DroppedStep DEF Next

LEMMA PoliciesStep ==
  ASSUME Inv, Next
  PROVE  PoliciesAsk' /\ policies' \in [PolicyKeys -> PolicyRow]
<1>1. ASSUME NEW h \in Editors, EditWrite(h)
      PROVE  PoliciesAsk' /\ policies' \in [PolicyKeys -> PolicyRow]
  <2>1. PICK e : e = edit[h]
    OBVIOUS
  <2>2. e \in Edit
    BY <1>1, <2>1, Busy DEF EditWrite, Inv
  <2>3. PICK p : p = IF e.row # NoPolicy THEN FlushPolicy(policies[e.key], e.row, e.body)
                     ELSE IF policies[e.key] = NoPolicy THEN e.body ELSE policies[e.key]
    OBVIOUS
  <2>4. policies' = [policies EXCEPT ![e.key] = p]
    BY <1>1, <2>1, <2>3 DEF EditWrite
  <2>5. p \in PolicyRow /\ p.required > 0 /\ p # NoPolicy
    <3>1. /\ e.row \in PolicyRow /\ e.body \in PolicyRow /\ e.body.required > 0
          /\ e.body \in PolicyBodies /\ e.key \in PolicyKeys
      BY <2>2, PoliciesAssumption DEF Edit
    <3>2. policies[e.key] \in PolicyRow
      BY <3>1 DEF Inv, TypeOK
    <3>3. policies[e.key] # NoPolicy => policies[e.key].required > 0
      BY <3>1 DEF Inv, PoliciesAsk
    <3>4. e.row # NoPolicy => policies[e.key] # NoPolicy
      BY <1>1, <2>1 DEF Inv, PoliciesAsk, EditWrite
    <3>5. NoPolicy.required = 0
      BY DEF NoPolicy
    <3>6. CASE e.row # NoPolicy
      BY <2>3, <3>1, <3>2, <3>3, <3>4, <3>6, FlushPolicyType
    <3>7. CASE e.row = NoPolicy
      BY <2>3, <3>1, <3>2, <3>3, <3>5, <3>7
    <3> QED BY <3>6, <3>7
  <2>6. policies' \in [PolicyKeys -> PolicyRow]
    BY <2>4, <2>5 DEF Inv, TypeOK
  <2>7. \A k \in PolicyKeys : policies[k] # NoPolicy \/ k = e.key => policies'[k] # NoPolicy
    BY <2>2, <2>4, <2>5 DEF Inv, TypeOK, Edit
  <2>8. \A k \in PolicyKeys : policies'[k] # NoPolicy => policies'[k].required > 0
    BY <2>4, <2>5 DEF Inv, TypeOK, PoliciesAsk
  <2>9. \A g \in Editors : edit'[g].at = "write" => edit'[g] = edit[g]
    BY <1>1 DEF EditWrite, Inv, TypeOK, Idle
  <2>10. \A g \in Editors : edit'[g].at = "write" /\ edit'[g].row # NoPolicy =>
           policies'[edit'[g].key] # NoPolicy
    BY <2>7, <2>9, Busy DEF Inv, PoliciesAsk, Edit
  <2> QED BY <1>1, <2>6, <2>8, <2>10 DEF EditWrite, PoliciesAsk, Inv
<1>2. ASSUME NEW h \in Editors, NEW k \in PolicyKeys, NEW body \in PolicyBodies,
             EditRead(h, k, body)
      PROVE  PoliciesAsk' /\ policies' \in [PolicyKeys -> PolicyRow]
  BY <1>2 DEF EditRead, PoliciesAsk, Inv, TypeOK, tables
<1>3. ASSUME NEW h \in Callers, NEW a \in Actors, NEW t \in Targets,
             NEW r \in Requests \cup {Nobody}, GateRead(h, a, t, r)
      PROVE  PoliciesAsk' /\ policies' \in [PolicyKeys -> PolicyRow]
  <2>1. PICK k \in PolicyKeys :
          /\ IsFirst(k, Applicable)
          /\ gate' = [gate EXCEPT ![h] =
                     [at |-> IF r = Nobody THEN "create" ELSE "look",
                      actor |-> a, target |-> t, request |-> r,
                      key |-> k, policy |-> policies[k], row |-> NoRow]]
    BY <1>3 DEF GateRead
  <2>2. policies[k].required > 0
    BY <2>1 DEF IsFirst, Applicable, Inv, PoliciesAsk, NoPolicy
  <2>3. \A c \in Callers : gate'[c].at # "idle" => gate'[c].policy.required > 0
    BY <2>1, <2>2 DEF Inv, TypeOK, PoliciesAsk
  <2> QED BY <1>3, <2>3 DEF GateRead, tables, PoliciesAsk, Inv, TypeOK
<1>4. ASSUME UNCHANGED <<policies, edit>>,
             \A c \in Callers : gate'[c].at # "idle" =>
               gate[c].at # "idle" /\ gate'[c].policy = gate[c].policy
      PROVE  PoliciesAsk' /\ policies' \in [PolicyKeys -> PolicyRow]
  BY <1>4 DEF Inv, TypeOK, PoliciesAsk
<1>5. ASSUME NEW h \in Callers, GateEnds(h)
      PROVE  \A c \in Callers : gate'[c].at # "idle" =>
               gate[c].at # "idle" /\ gate'[c].policy = gate[c].policy
  BY <1>5 DEF GateEnds, Inv, TypeOK, Idle
<1>6. ASSUME NEW h \in Callers, NEW place, NEW row, gate[h].at # "idle",
             GateGoes(h, place, row)
      PROVE  \A c \in Callers : gate'[c].at # "idle" =>
               gate[c].at # "idle" /\ gate'[c].policy = gate[c].policy
  <2>1. gate[h] \in Gate
    BY <1>6, Busy DEF Inv
  <2>2. gate'[h].policy = gate[h].policy
    BY <1>6, <2>1 DEF GateGoes, Gate, Inv, TypeOK
  <2>3. \A c \in Callers \ {h} : gate'[c] = gate[c]
    BY <1>6 DEF GateGoes, Inv, TypeOK
  <2> QED BY <1>6, <2>2, <2>3
<1>7. ASSUME NEW h \in Callers,
             GateLook(h) \/ GateExpire(h) \/ \E r \in Requests : GateCreate(h, r)
      PROVE  PoliciesAsk' /\ policies' \in [PolicyKeys -> PolicyRow]
  BY <1>4, <1>5, <1>6, <1>7 DEF GateLook, GateExpire, GateCreate, tables
<1>8. ASSUME NEW h \in Editors, edit' = [edit EXCEPT ![h] = Idle],
             UNCHANGED <<policies, gate>>
      PROVE  PoliciesAsk' /\ policies' \in [PolicyKeys -> PolicyRow]
  BY <1>8 DEF Inv, TypeOK, PoliciesAsk, Idle
<1>9. CASE HandlerDropped
  BY <1>4, <1>5, <1>8, <1>9 DEF HandlerDropped, tables
<1>10. ASSUME UNCHANGED <<policies, edit, gate>>
       PROVE  PoliciesAsk' /\ policies' \in [PolicyKeys -> PolicyRow]
  BY <1>4, <1>10
<1> QED BY <1>1, <1>2, <1>3, <1>7, <1>9, <1>10
  DEF Next, BecomeOverdue, handlers, tables, VoteRead, VotePolicy, VoteExisting,
      VoteCommit, VoteExpire, LookRead, LookExpire
-----------------------------------------------------------------------------
(***************************************************************************)
(* The theorems.                                                           *)
(***************************************************************************)

LEMMA InitInv == Init => Inv
<1> SUFFICES ASSUME Init PROVE Inv
  OBVIOUS
<1>1. TypeOK
  BY NoRowType, NoPolicyType DEF Init, TypeOK, NoRow
<1>2. PoliciesAsk
  BY DEF Init, PoliciesAsk, Idle
<1>3. ASSUME NEW r \in Requests
      PROVE  RowSound(r)
  <2>1. Approvers(r) = {}
    BY DEF Init, Approvers
  <2> QED BY <2>1, FS_EmptySet DEF Init, RowSound, NoRow
<1>4. HeldSound
  BY DEF Init, HeldSound, Idle
<1> QED BY <1>1, <1>2, <1>3, <1>4 DEF Inv

LEMMA StepInv == Inv /\ [Next]_vars => Inv'
<1> SUFFICES ASSUME Inv, [Next]_vars PROVE Inv'
  OBVIOUS
<1>1. CASE Next
  <2>1. TablesSound' /\ Grows
    BY <1>1, TablesStep
  <2>2. SessionsSound'
    BY <1>1, <2>1, SessionsStep
  <2>3. PoliciesAsk' /\ policies' \in [PolicyKeys -> PolicyRow]
    BY <1>1, PoliciesStep
  <2> QED BY <2>1, <2>2, <2>3
    DEF Inv, TypeOK, TablesSound, RowTyped, Exists, SessionsSound, SessionsTyped
<1>2. CASE UNCHANGED vars
  <2>1. Grows /\ TablesSound'
    BY <1>2, TablesQuiet DEF vars, tables
  <2>2. SessionsSound'
    BY <1>2, <2>1, SessionsQuiet DEF vars, handlers, tables, Inv, TypeOK
  <2>3. PoliciesAsk' /\ policies' \in [PolicyKeys -> PolicyRow]
    BY <1>2 DEF vars, tables, handlers, Inv, TypeOK, PoliciesAsk
  <2> QED BY <2>1, <2>2, <2>3
    DEF Inv, TypeOK, TablesSound, RowTyped, Exists, SessionsSound, SessionsTyped
<1> QED BY <1>1, <1>2

LEMMA Invariance == Spec => []Inv
<1> QED BY InitInv, StepInv, PTL DEF Spec

(* The tables and sessions of the approval routes and of the gate keep     *)
(* their types, for any number of each.                                    *)
THEOREM ApprovalsTypeCorrect == Spec => []TypeOK
<1>1. Inv => TypeOK
  BY DEF Inv
<1> QED BY <1>1, Invariance, PTL

(* approval_count of a request never exceeds its required_approvals nor    *)
(* the approvals on record, whatever decide_request sessions overlap.      *)
THEOREM CountAlwaysBacked == Spec => []CountIsBacked
<1>1. Inv => CountIsBacked
  BY DEF Inv, RowSound, CountIsBacked
<1> QED BY <1>1, Invariance, PTL

(* No request is approved and no gate opened without enough approvals of   *)
(* different actors other than the requester.                              *)
THEOREM GateOpensOnlyOnQuorum == Spec => []GateOpensOnQuorum
<1>1. Inv => GateOpensOnQuorum
  BY DEF Inv, RowSound, HeldSound, PassageSound, HasQuorum, GateOpensOnQuorum
<1> QED BY <1>1, Invariance, PTL
-----------------------------------------------------------------------------
(***************************************************************************)
(* The refinement.                                                         *)
(***************************************************************************)

(* The cardinality of QuorumGate is that of this module.                   *)
LEMMA SameCardinality ==
  ASSUME NEW S
  PROVE  Promise!Cardinality(S) = Cardinality(S)
BY DEF Promise!Cardinality, Cardinality

(* The row of r alone may change, without asking for anything else.        *)
OnlyRow(r) ==
  /\ requests' \in [Requests -> RequestRow]
  /\ \A s \in Requests \ {r} : requests'[s] = requests[s] /\ Approvers(s)' = Approvers(s)
  /\ Exists(r) /\ Exists(r)'
  /\ requests'[r].actor = requests[r].actor /\ requests'[r].target = requests[r].target
  /\ requests'[r].required = requests[r].required
  /\ UNCHANGED passed

LEMMA AskedStays ==
  ASSUME NEW r \in Requests, OnlyRow(r)
  PROVE  /\ [s \in Requests |-> Asks(s)]' = [s \in Requests |-> Asks(s)]
         /\ Asks(r) = [actor |-> requests[r].actor, target |-> requests[r].target,
                       quorum |-> requests[r].required]
<1>1. ASSUME NEW s \in Requests PROVE Asks(s)' = Asks(s)
  BY DEF OnlyRow, Exists, Asks
<1> QED BY <1>1 DEF OnlyRow, Exists, Asks

(* An expiry shuts the gate, or leaves it as it is.                        *)
LEMMA ExpiryShuts ==
  ASSUME Inv, NEW r \in Requests, NEW row \in RequestRow, Exists(r),
         Expire(r, row), decisions' = decisions, UNCHANGED passed
  PROVE  [Promise!Next]_(Promise!vars)
<1>1. requests[r] \in RequestRow
  BY DEF Inv, TypeOK
<1>2. PICK status \in {requests[r].status, "expired"} :
        FlushRequest(requests[r], row, Expired(row)) = [requests[r] EXCEPT !.status = status]
  BY <1>1, ExpiredFlush
<1>3. requests' = [requests EXCEPT ![r].status = status]
  BY <1>2 DEF Expire, Inv, TypeOK
<1>4. \A s \in Requests : Approvers(s)' = Approvers(s)
  BY DEF Approvers
<1>5. OnlyRow(r) /\ requests'[r].status = status
  BY <1>1, <1>3, <1>4 DEF OnlyRow, Exists, RequestRow, Inv, TypeOK
<1>6. CASE requests[r].status = "approved" /\ status = "expired"
  <2>1. Promise!Shut(r)
    BY <1>4, <1>5, <1>6, AskedStays DEF Promise!Shut, OnlyRow
  <2> QED BY <2>1 DEF Promise!Next
<1>7. CASE ~ (requests[r].status = "approved" /\ status = "expired")
  BY <1>4, <1>5, <1>7, AskedStays DEF Promise!vars, OnlyRow
<1> QED BY <1>6, <1>7

(* An approval is one of QuorumGate, which may open the gate; a denial may *)
(* shut it.                                                                *)
LEMMA CommitDecides ==
  ASSUME Inv, Inv', NEW h \in Voters, VoteCommit(h)
  PROVE  [Promise!Next]_(Promise!vars)
<1> PICK v : v = vote[h]
  OBVIOUS
<1> DEFINE r == v.request
           a == v.approver
           after == FlushRequest(requests[r], v.row, Decided(v.row, v.decision))
<1>1. CASE decisions[r][a] # "none"
  <2>1. UNCHANGED <<requests, decisions, passed>>
    BY <1>1 DEF VoteCommit
  <2>2. \A s \in Requests : Asks(s)' = Asks(s) /\ Approvers(s)' = Approvers(s)
    BY <2>1 DEF Asks, Approvers
  <2> QED BY <2>1, <2>2 DEF Promise!vars
<1>2. CASE decisions[r][a] = "none"
  <2>1. v \in Vote /\ BallotSound(v) /\ v.at = "commit"
    BY Busy DEF VoteCommit, Inv, HeldSound
  <2>2. r \in Requests /\ a \in Actors /\ v.decision \in {"approve", "deny"}
        /\ v.row \in RequestRow
    BY <2>1 DEF Vote
  <2>3. RowTyped(r) /\ RowSound(r) /\ RowSound(r)' /\ requests' \in [Requests -> RequestRow]
    BY <2>2, InvTables DEF TablesSound, Inv, TypeOK
  <2>4. /\ requests' = [requests EXCEPT ![r] = after]
        /\ decisions' = [decisions EXCEPT ![r][a] = v.decision]
        /\ UNCHANGED passed
    BY <1>2 DEF VoteCommit
  <2>5. /\ v.row.status = "pending" /\ v.row.required = requests[r].required
        /\ v.row.count < v.row.required /\ requests[r].status # "absent"
        /\ a # requests[r].actor
    BY <2>1 DEF BallotSound, Exists
  <2>6. /\ after.status # "absent"
        /\ after.actor = requests[r].actor /\ after.target = requests[r].target
        /\ after.required = requests[r].required
        /\ v.decision = "deny" => after.status \in {"denied", requests[r].status}
        /\ v.decision = "approve" =>
             after.status = requests[r].status \/ after.status = "approved"
    BY <2>2, <2>3, <2>5, DecidedFlush DEF RowTyped, RowSound
  <2> HIDE DEF after
  <2>7. /\ decisions'[r] = [decisions[r] EXCEPT ![a] = v.decision]
        /\ \A s \in Requests \ {r} : decisions'[s] = decisions[s]
        /\ requests'[r] = after
        /\ \A s \in Requests \ {r} : requests'[s] = requests[s]
    BY <2>2, <2>4 DEF Inv, TypeOK
  <2>8. \A s \in Requests \ {r} : Approvers(s)' = Approvers(s)
    BY <2>7 DEF Approvers
  <2>9. Approvers(r)' = IF v.decision = "approve" THEN Approvers(r) \cup {a}
                        ELSE Approvers(r)
    BY <1>2, <2>2, <2>3, <2>7 DEF Approvers, RowTyped
  <2>10. OnlyRow(r)
    BY <2>2, <2>3, <2>4, <2>5, <2>6, <2>7, <2>8 DEF OnlyRow, Exists
  <2>11. a \notin Approvers(r)
    BY <1>2 DEF Approvers
  <2>12. CASE v.decision = "approve"
    <3>1. [s \in Requests |-> Approvers(s)]'
            = [[s \in Requests |-> Approvers(s)] EXCEPT ![r] = @ \cup {a}]
      BY <2>2, <2>8, <2>9, <2>12
    <3>2. requests'[r].status = "approved" =>
            Cardinality(Approvers(r)') >= requests[r].required
      BY <2>3, <2>6, <2>7 DEF RowSound
    <3>3. \/ UNCHANGED {s \in Requests : requests[s].status = "approved"}
          \/ /\ requests'[r].status = "approved"
             /\ {s \in Requests : requests[s].status = "approved"}'
                  = {s \in Requests : requests[s].status = "approved"} \cup {r}
      BY <2>2, <2>6, <2>7, <2>12
    <3>4. Promise!Approve(r, a)
      BY <2>2, <2>5, <2>10, <2>11, <3>1, <3>2, <3>3, AskedStays, SameCardinality
         DEF Promise!Approve, Promise!Nothing, OnlyRow
    <3> QED BY <2>2, <3>4 DEF Promise!Next
  <2>13. CASE v.decision = "deny"
    <3>1. [s \in Requests |-> Approvers(s)]' = [s \in Requests |-> Approvers(s)]
      BY <2>8, <2>9, <2>13
    <3>2. CASE requests[r].status = "approved" /\ after.status = "denied"
      <4>1. Promise!Shut(r)
        BY <2>2, <2>7, <2>10, <3>1, <3>2, AskedStays DEF Promise!Shut, OnlyRow
      <4> QED BY <2>2, <4>1 DEF Promise!Next
    <3>3. CASE ~ (requests[r].status = "approved" /\ after.status = "denied")
      BY <2>2, <2>6, <2>7, <2>10, <2>13, <3>1, <3>3, AskedStays DEF Promise!vars, OnlyRow
    <3> QED BY <3>2, <3>3
  <2> QED BY <2>2, <2>12, <2>13
<1> QED BY <1>1, <1>2

(* A new request asks for what its caller asked of the policy.             *)
LEMMA CreationAsks ==
  ASSUME Inv, NEW h \in Callers, NEW r \in Requests, GateCreate(h, r)
  PROVE  Promise!Next
<1> DEFINE row == Created(gate[h])
<1>1. gate[h] \in Gate /\ gate[h].policy.required > 0
  BY Busy DEF GateCreate, Inv, PoliciesAsk
<1>2. /\ row.status = "pending" /\ row.actor \in Actors /\ row.target \in Targets
      /\ row.required \in Nat \ {0}
  BY <1>1 DEF Created, Gate, PolicyRow
<1>3. /\ requests' = [requests EXCEPT ![r] = row] /\ decisions' = decisions /\ UNCHANGED passed
      /\ requests[r].status = "absent"
  BY DEF GateCreate
<1> HIDE DEF row
<1>4. requests'[r] = row /\ \A s \in Requests \ {r} : requests'[s] = requests[s]
  BY <1>3 DEF Inv, TypeOK
<1>5. \A s \in Requests : Approvers(s)' = Approvers(s)
  BY <1>3 DEF Approvers
<1>6. /\ Asks(r) = [quorum |-> 0] /\ \A s \in Requests \ {r} : Asks(s)' = Asks(s)
      /\ Asks(r)' = [actor |-> row.actor, target |-> row.target, quorum |-> row.required]
  BY <1>2, <1>3, <1>4 DEF Asks
<1> DEFINE asked == [s \in Requests |-> Asks(s)]
<1>7. asked' = [asked EXCEPT ![r] = asked'[r]] /\ asked'[r] = Asks(r)'
  BY <1>6
<1>8. Asks(r)' \in Promise!Demand
  BY <1>2, <1>6 DEF Promise!Demand
<1>9. /\ UNCHANGED [s \in Requests |-> Approvers(s)]
      /\ UNCHANGED {s \in Requests : requests[s].status = "approved"}
  BY <1>2, <1>3, <1>4, <1>5
<1>10. Promise!Ask(r)
  BY <1>3, <1>6, <1>7, <1>8, <1>9 DEF Promise!Ask, Promise!Nothing
<1> QED BY <1>10 DEF Promise!Next

(* Whoever passes does so through a gate that is open.                     *)
LEMMA PassageIsPass ==
  ASSUME Inv, NEW h \in Callers, GateLook(h)
  PROVE  [Promise!Next]_(Promise!vars)
<1> DEFINE r == gate[h].request
<1>1. UNCHANGED <<requests, decisions>>
  BY DEF GateLook, tables
<1>2. \A s \in Requests : Asks(s)' = Asks(s) /\ Approvers(s)' = Approvers(s)
  BY <1>1 DEF Asks, Approvers
<1>3. CASE UNCHANGED passed
  BY <1>1, <1>2, <1>3 DEF Promise!vars
<1>4. CASE ~ UNCHANGED passed
  <2>1. /\ Opens(requests[r], gate[h])
        /\ passed' = passed \cup
             {[actor |-> gate[h].actor, target |-> gate[h].target, request |-> r]}
    BY <1>4 DEF GateLook
  <2>2. r \in Requests
    BY DEF GateLook, Inv, HeldSound
  <2>3. /\ requests[r].status = "approved" /\ Asks(r).actor = gate[h].actor
        /\ Asks(r).target = gate[h].target
    BY <2>1 DEF Opens, Asks
  <2>4. Promise!Pass(r)
    BY <1>1, <1>2, <2>1, <2>2, <2>3 DEF Promise!Pass
  <2> QED BY <2>2, <2>4 DEF Promise!Next
<1> QED BY <1>3, <1>4

LEMMA GateRefines ==
  ASSUME Inv, Inv', [Next]_vars
  PROVE  [Promise!Next]_(Promise!vars)
<1>1. ASSUME UNCHANGED <<requests, decisions, passed>>
      PROVE  [Promise!Next]_(Promise!vars)
  <2>1. \A s \in Requests : Asks(s)' = Asks(s) /\ Approvers(s)' = Approvers(s)
    BY <1>1 DEF Asks, Approvers
  <2> QED BY <1>1, <2>1 DEF Promise!vars
<1>2. ASSUME NEW h \in Voters, VoteExpire(h)
      PROVE  [Promise!Next]_(Promise!vars)
  <2>1. vote[h] \in Vote /\ BallotSound(vote[h])
    BY <1>2, Busy DEF VoteExpire, Inv, HeldSound
  <2> QED BY <1>2, <2>1, ExpiryShuts DEF VoteExpire, Vote, BallotSound
<1>3. ASSUME NEW h \in Readers, LookExpire(h)
      PROVE  [Promise!Next]_(Promise!vars)
  <2>1. look[h] \in Look /\ Exists(look[h].request)
    BY <1>3, Busy DEF LookExpire, Inv, HeldSound
  <2> QED BY <1>3, <2>1, ExpiryShuts DEF LookExpire, Look
<1>4. ASSUME NEW h \in Callers, GateExpire(h)
      PROVE  [Promise!Next]_(Promise!vars)
  <2>1. gate[h] \in Gate /\ gate[h].request \in Requests /\ Exists(gate[h].request)
    BY <1>4, Busy DEF GateExpire, Inv, HeldSound
  <2> QED BY <1>4, <2>1, ExpiryShuts DEF GateExpire, Gate
<1>5. CASE UNCHANGED vars
  BY <1>1, <1>5 DEF vars, tables
<1>6. CASE Next
  BY <1>1, <1>2, <1>3, <1>4, <1>6, CommitDecides, CreationAsks, PassageIsPass
  DEF Next, BecomeOverdue, EditRead, EditWrite, VoteRead, VotePolicy, VoteExisting,
      LookRead, GateRead, HandlerDropped, tables
<1> QED BY <1>5, <1>6

(* However many sessions decide, expire and look at once, the approvals    *)
(* are to the operations behind them the gate of QuorumGate.               *)
THEOREM ApprovalsImplementGate == Spec => ImplementsGate
<1>1. Init => Promise!Init
  <2> SUFFICES ASSUME Init PROVE Promise!Init
    OBVIOUS
  <2>1. \A r \in Requests : Asks(r) = [quorum |-> 0] /\ Approvers(r) = {}
    BY DEF Init, Asks, NoRow, Approvers
  <2> QED BY <2>1 DEF Init, NoRow, Promise!Init, Promise!Nothing
<1>2. Inv /\ Inv' /\ [Next]_vars => [Promise!Next]_(Promise!vars)
  BY GateRefines
<1> QED BY <1>1, <1>2, Invariance, PTL DEF Spec, ImplementsGate, Promise!Spec
=============================================================================
