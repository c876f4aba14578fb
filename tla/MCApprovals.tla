---------------------------- MODULE MCApprovals ----------------------------
(* Instances of Approvals for TLC.  Ann asks, Bob and Cid may decide.      *)
EXTENDS Approvals, TLC

CONSTANTS ann, bob, cid, ops

RolesHeld == [a \in {ann, bob, cid} |-> IF a = ann THEN {} ELSE {ops}]

Body(required, roles) ==
  [required |-> required, roles |-> roles, covers |-> TRUE, enabled |-> TRUE]

Single == {Body(1, {})}
Eased == {Body(2, {ops}), Body(1, {ops})}

Interchangeable == Permutations({bob, cid}) \cup Permutations(Voters) \cup Permutations(Targets)

(* Edits that write what they read are left out, and so are edits while a  *)
(* reader, or a caller with a request, is under way: these touch requests  *)
(* alone and editors policies.                                             *)
EditsMatter ==
  \A h \in Editors : edit[h] # Idle =>
    /\ edit[h].row # edit[h].body
    /\ \A l \in Readers : look[l] = Idle
    /\ \A g \in Callers : gate[g].at \in {"idle", "create"}
=============================================================================
