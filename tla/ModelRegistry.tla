--------------------------- MODULE ModelRegistry ---------------------------
(***************************************************************************)
(* The versions of one model key (app/services/ml/model_registry.py) and   *)
(* everything that moves them: registration, training pipelines,           *)
(* validation, activation, promotion of a challenger, manual and automatic *)
(* rollback, retirement.  Keys do not touch one another.                   *)
(*                                                                         *)
(* A step ends at an await.  Activation is the one transaction of the      *)
(* application with two statements: the UPDATE that demotes the active     *)
(* versions sees what was committed when it began, waits for the rows that *)
(* another transaction has updated, looks at them again, and keeps its own *)
(* until the commit (READ COMMITTED).  What production feedback, canary    *)
(* comparisons and drift checks say of a version can differ at every read  *)
(* and is left open; a refusal on their account ends a session early, as   *)
(* Dropped does.                                                           *)
(***************************************************************************)
EXTENDS Naturals, FiniteSets, Orm

CONSTANTS
  MaxVersion,    (* bound: versions registered under the key               *)
  Activators,    (* sessions of the routes that can activate a version     *)
  Clerks,        (* sessions that register, validate and retire versions   *)
  Nobody         (* no session                                             *)

ASSUME VersionsAssumption == MaxVersion \in Nat
ASSUME SessionsAssumption ==
  /\ Activators \cap Clerks = {}
  /\ Nobody \notin Activators \cup Clerks
  /\ IsFiniteSet(Activators)

VARIABLES
  models,        (* table ml_model_versions                                *)
  session,       (* what each handler has read and where it is             *)
  vouched,       (* history: versions that have passed a validation        *)
  answered       (* history: the session that last activated each version  *)

vars == <<models, session, vouched, answered>>

Versions == 1 .. MaxVersion
Sessions == Activators \cup Clerks
-----------------------------------------------------------------------------
Verdicts == {"none", "failed", "passed"}
Statuses == {"absent", "registered", "active", "retired"}
Row == [status : Statuses, validated : Verdicts]
NoRow == [status |-> "absent", validated |-> "none"]

Active == {v \in Versions : models[v].status = "active"}
Registered == {v \in Versions : models[v].status # "absent"}

(* One more than the highest version.  (A definition named for what it     *)
(* does wrong is a mutant of the one after it.)                            *)
IsNextVersion(n) == n \in Nat \ {0} /\ Registered = 1 .. (n - 1)

(* activate_model refuses a retired version and one without a passed       *)
(* validation.                                                             *)
VettedThoughRetired(row) == row.status # "absent" /\ row.validated = "passed"

Vetted(row) == row.status \in {"registered", "active"} /\ row.validated = "passed"

(* `rows`: what the demoting UPDATE has found and, at "commit", has        *)
(* locked.                                                                 *)
Idle == [at |-> "idle", version |-> 0, row |-> NoRow, rows |-> {}]
Places == {"idle", "fetch", "rollback", "choose", "retrain", "count", "insert", "judge",
           "demote", "lock", "commit", "validate", "retire"}
Session == [at : Places, version : 0 .. MaxVersion + 1, row : Row, rows : SUBSET Versions]

At(h, place) == session[h].at = place
Goes(h, place, v, row) ==
  session' = [session EXCEPT ![h] = [at |-> place, version |-> v, row |-> row, rows |-> {}]]
Ends(h) == session' = [session EXCEPT ![h] = Idle]

(* A commit waits while another transaction has updated its row.           *)
Locked(h) == IF session[h].at = "commit" THEN session[h].rows ELSE {}
Free(h, v) == \A g \in Sessions \ {h} : v \notin Locked(g)

Init ==
  /\ models = [v \in Versions |-> NoRow]
  /\ session = [h \in Sessions |-> Idle]
  /\ vouched = {}
  /\ answered = [v \in Versions |-> Nobody]
-----------------------------------------------------------------------------
(***************************************************************************)
(* Registration, by a client or by a training pipeline.                    *)
(***************************************************************************)

(* run_training_pipeline begins with get_active_model, which raises when   *)
(* there are two; the multi-feature route and create_model do not, and     *)
(* start with RegisterRead.                                                *)
PipelineBegins(h) ==
  /\ Cardinality(Active) <= 1
  /\ Goes(h, "count", 0, NoRow)
  /\ UNCHANGED <<models, vouched, answered>>

TrainRead(h) == At(h, "idle") /\ PipelineBegins(h)

(* run_controlled_auto_retraining, once the version that was active has    *)
(* drifted.                                                                *)
Retrain(h) == At(h, "retrain") /\ PipelineBegins(h)

(* register_model, the SELECT.                                             *)
NextVersionRead(h) ==
  /\ \E n \in Versions : IsNextVersion(n) /\ Goes(h, "insert", n, NoRow)
  /\ UNCHANGED <<models, vouched, answered>>

PipelineRead(h) == At(h, "count") /\ NextVersionRead(h)

RegisterRead(h) == At(h, "idle") /\ NextVersionRead(h)

(* The unique version lets one of two registrations through.  A client's   *)
(* metadata may already hold a validation.                                 *)
RegisterInsert(h) ==
  LET v == session[h].version IN
    /\ At(h, "insert")
    /\ \/ /\ v \notin Registered
          /\ \E verdict \in (IF h \in Clerks THEN Verdicts ELSE {"none"}) :
               LET row == [status |-> "registered", validated |-> verdict] IN
                 /\ models' = [models EXCEPT ![v] = row]
                 /\ vouched' = IF verdict = "passed" THEN vouched \cup {v} ELSE vouched
                 /\ IF h \in Clerks THEN Ends(h) ELSE Goes(h, "judge", v, row)
       \/ v \in Registered /\ Ends(h) /\ UNCHANGED <<models, vouched>>
    /\ UNCHANGED answered

(* record_validation replaces the validation in the metadata.              *)
Judged(v, passed) ==
  /\ models' = [models EXCEPT ![v].validated = IF passed THEN "passed" ELSE "failed"]
  /\ vouched' = IF passed THEN vouched \cup {v} ELSE vouched

(* A pipeline validates its own version, on the object it inserted, and    *)
(* goes on to activate it if it is asked to and the evaluation passed.     *)
TrainJudge(h, passed) ==
  LET v == session[h].version IN
    /\ At(h, "judge")
    /\ Free(h, v)
    /\ Judged(v, passed)
    /\ \/ Ends(h)
       \/ passed /\ Goes(h, "demote", v, [session[h].row EXCEPT !.validated = "passed"])
    /\ UNCHANGED answered
-----------------------------------------------------------------------------
(***************************************************************************)
(* The ways to activate_model.                                             *)
(***************************************************************************)

(* activate_model_with_production_gate: the second get_model returns the   *)
(* object of the first.                                                    *)
Fetched(h, v) ==
  /\ Vetted(models[v])
  /\ Goes(h, "demote", v, models[v])
  /\ UNCHANGED <<models, vouched, answered>>

Fetch(h, v) == At(h, "idle") /\ Fetched(h, v)

(* promote_challenger: the snapshot's champion is the highest active       *)
(* version; a lower version is no challenger.  Its objects are gone before *)
(* get_model reads the version again.                                      *)
PromoteList(h, v) ==
  /\ At(h, "idle")
  /\ models[v] = [status |-> "registered", validated |-> "passed"]
  /\ Active = {} \/ \E champion \in Active : v > champion /\ \A u \in Active : u <= champion
  /\ Goes(h, "fetch", v, NoRow)
  /\ UNCHANGED <<models, vouched, answered>>

PromoteFetch(h) == At(h, "fetch") /\ Fetched(h, session[h].version)

(* rollback_model, evaluate_auto_rollback and the controlled retraining    *)
(* need an active version; get_active_model raises when there are two.     *)
ActiveRead(h, place) ==
  /\ At(h, "idle")
  /\ place \in {"rollback", "choose", "retrain"}
  /\ \E v \in Versions : Active = {v} /\ Goes(h, place, v, NoRow)
  /\ UNCHANGED <<models, vouched, answered>>

Earlier(h) == {v \in Versions : /\ v < session[h].version
                                /\ models[v].status \in {"registered", "active"}}

(* The manual rollback takes the latest earlier version that is not        *)
(* retired, and fails if that one has not been validated.                  *)
RollbackListUnvetted(h) ==
  /\ At(h, "rollback")
  /\ \E v \in Earlier(h) :
       /\ \A u \in Earlier(h) : u <= v
       /\ Goes(h, "demote", v, models[v])
  /\ UNCHANGED <<models, vouched, answered>>

RollbackList(h) ==
  /\ At(h, "rollback")
  /\ \E v \in Earlier(h) :
       /\ \A u \in Earlier(h) : u <= v
       /\ Vetted(models[v])
       /\ Goes(h, "demote", v, models[v])
  /\ UNCHANGED <<models, vouched, answered>>

(* The automatic one takes the latest that was validated and passes its    *)
(* gate, which any of them may.                                            *)
AutoRollbackList(h) ==
  /\ At(h, "choose")
  /\ \E v \in Earlier(h) : Vetted(models[v]) /\ Goes(h, "demote", v, models[v])
  /\ UNCHANGED <<models, vouched, answered>>
-----------------------------------------------------------------------------
(***************************************************************************)
(* activate_model after its checks.                                        *)
(***************************************************************************)

DemoteOlder(h) ==
  /\ At(h, "demote")
  /\ session' = [session EXCEPT ![h].at = "lock",
                                ![h].rows = {v \in Active : v < session[h].version}]
  /\ UNCHANGED <<models, vouched, answered>>

(* The UPDATE begins: it sees what is committed now.                       *)
Demote(h) ==
  /\ At(h, "demote")
  /\ session' = [session EXCEPT ![h].at = "lock",
                                ![h].rows = Active \ {session[h].version}]
  /\ UNCHANGED <<models, vouched, answered>>

(* It updates those that are still active once nobody else holds them.     *)
Lock(h) ==
  /\ At(h, "lock")
  /\ \A v \in session[h].rows : Free(h, v)
  /\ session' = [session EXCEPT ![h].at = "commit", ![h].rows = @ \cap Active]
  /\ UNCHANGED <<models, vouched, answered>>

(* The flush of the target and the commit.  A target that was loaded as    *)
(* active does not get its status written.                                 *)
Activate(h) ==
  LET s == session[h] IN
    /\ At(h, "commit")
    /\ Free(h, s.version)
    /\ models' = [v \in Versions |->
                    [models[v] EXCEPT !.status =
                       IF v = s.version THEN Written(@, s.row.status, "active")
                       ELSE IF v \in s.rows THEN "registered" ELSE @]]
    /\ answered' = [answered EXCEPT ![s.version] = h]
    /\ Ends(h)
    /\ UNCHANGED vouched
-----------------------------------------------------------------------------
(***************************************************************************)
(* record_validation by the evaluation route, and retire_model.            *)
(***************************************************************************)

ClerkReads(h, place, v) ==
  /\ At(h, "idle")
  /\ v \in Registered
  /\ Goes(h, place, v, models[v])
  /\ UNCHANGED <<models, vouched, answered>>

ValidateRead(h, v) == models[v].status # "retired" /\ ClerkReads(h, "validate", v)

ValidateCommit(h, passed) ==
  LET v == session[h].version IN
    /\ At(h, "validate")
    /\ Free(h, v)
    /\ Judged(v, passed)
    /\ Ends(h)
    /\ UNCHANGED answered

RetireRead(h, v) == ClerkReads(h, "retire", v)

RetireCommit(h) ==
  LET s == session[h] IN
    /\ At(h, "retire")
    /\ Free(h, s.version)
    /\ models' = [models EXCEPT ![s.version].status = Written(@, s.row.status, "retired")]
    /\ Ends(h)
    /\ UNCHANGED <<vouched, answered>>

(* A check fails, the request timeout strikes or the database breaks a     *)
(* deadlock: the transaction is rolled back.                               *)
Dropped(h) ==
  /\ session[h] # Idle
  /\ Ends(h)
  /\ UNCHANGED <<models, vouched, answered>>

Next ==
  \/ \E h \in Sessions : RegisterRead(h) \/ RegisterInsert(h) \/ Dropped(h)
  \/ \E h \in Activators :
       \/ TrainRead(h) \/ Retrain(h) \/ PipelineRead(h)
       \/ \E passed \in BOOLEAN : TrainJudge(h, passed)
       \/ \E v \in Versions : Fetch(h, v) \/ PromoteList(h, v)
       \/ PromoteFetch(h)
       \/ \E place \in {"rollback", "choose", "retrain"} : ActiveRead(h, place)
       \/ RollbackList(h) \/ AutoRollbackList(h)
       \/ Demote(h) \/ Lock(h) \/ Activate(h)
  \/ \E h \in Clerks :
       \/ \E v \in Versions : ValidateRead(h, v) \/ RetireRead(h, v)
       \/ \E passed \in BOOLEAN : ValidateCommit(h, passed)
       \/ RetireCommit(h)

Spec == Init /\ [][Next]_vars
-----------------------------------------------------------------------------
(***************************************************************************)
(* Properties.                                                             *)
(***************************************************************************)

(* The table and the sessions hold what their columns and locals may hold, *)
(* and versions are numbered without gaps.                                 *)
TypeOK ==
  /\ models \in [Versions -> Row]
  /\ session \in [Sessions -> Session]
  /\ vouched \subseteq Versions
  /\ answered \in [Versions -> Sessions \cup {Nobody}]
  /\ \A u, v \in Versions : u < v /\ v \in Registered => u \in Registered

(* Overlapping activations can leave several versions active, but each     *)
(* session demotes its own former version with the next one it activates,  *)
(* whatever other sessions demoted, rolled back or retired in between: no  *)
(* two active versions were activated last by the same session.  With one  *)
(* such session, which is how the tests use the registry, one version is   *)
(* active at most.                                                         *)
OneActivePerSession ==
  \A u, v \in Active : answered[u] = answered[v] => u = v

(* No version is active that has never passed a validation, whichever way  *)
(* it became active and whatever was validated, retired or rolled back     *)
(* meanwhile.                                                              *)
ActiveWasVouched == Active \subseteq vouched

(* A retired version comes back only through an activation that read it    *)
(* before it was retired.                                                  *)
RetirementSticks ==
  [][\A v \in Versions :
       models[v].status = "retired" /\ models'[v].status # "retired" =>
         \E h \in Activators :
           At(h, "commit") /\ session[h].version = v /\ session[h].row.status # "retired"]_vars

(* "activation keeps only one active version"                              *)
(* (tests/test_ml_model_registry.py:41).                                   *)
OneActive == Cardinality(Active) <= 1
=============================================================================
