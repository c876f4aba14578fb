--------------------------- MODULE ModelEvidence ---------------------------
(***************************************************************************)
(* What the audit log says of the versions of one model key, and what is   *)
(* decided by it: ground-truth feedback (app/services/ml/feedback.py), the *)
(* production gate (production_performance.py), promotion                  *)
(* (champion_challenger.py), automatic rollback (auto_rollback.py) and the *)
(* health alerts (health_dashboard.py, health_alerts.py).                  *)
(*                                                                         *)
(* The log only grows.  Its readers see the newest `limit` rows of it:     *)
(* promotion, rollback and the alerts the newest rows of all actions, the  *)
(* gate of an activation the newest feedback.  ModelRegistry takes the     *)
(* activations apart; here one step lists the versions and one activates.  *)
(***************************************************************************)
EXTENDS Integers, Sequences, FiniteSets, FiniteSetsExt, ServingPolicy, Orm

CONSTANTS
  Models,        (* the versions, all registered and validated             *)
  Algorithm,     (* of each: "logistic", "linear", or another one          *)
  Validation,    (* of each: its validation metric, accuracy in percent or *)
                 (* rmse, or none                                          *)
  Clients,       (* requests                                               *)
  MinFeedback, MaxDegradation,       (* of the gate, the latter in percent *)
  MinPredictions, MaxLowRate,        (* of automatic rollback, in percent  *)
  MinCanary,                         (* of promotion                       *)
  SquaredErrors,                     (* of feedback on linear models       *)
  AuditLimit, FeedbackLimit, AlertLimit,      (* rows that the readers see *)
  Watched,       (* findings that are followed                             *)
  Attempts,      (* max_attempts of the job that evaluates them            *)
  MaxLog         (* bound: rows of the log                                 *)

ASSUME EvidenceAssumption ==
  /\ Models \subseteq Nat \ {0}
  /\ \A v \in Models : Validation[v] \in SUBSET Nat /\ Cardinality(Validation[v]) <= 1
  /\ {MinFeedback, MaxDegradation, MinPredictions, MaxLowRate, MinCanary} \subseteq Nat
  /\ {AuditLimit, FeedbackLimit, AlertLimit, MaxLog} \subseteq Nat
  /\ MinFeedback > 0 /\ MinPredictions > 0 /\ Attempts \in Nat \ {0}
  /\ IsFiniteSet(Clients) /\ SquaredErrors \subseteq Nat

VARIABLES
  log,           (* table audit_events                                     *)
  standing,      (* status of each version                                 *)
  request,       (* what each client's request has in hand                 *)
  alarm,         (* alerts of the policy ml-health, by what was found      *)
  policy,        (* the triggers of that policy, none while it is disabled *)
  job,           (* the job that evaluates: "due", "done" or "stuck" before*)
                 (* another attempt, or "ended"                            *)
  answer         (* history: the last answer of the serving policy         *)

evidenceVars == <<log, standing, request, alarm, policy, job, answer>>
-----------------------------------------------------------------------------
(* A row: what happened to which version, how bad it was (feedback: the    *)
(* squared error, or 1 for a wrong class; a prediction: 1 if it was not    *)
(* sure; a drift check: 1 if it found drift; serving: how far the canary   *)
(* was from the primary), and for feedback the row of its prediction.      *)
Event(kind, v, bad, of) == [kind |-> kind, version |-> v, bad |-> bad, of |-> of]
Recorded(event) == Len(log) < MaxLog /\ log' = Append(log, event)

(* What a reader has of the log is the function that remains of it.        *)
Newest(rows, limit) ==
  Restrict(rows, {i \in DOMAIN rows : Cardinality({j \in DOMAIN rows : i <= j}) <= limit})
AuditRows == Newest(log, AuditLimit)
FeedbackIn(rows) == RestrictDomain(rows, LAMBDA i : rows[i].kind = "feedback")
FeedbackRows == Newest(FeedbackIn(log), FeedbackLimit)
Before(n) == Restrict(log, 1 .. n)

Of(kind, v, rows) == RestrictDomain(rows, LAMBDA i : rows[i].kind = kind /\ rows[i].version = v)
Number(rows) == Cardinality(DOMAIN rows)
Badness(rows) == MapThenSumSet(LAMBDA i : rows[i].bad, DOMAIN rows)

Active == {v \in Models : standing[v] = "active"}
Judgeable(v) == Algorithm[v] \in {"logistic", "linear"}
Errors(v) == IF Algorithm[v] = "logistic" THEN {0, 1} ELSE SquaredErrors

NoRequest == [at |-> "idle"]
Ends(c) == request' = [request EXCEPT ![c] = NoRequest]

EvidenceInit ==
  /\ log = <<>>
  /\ standing \in {[v \in Models |-> IF v = a THEN "active" ELSE "registered"] : a \in Models}
  /\ request = [c \in Clients |-> NoRequest]
  /\ alarm = [f \in Watched |-> "none"]
  /\ policy = {}
  /\ job = "ended"
  /\ answer = {}
-----------------------------------------------------------------------------
(* evaluate_production_performance: too little feedback and a missing      *)
(* metric pass.  Without the division and the root:                        *)
(*   (metric - accuracy) / metric > MaxDegradation / 100                   *)
(*   (rmse - metric) / metric > MaxDegradation / 100                       *)
Degraded(v, rows) ==
  LET given == Of("feedback", v, rows)
      n == Number(given)
      bad == Badness(given)
  IN /\ n >= MinFeedback
     /\ \E metric \in Validation[v] :
          IF Algorithm[v] = "logistic"
          THEN 100 * (metric * n - 100 * (n - bad)) > MaxDegradation * metric * n
          ELSE 10000 * bad > n * metric * metric * (100 + MaxDegradation) * (100 + MaxDegradation)

(* The newest drift check of the key, whichever version it checked.        *)
Drifted(rows) ==
  \E i \in DOMAIN rows :
    /\ rows[i].kind = "drift" /\ rows[i].bad = 1
    /\ \A j \in DOMAIN rows : rows[j].kind = "drift" => j <= i

Share(rows, percent) == Number(rows) > 0 /\ 100 * Badness(rows) > percent * Number(rows)
TooOftenUnsure(v, rows) ==
  LET given == Of("prediction", v, rows) IN
    Number(given) >= MinPredictions /\ Share(given, MaxLowRate)

(* collect_canary_evidence, and what lifecycle_snapshot makes of it.       *)
CanaryReady(v, rows) ==
  LET given == Of("serving", v, rows) IN
    /\ Number(given) >= MinCanary
    /\ Badness(given) <= MaxDifference * Number(given)
-----------------------------------------------------------------------------
(***************************************************************************)
(* What fills the log.                                                     *)
(***************************************************************************)

(* predict_and_record, also for a version that is retired.                 *)
Predict(v, unsure) ==
  /\ Judgeable(v)
  /\ Recorded(Event("prediction", v, unsure, 0))
  /\ UNCHANGED <<standing, request, alarm, policy, job, answer>>

(* record_prediction_feedback: the two SELECTs, then the INSERT.           *)
FeedbackOf(i) == {j \in DOMAIN log : log[j].kind = "feedback" /\ log[j].of = i}

LookUpAny(c, i) ==
  /\ request[c] = NoRequest
  /\ log[i].kind = "prediction"
  /\ request' = [request EXCEPT ![c] = [at |-> "insert", of |-> i]]
  /\ UNCHANGED <<log, standing, alarm, policy, job, answer>>

LookUp(c, i) ==
  /\ request[c] = NoRequest
  /\ log[i].kind = "prediction"
  /\ FeedbackOf(i) = {}
  /\ request' = [request EXCEPT ![c] = [at |-> "insert", of |-> i]]
  /\ UNCHANGED <<log, standing, alarm, policy, job, answer>>

Insert(c) ==
  /\ request[c].at = "insert"
  /\ LET v == log[request[c].of].version IN
       \E bad \in Errors(v) : Recorded(Event("feedback", v, bad, request[c].of))
  /\ Ends(c)
  /\ UNCHANGED <<standing, alarm, policy, job, answer>>

(* check_model_drift: the active version is read, and its check recorded   *)
(* when it may no longer be active.                                        *)
CheckDrift(c) ==
  /\ request[c] = NoRequest
  /\ \E v \in Active : request' = [request EXCEPT ![c] = [at |-> "drift", version |-> v]]
  /\ UNCHANGED <<log, standing, alarm, policy, job, answer>>

RecordDrift(c, found) ==
  /\ request[c].at = "drift"
  /\ Recorded(Event("drift", request[c].version, found, 0))
  /\ Ends(c)
  /\ UNCHANGED <<standing, alarm, policy, job, answer>>

(* serving_predict, of the active version and a canary that is not         *)
(* retired.                                                                *)
Serve(r, v) ==
  /\ Served(r)
  /\ standing[v] # "retired" /\ Active # {}
  /\ IF r.canary = {} THEN Recorded(Event("serving", 0, 0, 0))
     ELSE \E m \in r.canary :
            Recorded(Event("serving", v, Distance(m.output, r.primary.output), 0))
  /\ answer' = {Answer(r)}
  /\ UNCHANGED <<standing, request, alarm, policy, job>>

(* Everything else that is audited.                                        *)
Other ==
  /\ Recorded(Event("other", 0, 0, 0))
  /\ UNCHANGED <<standing, request, alarm, policy, job, answer>>
-----------------------------------------------------------------------------
(***************************************************************************)
(* What is decided by it.  `seen` is how much of the log there was when a  *)
(* request decided.                                                        *)
(***************************************************************************)
Decides(c, op, v) ==
  /\ request[c] \in {NoRequest, [at |-> "gate", version |-> v]}
  /\ standing[v] # "retired"
  /\ request' = [request EXCEPT ![c] =
       [at |-> "activate", op |-> op, version |-> v, loaded |-> standing[v], seen |-> Len(log)]]
  /\ UNCHANGED <<log, standing, alarm, policy, job, answer>>

(* activate_model_with_production_gate, for its route and for              *)
(* promote_challenger.                                                     *)
GateAnyway(c, v) == Judgeable(v) /\ Decides(c, "gate", v)

Gate(c, v) ==
  /\ Judgeable(v)
  /\ ~ Degraded(v, FeedbackRows)
  /\ Decides(c, "gate", v)

GateRoute(c, v) == request[c] = NoRequest /\ Gate(c, v)
PromoteGate(c) == request[c].at = "gate" /\ Gate(c, request[c].version)

(* lifecycle_snapshot fails for a key that has a version of another        *)
(* algorithm.  A version below the champion is no challenger.              *)
Promote(c, v) ==
  /\ request[c] = NoRequest
  /\ \A w \in Models : Judgeable(w)
  /\ standing[v] = "registered" /\ \A champion \in Active : v > champion
  /\ ~ Degraded(v, AuditRows)
  /\ CanaryReady(v, AuditRows)
  /\ request' = [request EXCEPT ![c] = [at |-> "gate", version |-> v]]
  /\ UNCHANGED <<log, standing, alarm, policy, job, answer>>

(* evaluate_auto_rollback: the reasons, then the latest earlier version    *)
(* that is not degraded.                                                   *)
RollbackReason(v) ==
  Degraded(v, AuditRows) \/ Drifted(AuditRows) \/ TooOftenUnsure(v, AuditRows)

Earlier(v) == {w \in Models : w < v /\ standing[w] # "retired"}
Eligible(v) == {w \in Earlier(v) : ~ Degraded(w, AuditRows)}

AutoRollback(c) ==
  /\ request[c] = NoRequest
  /\ \E v \in Active :
       /\ \A w \in Earlier(v) \cup {v} : Judgeable(w)
       /\ RollbackReason(v)
       /\ Eligible(v) # {}
       /\ Decides(c, "rollback", Max(Eligible(v)))

(* rollback_model asks for no evidence.                                    *)
ManualRollback(c) ==
  /\ request[c] = NoRequest
  /\ \E v \in Active : Earlier(v) # {} /\ Decides(c, "manual", Max(Earlier(v)))

(* activate_model; an automatic rollback is audited afterwards.            *)
Activate(c) ==
  LET mine == request[c] IN
    /\ mine.at = "activate"
    /\ standing' = [v \in Models |->
         IF v = mine.version THEN Written(standing[v], mine.loaded, "active")
         ELSE IF v \in Active THEN "registered" ELSE standing[v]]
    /\ IF mine.op = "rollback"
       THEN request' = [request EXCEPT ![c] = [at |-> "audit", version |-> mine.version]]
       ELSE Ends(c)
    /\ UNCHANGED <<log, alarm, policy, job, answer>>

AuditRollback(c) ==
  /\ request[c].at = "audit"
  /\ Recorded(Event("rollback", request[c].version, 0, 0))
  /\ Ends(c)
  /\ UNCHANGED <<standing, alarm, policy, job, answer>>

Retire(v) ==
  /\ standing[v] # "retired"
  /\ standing' = [standing EXCEPT ![v] = "retired"]
  /\ UNCHANGED <<log, request, alarm, policy, job, answer>>

(* The request timeout or the database ends a request.                     *)
Dropped(c) ==
  /\ request[c] # NoRequest
  /\ Ends(c)
  /\ UNCHANGED <<log, standing, alarm, policy, job, answer>>
-----------------------------------------------------------------------------
(***************************************************************************)
(* The alerts, as long as no service is registered as "ML", whose polls    *)
(* would resolve them, and no other policy covers what is found.           *)
(***************************************************************************)

(* summarize_ml_health: the predictions, the comparisons with a canary,    *)
(* the active versions whose gate shows them degraded, the latest check.   *)
OnDashboard(rows) ==
  [predictions |-> RestrictDomain(rows, LAMBDA i : rows[i].kind = "prediction"),
   compared |->
     RestrictDomain(rows, LAMBDA i : rows[i].kind = "serving" /\ rows[i].version # 0),
   degraded |-> {v \in Active : Degraded(v, rows)},
   drifted |-> Drifted(rows)]

(* evaluate_ml_health_findings.                                            *)
Findings(rows) ==
  LET shown == OnDashboard(rows)
  IN {f \in Watched :
        \/ f = "low_confidence_rate" /\ Share(shown.predictions, MaxLowRate)
        \/ f = "canary_divergence"
           /\ Badness(shown.compared) > MaxDifference * Number(shown.compared)
        \/ f = "performance_degraded" /\ shown.degraded # {}
        \/ f = "drift_detected" /\ shown.drifted}

(* evaluate_signal: a resolved alert is opened again.                      *)
RaisedOnce(status) == IF status = "none" THEN "open" ELSE status

Raised(status) == IF status \in {"none", "resolved"} THEN "open" ELSE status

(* evaluate_and_raise_ml_alerts creates the policy that it does not find,  *)
(* and raises finding by finding.  What is covered of them:                *)
Ensured == IF policy = {} THEN {Watched} ELSE policy
Triggers == UNION Ensured
AllJudged == \A v \in Active : Judgeable(v)
Found == Findings(Newest(log, AlertLimit))

(* Drift comes last, but for active versions that failed validation, which *)
(* there are none of.  Its details hold the datetime of the check, which   *)
(* cannot be encoded: evaluate_signal raises before it makes an alert.     *)
RaisedFrom(found) ==
  [f \in Watched |-> IF f \in found /\ f # "drift_detected" THEN Raised(alarm[f]) ELSE alarm[f]]

(* POST /v1/ml/alerts/evaluate: its session ends without a commit when     *)
(* evaluate_signal raises.                                                 *)
EvaluateRoute ==
  /\ policy' = Ensured
  /\ alarm' = IF AllJudged THEN RaisedFrom(Found \cap Triggers) ELSE alarm
  /\ UNCHANGED <<log, standing, request, job, answer>>

(* schedule_ml_alerts enqueues the job that repeats itself.                *)
Schedule ==
  /\ job = "ended"
  /\ job' = "due"
  /\ UNCHANGED <<log, standing, request, alarm, policy, answer>>

(* The job.  It succeeds and recurs if there is nothing to tell.           *)
EvaluateQuiet ==
  /\ job = "due" /\ AllJudged
  /\ Found \cap (Triggers \cup {"drift_detected"}) = {}
  /\ policy' = Ensured
  /\ UNCHANGED <<log, standing, request, alarm, job, answer>>

(* An alert or a drift check makes a result that cannot be encoded: the    *)
(* attempt fails, and its key is completed (see module Execution).         *)
EvaluateTells ==
  LET found == Found IN
    /\ job = "due" /\ AllJudged
    /\ found \cap (Triggers \cup {"drift_detected"}) # {}
    /\ "drift_detected" \notin found \cap Triggers
    /\ policy' = Ensured
    /\ alarm' = RaisedFrom(found \cap Triggers)
    /\ job' = IF Attempts = 1 THEN "ended" ELSE "done"
    /\ UNCHANGED <<log, standing, request, answer>>

(* evaluate_signal or the dashboard raises, and the key stays started.     *)
(* The commit of the dead letter writes what evaluate_signal did to a      *)
(* resolved alert of drift before it raised.                               *)
EvaluateFails ==
  LET found == IF AllJudged THEN Found \cap Triggers ELSE {} IN
    /\ job = "due"
    /\ ~ AllJudged \/ "drift_detected" \in found
    /\ policy' = Ensured
    /\ alarm' = [f \in Watched |->
         IF f \in found /\ (f = "drift_detected" => alarm[f] = "resolved") THEN Raised(alarm[f])
         ELSE alarm[f]]
    /\ job' = IF Attempts = 1 THEN "ended" ELSE "stuck"
    /\ UNCHANGED <<log, standing, request, answer>>

(* The next attempt is answered with the completed record, and the job     *)
(* recurs; or all that are left are refused, and it has failed.            *)
TryAnew ==
  /\ job \in {"done", "stuck"}
  /\ job' = "due"
  /\ UNCHANGED <<log, standing, request, alarm, policy, answer>>

TryAgain ==
  /\ job \in {"done", "stuck"}
  /\ job' = IF job = "done" THEN "due" ELSE "ended"
  /\ UNCHANGED <<log, standing, request, alarm, policy, answer>>

EvaluationStep == EvaluateQuiet \/ EvaluateTells \/ EvaluateFails \/ TryAgain

(* It is cancelled, or abandoned by a loop that died.                      *)
JobLost ==
  /\ job' = "ended"
  /\ UNCHANGED <<log, standing, request, alarm, policy, answer>>

(* POST /v1/alerting/evaluate by an operator, with details of his own.     *)
Signal(f) ==
  /\ f \in UNION policy
  /\ alarm' = [alarm EXCEPT ![f] = Raised(@)]
  /\ UNCHANGED <<log, standing, request, policy, job, answer>>

UpsertPolicy ==
  /\ \E triggers \in SUBSET Watched : policy' = {triggers}
  /\ UNCHANGED <<log, standing, request, alarm, job, answer>>

Acknowledge(f) ==
  /\ alarm[f] # "none"
  /\ alarm' = [alarm EXCEPT ![f] = "acknowledged"]
  /\ UNCHANGED <<log, standing, request, policy, job, answer>>

Resolve(f) ==
  /\ alarm[f] # "none"
  /\ alarm' = [alarm EXCEPT ![f] = "resolved"]
  /\ UNCHANGED <<log, standing, request, policy, job, answer>>
-----------------------------------------------------------------------------
FeedbackStep ==
  \/ \E v \in Models : Predict(v, 0)
  \/ \E c \in Clients : Insert(c) \/ \E i \in DOMAIN log : LookUp(c, i)

CheckStep ==
  \/ \E v \in Models, unsure \in {0, 1} : Predict(v, unsure)
  \/ \E c \in Clients : CheckDrift(c) \/ \E found \in {0, 1} : RecordDrift(c, found)
  \/ Other

ServingStep == \E r \in ServingRequest, v \in Models : Serve(r, v)

DecisionStep ==
  \/ \E c \in Clients :
       \/ \E v \in Models : GateRoute(c, v) \/ Promote(c, v)
       \/ PromoteGate(c) \/ AutoRollback(c) \/ ManualRollback(c)
       \/ Activate(c) \/ AuditRollback(c) \/ Dropped(c)
  \/ \E v \in Models : Retire(v)

AlarmStep ==
  \/ EvaluationStep \/ EvaluateRoute \/ Schedule \/ JobLost \/ UpsertPolicy
  \/ \E f \in Watched : Signal(f) \/ Acknowledge(f) \/ Resolve(f)

EvidenceNext == FeedbackStep \/ CheckStep \/ ServingStep \/ DecisionStep \/ AlarmStep

EvidenceSpec == EvidenceInit /\ [][EvidenceNext]_evidenceVars
-----------------------------------------------------------------------------
(***************************************************************************)
(* Properties.                                                             *)
(***************************************************************************)

(* However often the outcome of a prediction is submitted, it counts no    *)
(* more than as many times as requests can be under way together: only     *)
(* requests that overlap can double it.                                    *)
FeedbackIsRationed ==
  \A i \in DOMAIN log : Cardinality(FeedbackOf(i)) <= Cardinality(Clients)

(* A version becomes active by a gate, a promotion or an automatic         *)
(* rollback only if what the request saw of the log when it decided does   *)
(* not show it degraded; nor does anything that was there, as long as the  *)
(* windows of the readers are as long as the log.                          *)
Shown(op, n) ==
  IF op = "rollback" THEN Newest(Before(n), AuditLimit)
  ELSE Newest(FeedbackIn(Before(n)), FeedbackLimit)
Fits(n) == n <= AuditLimit /\ n <= FeedbackLimit
Becomes(v) == standing[v] # "active" /\ standing'[v] = "active"
ActivatedOnItsRecord ==
  [][\A v \in Models : Becomes(v) =>
       \E c \in Clients :
         /\ request[c].at = "activate" /\ request[c].version = v
         /\ request[c].op # "manual" =>
              /\ ~ Degraded(v, Shown(request[c].op, request[c].seen))
              /\ Fits(request[c].seen) => ~ Degraded(v, Before(request[c].seen))]_evidenceVars

(* "Promotion, rollback, serving, and review decisions are explicitly      *)
(* gated" (README.md:30).                                                  *)
RollbackIsGated ==
  [][\A v \in Models, c \in Clients :
       Becomes(v) /\ request[c].at = "activate" /\ request[c].version = v =>
         ~ Degraded(v, Before(request[c].seen))]_evidenceVars

(* What the log keeps showing and the policy covers has an active alert    *)
(* time and again, whatever the operators resolve, as long as the job does *)
(* not end.  Drift has none for itself: it ends the job.                   *)
FindingsAreAlerted ==
  \A f \in Watched \ {"drift_detected"} :
    <>[](job # "ended" /\ f \in Found \cap Triggers) =>
      []<>(alarm[f] \in {"open", "acknowledged"})

(* Drift that the policy covers silences the evaluation: as long as it is  *)
(* shown, the job ends, each time that somebody schedules it again.        *)
DriftEndsTheJob ==
  "drift_detected" \in Watched =>
    (<>[]("drift_detected" \in Found \cap Triggers) => []<>(job = "ended"))

(* Every answer of the serving policy.                                     *)
AnswersAreReviewed == \A a \in answer : UnreviewedAgrees(a) /\ CriticalIsContested(a)
=============================================================================
