--------------------------- MODULE ServingPolicy ---------------------------
(***************************************************************************)
(* How POST /v1/ml/serving/predict answers                                 *)
(* (app/services/ml/serving_policy.py, human_review.py, ensemble.py): the  *)
(* canary or the primary is selected, an ensemble answers in place of a    *)
(* selected model that is not sure, and the rules of human review look at  *)
(* the outcome.                                                            *)
(*                                                                         *)
(* The models are logistic; what a model says of the input is its          *)
(* probability in percent, and its class is that against the threshold of  *)
(* its artifact.  An ensemble has a threshold of its own, also for its     *)
(* members.  Optional parts of a request are sets of at most one element.  *)
(* The bounds of the request are its defaults.                             *)
(***************************************************************************)
EXTENDS Integers, FiniteSets, FiniteSetsExt, Sequences

CONSTANTS
  Outputs,       (* probabilities that models give, in percent             *)
  Thresholds,    (* decision thresholds of artifacts, in percent           *)
  Buckets        (* buckets of routing keys, in percent                    *)

ASSUME OutputsAssumption ==
  Outputs \subseteq 0 .. 100 /\ Thresholds \subseteq 1 .. 99 /\ Buckets \subseteq 0 .. 100

DefaultThreshold == 50        \* of an artifact that names none
EnsembleThreshold == 50
LowConfidence == 70
MinAgreement == 75
MaxDifference == 20

Maybe(S) == {{}} \cup {{e} : e \in S}
Single == [output : Outputs, threshold : Thresholds]
ServingRequest ==
  [primary : Single, canary : Maybe(Single), percentage : {0, 50, 100},
   bucket : Maybe(Buckets),                        \* none without a key
   fallback : UNION {[1 .. n -> Outputs] : n \in 0 .. 2}, shadows : Maybe(Single)]
-----------------------------------------------------------------------------
Class(model) == IF model.output >= model.threshold THEN 1 ELSE 0
Difference(a, b) == a - b

Distance(a, b) == IF a >= b THEN a - b ELSE b - a

Apart(model, other) == Distance(model.output, other.output)

(* estimate_uncertainty: the confidence is the larger probability, whether *)
(* or not it is that of the class.                                         *)
Unsure(model) == model.output < LowConfidence /\ 100 - model.output < LowConfidence

(* The bucket 100 is never below the percentage, not even below 100.       *)
CanarySelected(r) ==
  r.canary # {} /\ \E b \in r.bucket : b < r.percentage

SelectedSingle(r) ==
  CHOOSE model \in (IF CanarySelected(r) THEN r.canary ELSE {r.primary}) : TRUE

FallbackUsed(r) == Unsure(SelectedSingle(r)) /\ r.fallback # <<>>

(* predict_ensemble wants two members; the request fails without them.     *)
Served(r) == FallbackUsed(r) => Len(r.fallback) >= 2

(* The mean of the members, here of equal weights, times their number, and *)
(* how many of them say what the mean says.                                *)
Total(members) == MapThenSumSet(LAMBDA i : members[i], DOMAIN members)
EnsembleClass(members) ==
  IF Total(members) >= EnsembleThreshold * Len(members) THEN 1 ELSE 0
Agreeing(members) ==
  Cardinality({i \in DOMAIN members :
                 (members[i] >= EnsembleThreshold) <=> (EnsembleClass(members) = 1)})

AnsweredClass(r) ==
  IF FallbackUsed(r) THEN EnsembleClass(r.fallback) ELSE Class(SelectedSingle(r))
-----------------------------------------------------------------------------
(* assess_human_review, with what the route hands it.  When the ensemble   *)
(* has answered, there is no selected model to be unsure.                  *)
ReviewReasons(r) ==
  LET Holds ==
        [low_confidence |-> ~ FallbackUsed(r) /\ Unsure(SelectedSingle(r)),
         fallback_ensemble_used |-> FallbackUsed(r),
         low_ensemble_agreement |->
           FallbackUsed(r) /\ 100 * Agreeing(r.fallback) < MinAgreement * Len(r.fallback),
         shadow_divergence |-> \E s \in r.shadows : Apart(s, r.primary) > MaxDifference,
         canary_divergence |-> \E c \in r.canary : Apart(c, r.primary) > MaxDifference]
  IN {reason \in DOMAIN Holds : Holds[reason]}

ReviewSeverity(reasons) ==
  IF "low_confidence" \in reasons /\ Cardinality(reasons) > 1 THEN "critical"
  ELSE IF reasons # {} THEN "warning" ELSE "none"

(* What the route returns and records.                                     *)
Answer(r) ==
  [request |-> r, class |-> AnsweredClass(r), reasons |-> ReviewReasons(r),
   severity |-> ReviewSeverity(ReviewReasons(r))]
-----------------------------------------------------------------------------
(* An answer that no reviewer sees is that of a single model that is sure  *)
(* of it, and the model it is compared with (for a canary the primary, for *)
(* a primary its shadows and the canary) is no farther than MaxDifference. *)
(* Where they say different classes all the same, one of their artifacts   *)
(* has a threshold other than the default, or the model that did not       *)
(* answer stands exactly on it: sure and near means on the same side of    *)
(* the default, for MaxDifference is LowConfidence less that.              *)
UnreviewedAgrees(answer) ==
  answer.reasons = {} =>
    LET r == answer.request
        model == SelectedSingle(r)
    IN /\ answer.class = Class(model) /\ ~ Unsure(model)
       /\ \A other \in IF CanarySelected(r) THEN {r.primary} ELSE r.shadows \cup r.canary :
            /\ Distance(model.output, other.output) <= MaxDifference
            /\ Distance(other.output, model.output) <= MaxDifference
            /\ Class(other) # answer.class =>
                 \/ {model.threshold, other.threshold} # {DefaultThreshold}
                 \/ other.output = DefaultThreshold

(* An answer of the highest severity came from a single model, one that    *)
(* was not sure of it, and something else speaks against it: no ensemble   *)
(* was asked, so another model was far from the primary.                   *)
CriticalIsContested(answer) ==
  answer.severity = "critical" =>
    LET r == answer.request IN
      /\ r.fallback = <<>>
      /\ \E other \in r.shadows \cup r.canary : Apart(other, r.primary) > MaxDifference
=============================================================================
