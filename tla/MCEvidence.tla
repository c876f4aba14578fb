----------------------------- MODULE MCEvidence -----------------------------
(* Instances of ModelEvidence for TLC.  A story limits what fills the log  *)
(* and how far, and who reads it; every action is in one of them.          *)
EXTENDS ModelEvidence

CONSTANTS
  c1, c2         (* clients                                                *)

VARIABLE
  story          (* which one is told                                      *)

Kinds == [v \in Models |-> IF v = 2 THEN "linear" ELSE "logistic"]
Metrics == [v \in Models |-> IF v = 2 THEN {2} ELSE {80}]
Default(output) == [output |-> output, threshold |-> 50]
Pure(output, canary) ==
  [primary |-> Default(output), canary |-> {Default(canary)}, percentage |-> 0, bucket |-> {},
   fallback |-> <<>>, shadows |-> {}]

(* How many rows, about which versions, by whose requests.                 *)
Lengths == [repeats |-> 4, outcomes |-> 3, checks |-> 3, servings |-> 1,
            canaries |-> 3, alarms |-> 3]
Cast == [repeats |-> {1}, outcomes |-> {1, 2}, checks |-> {1, 2, 3}, servings |-> {0, 1},
         canaries |-> {2, 3}, alarms |-> {1}]
Crowd == [repeats |-> Clients, outcomes |-> Clients, checks |-> {c1}, servings |-> {},
          canaries |-> {c1}, alarms |-> {c1}]

Init == story \in DOMAIN Lengths /\ EvidenceInit /\ Active \subseteq Cast[story]

Told ==
  \/ story = "repeats" /\ FeedbackStep
  \/ story = "outcomes" /\ (FeedbackStep \/ DecisionStep)
  \/ story = "checks" /\ (CheckStep \/ DecisionStep)
  \/ story = "servings" /\ log = <<>> /\ ServingStep
  \/ story = "canaries" /\ DecisionStep
  \/ story = "canaries" /\ \E v \in Models, r \in {Pure(10, 75), Pure(75, 75)} : Serve(r, v)
  \/ story = "alarms" /\ (FeedbackStep \/ CheckStep \/ AlarmStep)

Next ==
  /\ Told
  /\ UNCHANGED story
  /\ Len(log') <= Lengths[story]
  /\ \A i \in DOMAIN log' : log'[i].kind # "other" => log'[i].version \in Cast[story]
  /\ \A i \in DOMAIN log' : log'[i].kind = "prediction" /\ story = "alarms" => log'[i].bad = 0
  /\ \A c \in Clients \ Crowd[story] : request'[c] = NoRequest
  /\ \A v \in Models : standing'[v] # standing[v] =>
       v \in Cast[story] /\ (story = "outcomes" \/ standing'[v] # "retired")

storyVars == <<evidenceVars, story>>

(* A job that is due is run, and one whose attempt failed is tried again.  *)
Spec ==
  /\ Init /\ [][Next]_storyVars
  /\ WF_storyVars(story = "alarms" /\ EvaluationStep /\ UNCHANGED story)

AlarmsLast == story = "alarms" => FindingsAreAlerted
DriftEndsTheWatch == story = "alarms" => DriftEndsTheJob
=============================================================================
