SPECIFICATION Spec
CONSTANTS
  c1 = c1
  c2 = c2
  Outputs = {10, 50, 75}
  Thresholds = {50, 80}
  Buckets = {0, 50, 100}
  Models = {1, 2, 3}
  Algorithm <- Kinds
  Validation <- Metrics
  Clients = {c1, c2}
  MinFeedback = 1
  MaxDegradation = 20
  MinPredictions = 2
  MaxLowRate = 50
  MinCanary = 1
  SquaredErrors = {4, 9}
  AuditLimit = 2
  FeedbackLimit = 2
  AlertLimit = 2
  Watched = {"performance_degraded", "drift_detected"}
  Attempts = 2
  MaxLog = 4
INVARIANTS FeedbackIsRationed AnswersAreReviewed
PROPERTIES ActivatedOnItsRecord AlarmsLast DriftEndsTheWatch
CHECK_DEADLOCK FALSE
