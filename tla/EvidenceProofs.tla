--------------------------- MODULE EvidenceProofs ---------------------------
(***************************************************************************)
(* What the audit log guarantees for any number of versions and clients    *)
(* and a log of any length: outcomes are rationed, a version becomes       *)
(* active on its record, and answers that no reviewer sees are agreed on.  *)
(***************************************************************************)
EXTENDS ModelEvidence, FiniteSetTheorems, WellFoundedInduction, TLAPS

-----------------------------------------------------------------------------
Statuses == {"registered", "active", "retired"}
Row ==
  [kind : {"prediction", "feedback", "drift", "serving", "other", "rollback"},
   version : Models \cup {0}, bad : Nat, of : Nat]
Request ==
  {NoRequest}
    \cup [at : {"insert"}, of : Nat]
    \cup [at : {"drift", "gate", "audit"}, version : Models]
    \cup [at : {"activate"}, op : {"gate", "rollback", "manual"}, version : Models,
          loaded : Statuses, seen : Nat]

(* What requests have in hand points into the log.                         *)
EvidenceTyped ==
  /\ log \in Seq(Row)
  /\ standing \in [Models -> Statuses]
  /\ request \in [Clients -> Request]
  /\ \A c \in Clients : request[c].at = "insert" => request[c].of \in 1 .. Len(log)
  /\ \A c \in Clients : request[c].at = "activate" => request[c].seen \in 0 .. Len(log)

(* Requests that are about to insert an outcome of the same prediction.    *)
Pending(i) == {c \in Clients : request[c].at = "insert" /\ request[c].of = i}

(* The outcomes of a prediction and the requests that are about to insert  *)
(* one are together not more than the clients: a request begins only when  *)
(* there is no outcome.                                                    *)
Rationed ==
  \A i \in Nat : Cardinality(FeedbackOf(i)) + Cardinality(Pending(i)) <= Cardinality(Clients)

(* A decision in hand rests on what had been seen of the log.              *)
OnRecord(mine) ==
  mine.op # "manual" => ~ Degraded(mine.version, Shown(mine.op, mine.seen))
DecidedOnRecord == \A c \in Clients : request[c].at = "activate" => OnRecord(request[c])

(* What was answered last was an answer to a request that was served.      *)
AnswersServed ==
  answer \subseteq {Answer(r) : r \in {s \in ServingRequest : Served(s)}}

EvidenceInv == EvidenceTyped /\ Rationed /\ DecidedOnRecord /\ AnswersServed
-----------------------------------------------------------------------------
(* The answers.                                                            *)

LEMMA OutputsAreNumbers == \A model \in Single : model.output \in Int
<1>1. Outputs \subseteq Int
  BY OutputsAssumption
<1> QED BY <1>1 DEF Single

(* Sure and near is on the same side of the default threshold.             *)
LEMMA NearKeepsClass ==
  ASSUME NEW model \in Single, NEW other \in Single, ~ Unsure(model),
         Distance(model.output, other.output) <= MaxDifference,
         model.threshold = DefaultThreshold, other.threshold = DefaultThreshold
  PROVE  Class(other) = Class(model) \/ other.output = DefaultThreshold
<1>1. model.output \in Int /\ other.output \in Int
  BY OutputsAreNumbers
<1> QED BY <1>1 DEF Unsure, Distance, Class, LowConfidence, MaxDifference, DefaultThreshold

LEMMA RequestTyped ==
  ASSUME NEW r \in ServingRequest
  PROVE  /\ r.primary \in Single /\ r.canary \subseteq Single /\ r.shadows \subseteq Single
         /\ SelectedSingle(r) \in Single
         /\ CanarySelected(r) => r.canary = {SelectedSingle(r)}
         /\ ~ CanarySelected(r) => SelectedSingle(r) = r.primary
         /\ \A model \in Single : model.output \in Int
<1>1. r.primary \in Single /\ r.canary \in Maybe(Single) /\ r.shadows \in Maybe(Single)
  BY DEF ServingRequest
<1>2. r.canary \subseteq Single /\ r.shadows \subseteq Single
  BY <1>1 DEF Maybe
<1>3. CanarySelected(r) => r.canary = {SelectedSingle(r)}
  <2> SUFFICES ASSUME CanarySelected(r) PROVE r.canary = {SelectedSingle(r)}
    OBVIOUS
  <2>1. PICK model \in Single : r.canary = {model}
    BY <1>1 DEF Maybe, CanarySelected
  <2> QED BY <2>1 DEF SelectedSingle
<1>4. ~ CanarySelected(r) => SelectedSingle(r) = r.primary
  BY DEF SelectedSingle
<1> QED BY <1>1, <1>2, <1>3, <1>4, OutputsAreNumbers

LEMMA ReasonsAre ==
  ASSUME NEW r
  PROVE  /\ "low_confidence" \in ReviewReasons(r) <=> ~ FallbackUsed(r) /\ Unsure(SelectedSingle(r))
         /\ "fallback_ensemble_used" \in ReviewReasons(r) <=> FallbackUsed(r)
         /\ "low_ensemble_agreement" \in ReviewReasons(r) => FallbackUsed(r)
         /\ "shadow_divergence" \in ReviewReasons(r)
              <=> \E s \in r.shadows : Apart(s, r.primary) > MaxDifference
         /\ "canary_divergence" \in ReviewReasons(r)
              <=> \E c \in r.canary : Apart(c, r.primary) > MaxDifference
         /\ ReviewReasons(r) \subseteq
              {"low_confidence", "fallback_ensemble_used", "low_ensemble_agreement",
               "shadow_divergence", "canary_divergence"}
BY DEF ReviewReasons

(* An answer without a reason is of a model that is sure, and near those   *)
(* that it is compared with.                                               *)
LEMMA UnreviewedAnswer ==
  ASSUME NEW r \in ServingRequest
  PROVE  UnreviewedAgrees(Answer(r))
<1> DEFINE model == SelectedSingle(r)
           others == IF CanarySelected(r) THEN {r.primary} ELSE r.shadows \cup r.canary
<1> SUFFICES ASSUME ReviewReasons(r) = {}
             PROVE  /\ AnsweredClass(r) = Class(model) /\ ~ Unsure(model)
                    /\ \A other \in others :
                         /\ Distance(model.output, other.output) <= MaxDifference
                         /\ Distance(other.output, model.output) <= MaxDifference
                         /\ Class(other) # AnsweredClass(r) =>
                              \/ {model.threshold, other.threshold} # {DefaultThreshold}
                              \/ other.output = DefaultThreshold
  BY DEF UnreviewedAgrees, Answer
<1>1. ~ FallbackUsed(r) /\ ~ Unsure(model)
  BY ReasonsAre
<1>2. \A s \in r.shadows \cup r.canary : ~ (Apart(s, r.primary) > MaxDifference)
  BY ReasonsAre
<1>3. AnsweredClass(r) = Class(model)
  BY <1>1 DEF AnsweredClass
<1>4. ASSUME NEW other \in others
      PROVE  /\ other \in Single
             /\ Distance(model.output, other.output) <= MaxDifference
             /\ Distance(other.output, model.output) <= MaxDifference
  <2>1. other \in Single /\ model \in Single /\ other.output \in Int /\ model.output \in Int
    BY RequestTyped
  <2>2. \/ ~ (Apart(model, other) > MaxDifference)
        \/ ~ (Apart(other, model) > MaxDifference)
    BY <1>2, RequestTyped
  <2> HIDE DEF model
  <2> QED BY <2>1, <2>2 DEF Apart, Distance, MaxDifference
<1>5. ASSUME NEW other \in others, Class(other) # Class(model)
      PROVE  \/ {model.threshold, other.threshold} # {DefaultThreshold}
             \/ other.output = DefaultThreshold
  <2>1. model \in Single
    BY RequestTyped
  <2> HIDE DEF model, others
  <2> SUFFICES ASSUME model.threshold = DefaultThreshold, other.threshold = DefaultThreshold
               PROVE  other.output = DefaultThreshold
    OBVIOUS
  <2> QED BY <1>1, <1>4, <1>5, <2>1, NearKeepsClass
<1> HIDE DEF model, others
<1> QED BY <1>1, <1>3, <1>4, <1>5

(* A critical answer has a second reason, and it is not about an ensemble. *)
LEMMA CriticalAnswer ==
  ASSUME NEW r \in ServingRequest
  PROVE  CriticalIsContested(Answer(r))
<1> DEFINE reasons == ReviewReasons(r)
<1> SUFFICES ASSUME ReviewSeverity(reasons) = "critical"
             PROVE  /\ r.fallback = <<>>
                    /\ \E other \in r.shadows \cup r.canary :
                         Apart(other, r.primary) > MaxDifference
  BY DEF CriticalIsContested, Answer
<1>1. "low_confidence" \in reasons /\ Cardinality(reasons) > 1
  BY DEF ReviewSeverity
<1>2. ~ FallbackUsed(r) /\ r.fallback = <<>>
  BY <1>1, ReasonsAre DEF FallbackUsed
<1>3. PICK reason \in reasons : reason # "low_confidence"
  <2>1. reasons # {"low_confidence"}
    BY <1>1, FS_Singleton
  <2> QED BY <1>1, <2>1
<1> HIDE DEF reasons
<1>4. reason \in {"shadow_divergence", "canary_divergence"}
  BY <1>2, <1>3, ReasonsAre DEF reasons
<1> QED BY <1>2, <1>3, <1>4, ReasonsAre DEF reasons
-----------------------------------------------------------------------------
(* What the readers see.                                                   *)

(* The window of a reader of a log that fits it is the log itself.         *)
LEMMA WholeWindow ==
  ASSUME NEW rows, rows = [i \in DOMAIN rows |-> rows[i]],
         DOMAIN rows \subseteq Int, IsFiniteSet(DOMAIN rows),
         NEW limit \in Nat, Cardinality(DOMAIN rows) <= limit
  PROVE  Newest(rows, limit) = rows
<1>1. ASSUME NEW i \in DOMAIN rows
      PROVE  Cardinality({j \in DOMAIN rows : i <= j}) <= limit
  <2> DEFINE later == {j \in DOMAIN rows : i <= j}
  <2>1. later \subseteq DOMAIN rows
    OBVIOUS
  <2>2. /\ Cardinality(later) \in Nat /\ Cardinality(DOMAIN rows) \in Nat
        /\ Cardinality(later) <= Cardinality(DOMAIN rows)
    BY <2>1, FS_Subset, FS_CardinalityType
  <2> HIDE DEF later
  <2>3. Cardinality(later) <= limit
    BY <2>2
  <2> QED BY <2>3 DEF later
<1>2. {i \in DOMAIN rows : Cardinality({j \in DOMAIN rows : i <= j}) <= limit} = DOMAIN rows
  BY <1>1
<1>3. Newest(rows, limit) = Restrict(rows, DOMAIN rows)
  BY <1>2 DEF Newest
<1> QED BY <1>3 DEF Restrict

(* The verdict on a version rests on its feedback and nothing else.        *)
LEMMA SameRecord ==
  ASSUME NEW v, NEW rows, NEW others,
         Of("feedback", v, rows) = Of("feedback", v, others)
  PROVE  Degraded(v, rows) <=> Degraded(v, others)
BY DEF Degraded

LEMMA LogIsFunction ==
  ASSUME log \in Seq(Row)
  PROVE  /\ log = [i \in DOMAIN log |-> log[i]]
         /\ DOMAIN log = 1 .. Len(log) /\ Len(log) \in Nat
         /\ IsFiniteSet(DOMAIN log) /\ Cardinality(DOMAIN log) = Len(log)
         /\ Before(Len(log)) = log
<1>1. DOMAIN log = 1 .. Len(log) /\ Len(log) \in Nat
  OBVIOUS
<1>2. log = [i \in DOMAIN log |-> log[i]]
  OBVIOUS
<1>3. IsFiniteSet(DOMAIN log) /\ Cardinality(DOMAIN log) = Len(log)
  BY <1>1, FS_Interval
<1>4. Before(Len(log)) = log
  BY <1>1, <1>2 DEF Before, Restrict
<1> QED BY <1>1, <1>2, <1>3, <1>4

(* What a request decides by is what a reader sees of the log there is.    *)
LEMMA ShownIs ==
  ASSUME log \in Seq(Row)
  PROVE  Shown("rollback", Len(log)) = AuditRows /\ Shown("gate", Len(log)) = FeedbackRows
BY LogIsFunction DEF Shown, AuditRows, FeedbackRows

(* What rollback and what the gate make of a log that fits their windows   *)
(* is what the whole log says.                                             *)
LEMMA ReadersSeeAll ==
  ASSUME log \in Seq(Row), NEW n \in 0 .. Len(log), Fits(n), NEW v, NEW op
  PROVE  Degraded(v, Shown(op, n)) <=> Degraded(v, Before(n))
<1> USE EvidenceAssumption
<1> DEFINE rows == Before(n)
<1>0. /\ n \in Nat /\ DOMAIN rows = 1 .. n /\ rows = [i \in DOMAIN rows |-> rows[i]]
      /\ IsFiniteSet(DOMAIN rows) /\ Cardinality(DOMAIN rows) = n
  BY FS_Interval DEF Before, Restrict
<1> HIDE DEF rows
<1>1. Newest(rows, AuditLimit) = rows
  BY <1>0, WholeWindow DEF Fits
<1> DEFINE given == FeedbackIn(rows)
<1>2. /\ DOMAIN given = {i \in DOMAIN rows : rows[i].kind = "feedback"}
      /\ \A i \in DOMAIN given : given[i] = rows[i]
      /\ given = [i \in DOMAIN given |-> given[i]]
  BY DEF FeedbackIn, RestrictDomain, Restrict
<1>3. /\ DOMAIN given \subseteq Int /\ IsFiniteSet(DOMAIN given)
      /\ Cardinality(DOMAIN given) <= FeedbackLimit
  <2>1. DOMAIN given \subseteq DOMAIN rows
    BY <1>2
  <2>2. /\ Cardinality(DOMAIN given) \in Nat
        /\ Cardinality(DOMAIN given) <= Cardinality(DOMAIN rows) /\ IsFiniteSet(DOMAIN given)
    BY <1>0, <2>1, FS_Subset, FS_CardinalityType
  <2> HIDE DEF given
  <2> QED BY <1>0, <2>1, <2>2 DEF Fits
<1> HIDE DEF given
<1>4. Newest(given, FeedbackLimit) = given
  BY <1>2, <1>3, WholeWindow
<1>5. Of("feedback", v, given) = Of("feedback", v, rows)
  BY <1>2 DEF Of, RestrictDomain, Restrict
<1>6. Shown(op, n) = rows \/ Shown(op, n) = given
  BY <1>1, <1>4 DEF Shown, rows, given
<1> QED BY <1>5, <1>6, SameRecord DEF rows
-----------------------------------------------------------------------------
(* The steps.                                                              *)

LEMMA LogGrows ==
  ASSUME log \in Seq(Row), NEW event \in Row, Recorded(event)
  PROVE  /\ log' \in Seq(Row) /\ Len(log') = Len(log) + 1 /\ Len(log) \in Nat
         /\ \A i \in 1 .. Len(log) : log'[i] = log[i]
         /\ log'[Len(log) + 1] = event
BY DEF Recorded

LEMMA FeedbackFinite ==
  ASSUME log \in Seq(Row), NEW i
  PROVE  IsFiniteSet(FeedbackOf(i)) /\ Cardinality(FeedbackOf(i)) \in Nat
<1>1. FeedbackOf(i) \subseteq DOMAIN log
  BY DEF FeedbackOf
<1> QED BY <1>1, LogIsFunction, FS_Subset, FS_CardinalityType

LEMMA PendingFinite ==
  ASSUME NEW i
  PROVE  /\ IsFiniteSet(Pending(i)) /\ Cardinality(Pending(i)) \in Nat
         /\ Cardinality(Pending(i)) <= Cardinality(Clients) /\ Cardinality(Clients) \in Nat
<1>1. Pending(i) \subseteq Clients
  BY DEF Pending
<1> QED BY <1>1, EvidenceAssumption, FS_Subset, FS_CardinalityType

(* What was seen of the log stays as it was.                               *)
LEMMA SeenStays ==
  ASSUME EvidenceTyped, log' = log \/ \E event \in Row : Recorded(event),
         NEW n \in 0 .. Len(log)
  PROVE  Before(n)' = Before(n)
<1>1. \A i \in 1 .. n : log'[i] = log[i]
  BY LogGrows DEF EvidenceTyped
<1> QED BY <1>1 DEF Before, Restrict

(* A step that adds no outcome and begins none, and decides nothing but on *)
(* the record.                                                             *)
Fresh(c) ==
  \/ request'[c] = request[c]
  \/ request'[c].at \in {"idle", "drift", "gate", "audit"}
  \/ /\ request'[c].at = "activate" /\ request'[c].seen \in 0 .. Len(log)
     /\ OnRecord(request'[c])

LEMMA TypedKept ==
  ASSUME EvidenceTyped, log' = log \/ \E event \in Row : Recorded(event),
         standing' \in [Models -> Statuses], request' \in [Clients -> Request],
         \A c \in Clients : Fresh(c)
  PROVE  EvidenceTyped'
<1>1. log' \in Seq(Row) /\ Len(log) \in Nat /\ Len(log') \in Nat /\ Len(log) <= Len(log')
  BY LogGrows DEF EvidenceTyped
<1>2. ASSUME NEW c \in Clients
      PROVE  /\ request'[c].at = "insert" => request'[c].of \in 1 .. Len(log')
             /\ request'[c].at = "activate" => request'[c].seen \in 0 .. Len(log')
  BY <1>1 DEF EvidenceTyped, Fresh
<1> QED BY <1>1, <1>2 DEF EvidenceTyped

LEMMA DecidedKept ==
  ASSUME EvidenceTyped, DecidedOnRecord,
         log' = log \/ \E event \in Row : Recorded(event),
         \A c \in Clients : Fresh(c)
  PROVE  DecidedOnRecord'
<1> SUFFICES ASSUME NEW c \in Clients, request'[c].at = "activate"
             PROVE  OnRecord(request[c])'
  BY DEF DecidedOnRecord
<1>1. request'[c].seen \in 0 .. Len(log) /\ OnRecord(request'[c])
  BY DEF Fresh, EvidenceTyped, DecidedOnRecord
<1>2. Before(request[c].seen)' = Before(request'[c].seen)
  BY <1>1, SeenStays
<1> QED BY <1>1, <1>2 DEF OnRecord, Shown

LEMMA RationedKept ==
  ASSUME EvidenceTyped, Rationed,
         log' = log \/ \E event \in Row : event.kind # "feedback" /\ Recorded(event),
         \A c \in Clients : Fresh(c)
  PROVE  Rationed'
<1> SUFFICES ASSUME NEW i \in Nat
             PROVE  Cardinality(FeedbackOf(i)') + Cardinality(Pending(i)') <= Cardinality(Clients)
  BY DEF Rationed
<1>1. FeedbackOf(i)' = FeedbackOf(i)
  BY LogGrows DEF EvidenceTyped, FeedbackOf
<1>2. Pending(i)' \subseteq Pending(i)
  BY DEF Pending, Fresh
<1>3. Cardinality(Pending(i)') <= Cardinality(Pending(i)) /\ Cardinality(Pending(i)') \in Nat
  BY <1>2, PendingFinite, FS_Subset, FS_CardinalityType
<1> QED BY <1>1, <1>3, PendingFinite, FeedbackFinite DEF Rationed, EvidenceTyped

LEMMA OrdinaryStep ==
  ASSUME EvidenceInv,
         log' = log \/ \E event \in Row : event.kind # "feedback" /\ Recorded(event),
         standing' \in [Models -> Statuses], request' \in [Clients -> Request],
         \A c \in Clients : Fresh(c),
         AnswersServed'
  PROVE  EvidenceInv'
BY TypedKept, DecidedKept, RationedKept DEF EvidenceInv

LEMMA InitInv == EvidenceInit => EvidenceInv
<1> SUFFICES ASSUME EvidenceInit PROVE EvidenceInv
  OBVIOUS
<1>1. EvidenceTyped
  BY DEF EvidenceInit, EvidenceTyped, Request, NoRequest, Statuses
<1>2. \A i \in Nat : FeedbackOf(i) = {} /\ Pending(i) = {}
  BY DEF EvidenceInit, FeedbackOf, Pending, NoRequest
<1>3. Rationed
  BY <1>2, FS_EmptySet, PendingFinite DEF Rationed
<1>4. DecidedOnRecord /\ AnswersServed
  BY DEF EvidenceInit, DecidedOnRecord, NoRequest, AnswersServed
<1> QED BY <1>1, <1>3, <1>4 DEF EvidenceInv

(* Two requests that find no outcome are counted with the clients.         *)
LEMMA LookUpStep ==
  ASSUME EvidenceInv, NEW c \in Clients, NEW i \in DOMAIN log, LookUp(c, i)
  PROVE  EvidenceInv'
<1>1. /\ i \in 1 .. Len(log) /\ i \in Nat /\ Len(log) \in Nat
      /\ request[c].at = "idle" /\ log' = log
      /\ request' = [request EXCEPT ![c] = [at |-> "insert", of |-> i]]
  BY DEF LookUp, EvidenceInv, EvidenceTyped, NoRequest
<1>2. EvidenceTyped'
  BY <1>1 DEF LookUp, EvidenceInv, EvidenceTyped, Request
<1>3. Rationed'
  <2> SUFFICES ASSUME NEW k \in Nat
               PROVE  Cardinality(FeedbackOf(k)') + Cardinality(Pending(k)') <= Cardinality(Clients)
    BY DEF Rationed
  <2>1. FeedbackOf(k)' = FeedbackOf(k)
    BY <1>1 DEF FeedbackOf
  <2>2. CASE k = i
    <3>1. Cardinality(FeedbackOf(k)') = 0
      BY <2>1, <2>2, FS_EmptySet DEF LookUp
    <3>2. /\ Pending(k)' \subseteq Clients
          /\ Cardinality(Pending(k)') <= Cardinality(Clients) /\ Cardinality(Pending(k)') \in Nat
      BY EvidenceAssumption, FS_Subset, FS_CardinalityType DEF Pending
    <3> QED BY <3>1, <3>2, PendingFinite
  <2>3. CASE k # i
    <3>1. Pending(k)' = Pending(k)
      BY <1>1, <2>3 DEF Pending, EvidenceInv, EvidenceTyped
    <3> QED BY <2>1, <3>1 DEF EvidenceInv, Rationed
  <2> QED BY <2>2, <2>3
<1>4. DecidedOnRecord'
  <2> SUFFICES ASSUME NEW d \in Clients, request'[d].at = "activate"
               PROVE  OnRecord(request[d])'
    BY DEF DecidedOnRecord
  <2>1. d # c /\ request'[d] = request[d]
    BY <1>1 DEF EvidenceInv, EvidenceTyped
  <2>2. Before(request[d].seen)' = Before(request[d].seen)
    BY <1>1, <2>1 DEF Before
  <2> QED BY <2>1, <2>2 DEF EvidenceInv, DecidedOnRecord, OnRecord, Shown
<1>5. AnswersServed'
  BY DEF LookUp, EvidenceInv, AnswersServed
<1> QED BY <1>2, <1>3, <1>4, <1>5 DEF EvidenceInv

(* The outcome that is inserted was counted as pending.                    *)
LEMMA InsertStep ==
  ASSUME EvidenceInv, NEW c \in Clients, Insert(c)
  PROVE  EvidenceInv'
<1> DEFINE i == request[c].of
<1>1. /\ log \in Seq(Row) /\ i \in 1 .. Len(log) /\ i \in Nat /\ Len(log) \in Nat
      /\ request' = [request EXCEPT ![c] = NoRequest]
      /\ request[c].at = "insert" /\ request \in [Clients -> Request]
  BY DEF Insert, Ends, EvidenceInv, EvidenceTyped
<1>2. PICK bad \in Errors(log[i].version) :
        Recorded(Event("feedback", log[i].version, bad, i))
  BY DEF Insert
<1> DEFINE event == Event("feedback", log[i].version, bad, i)
<1>3. event \in Row /\ event.kind = "feedback" /\ event.of = i
  <2>1. bad \in Nat
    BY EvidenceAssumption DEF Errors
  <2>2. log[i].version \in Models \cup {0}
    <3>1. log[i] \in Row
      BY <1>1
    <3> QED BY <3>1 DEF Row
  <2> QED BY <1>1, <2>1, <2>2 DEF Event, Row
<1> HIDE DEF event
<1>4. /\ Recorded(event) /\ log' \in Seq(Row) /\ Len(log') = Len(log) + 1
      /\ \A k \in 1 .. Len(log) : log'[k] = log[k]
      /\ log'[Len(log) + 1] = event
  BY <1>1, <1>2, <1>3, LogGrows DEF event
<1>5. request' \in [Clients -> Request] /\ \A d \in Clients : Fresh(d)
  BY <1>1 DEF Fresh, Request, NoRequest
<1>6. EvidenceTyped' /\ DecidedOnRecord'
  BY <1>3, <1>4, <1>5, TypedKept, DecidedKept DEF Insert, EvidenceInv, EvidenceTyped
<1>7. Rationed'
  <2> SUFFICES ASSUME NEW k \in Nat
               PROVE  Cardinality(FeedbackOf(k)') + Cardinality(Pending(k)') <= Cardinality(Clients)
    BY DEF Rationed
  <2>1. Cardinality(FeedbackOf(k)) + Cardinality(Pending(k)) <= Cardinality(Clients)
    BY DEF EvidenceInv, Rationed
  <2>2. CASE k = i
    <3>1. /\ FeedbackOf(k)' = FeedbackOf(k) \cup {Len(log) + 1}
          /\ Len(log) + 1 \notin FeedbackOf(k)
      BY <1>1, <1>3, <1>4, <2>2 DEF FeedbackOf
    <3>2. Cardinality(FeedbackOf(k)') = Cardinality(FeedbackOf(k)) + 1
      BY <1>1, <3>1, FeedbackFinite, FS_AddElement
    <3>3. Pending(k)' = Pending(k) \ {c} /\ c \in Pending(k)
      BY <1>1, <2>2 DEF Pending, NoRequest
    <3>4. Cardinality(Pending(k)') = Cardinality(Pending(k)) - 1
      BY <3>3, PendingFinite, FS_RemoveElement
    <3> QED BY <1>1, <2>1, <3>2, <3>4, PendingFinite, FeedbackFinite
  <2>3. CASE k # i
    <3>1. FeedbackOf(k)' = FeedbackOf(k)
      BY <1>1, <1>3, <1>4, <2>3 DEF FeedbackOf
    <3>2. Pending(k)' = Pending(k)
      BY <1>1, <2>3 DEF Pending, NoRequest
    <3> QED BY <2>1, <3>1, <3>2
  <2> QED BY <2>2, <2>3
<1>8. AnswersServed'
  BY DEF Insert, EvidenceInv, AnswersServed
<1> QED BY <1>6, <1>7, <1>8 DEF EvidenceInv

(* A row that is no outcome, of a version or of none.                      *)
LEMMA OtherRow ==
  ASSUME NEW kind \in {"prediction", "drift", "serving", "other", "rollback"},
         NEW v \in Models \cup {0}, NEW bad \in Nat, Recorded(Event(kind, v, bad, 0))
  PROVE  \E event \in Row : event.kind # "feedback" /\ Recorded(event)
<1>1. Event(kind, v, bad, 0) \in Row /\ Event(kind, v, bad, 0).kind # "feedback"
  BY DEF Event, Row
<1> QED BY <1>1

(* The steps that only add a row.                                          *)
LEMMA RowStep ==
  ASSUME EvidenceInv,
         \/ \E v \in Models, unsure \in {0, 1} : Predict(v, unsure)
         \/ Other
         \/ \E r \in ServingRequest, v \in Models : Serve(r, v)
  PROVE  EvidenceInv'
<1>1. request' = request /\ standing' = standing
  BY DEF Predict, Other, Serve
<1>2. \A c \in Clients : Fresh(c)
  BY <1>1 DEF Fresh
<1>3. AnswersServed' /\ \E event \in Row : event.kind # "feedback" /\ Recorded(event)
  <2>1. ASSUME NEW v \in Models, NEW unsure \in {0, 1}, Predict(v, unsure)
        PROVE  AnswersServed' /\ \E event \in Row : event.kind # "feedback" /\ Recorded(event)
    <3>1. AnswersServed' /\ Recorded(Event("prediction", v, unsure, 0))
      BY <2>1 DEF Predict, EvidenceInv, AnswersServed
    <3> QED BY <3>1, OtherRow
  <2>2. ASSUME Other
        PROVE  AnswersServed' /\ \E event \in Row : event.kind # "feedback" /\ Recorded(event)
    <3>1. AnswersServed' /\ Recorded(Event("other", 0, 0, 0))
      BY <2>2 DEF Other, EvidenceInv, AnswersServed
    <3> QED BY <3>1, OtherRow
  <2>3. ASSUME NEW r \in ServingRequest, NEW v \in Models, Serve(r, v)
        PROVE  AnswersServed' /\ \E event \in Row : event.kind # "feedback" /\ Recorded(event)
    <3>1. AnswersServed'
      BY <2>3 DEF Serve, AnswersServed
    <3>2. CASE r.canary = {}
      <4>1. Recorded(Event("serving", 0, 0, 0))
        BY <2>3, <3>2 DEF Serve
      <4> QED BY <3>1, <4>1, OtherRow
    <3>3. CASE r.canary # {}
      <4>1. PICK m \in r.canary :
              Recorded(Event("serving", v, Distance(m.output, r.primary.output), 0))
        BY <2>3, <3>3 DEF Serve
      <4>2. Distance(m.output, r.primary.output) \in Nat
        BY <4>1, RequestTyped DEF Distance
      <4> QED BY <3>1, <4>1, <4>2, OtherRow
    <3> QED BY <3>1, <3>2, <3>3
  <2> QED BY <2>1, <2>2, <2>3
<1>4. standing' \in [Models -> Statuses] /\ request' \in [Clients -> Request]
  BY <1>1 DEF EvidenceInv, EvidenceTyped
<1> QED BY <1>2, <1>3, <1>4, OrdinaryStep

(* A request goes on with something else in hand.                          *)
LEMMA MoveStep ==
  ASSUME EvidenceInv, NEW c \in Clients, NEW next \in Request,
         request' = [request EXCEPT ![c] = next],
         \/ next.at \in {"idle", "drift", "gate", "audit"}
         \/ next.at = "activate" /\ next.seen \in 0 .. Len(log) /\ OnRecord(next),
         log' = log \/ \E event \in Row : event.kind # "feedback" /\ Recorded(event),
         standing' \in [Models -> Statuses], answer' = answer
  PROVE  EvidenceInv'
<1>1. request' \in [Clients -> Request]
  BY DEF EvidenceInv, EvidenceTyped
<1>2. \A d \in Clients : Fresh(d)
  BY DEF Fresh, EvidenceInv, EvidenceTyped
<1>3. AnswersServed'
  BY DEF EvidenceInv, AnswersServed
<1> QED BY <1>1, <1>2, <1>3, OrdinaryStep

(* A decision is in hand with all the log that there is.                   *)
LEMMA DecidesStep ==
  ASSUME EvidenceInv, NEW c \in Clients, NEW v \in Models,
         NEW op \in {"gate", "rollback", "manual"}, Decides(c, op, v),
         op = "rollback" => ~ Degraded(v, AuditRows),
         op = "gate" => ~ Degraded(v, FeedbackRows)
  PROVE  EvidenceInv'
<1> DEFINE next ==
      [at |-> "activate", op |-> op, version |-> v, loaded |-> standing[v], seen |-> Len(log)]
<1>1. log \in Seq(Row) /\ Len(log) \in Nat /\ standing \in [Models -> Statuses]
  BY DEF EvidenceInv, EvidenceTyped
<1>2. next \in Request
  BY <1>1 DEF Request
<1>3. next.at = "activate" /\ next.seen \in 0 .. Len(log)
  BY <1>1
<1>4. OnRecord(next)
  BY <1>1, ShownIs DEF OnRecord
<1>5. /\ request' = [request EXCEPT ![c] = next] /\ log' = log
      /\ standing' = standing /\ answer' = answer
  BY DEF Decides
<1> HIDE DEF next
<1> QED BY <1>1, <1>2, <1>3, <1>4, <1>5, MoveStep

(* A set of numbers below a bound has its greatest in it.                  *)
LEMMA MaxIsMember ==
  ASSUME NEW S, NEW n \in Nat, S \subseteq 0 .. n, S # {}
  PROVE  Max(S) \in S
<1> DEFINE Bounds == {m \in Nat : \A i \in S : i <= m}
           Under == OpToRel(<, Nat)
<1>1. PICK m \in Bounds : \A k \in Bounds : ~ (k < m)
  <2>1. n \in Bounds /\ Bounds \subseteq Nat
    OBVIOUS
  <2>2. PICK m \in Bounds : \A k \in Bounds : ~ (<<k, m>> \in Under)
    BY <2>1, NatLessThanWellFounded, WFMin
  <2> QED BY <2>1, <2>2 DEF OpToRel
<1>2. m \in S
  <2> SUFFICES ASSUME m \notin S PROVE FALSE
    OBVIOUS
  <2>1. PICK i \in S : i <= m /\ i # m
    OBVIOUS
  <2>2. m - 1 \in Bounds
    BY <2>1
  <2> QED BY <1>1, <2>2
<1>3. \E i \in S : \A j \in S : i >= j
  BY <1>2
<1> QED BY <1>3 DEF Max

LEMMA GateStep ==
  ASSUME EvidenceInv, NEW c \in Clients, NEW v \in Models, Gate(c, v)
  PROVE  EvidenceInv'
BY DecidesStep DEF Gate

LEMMA RollbackStep ==
  ASSUME EvidenceInv, NEW c \in Clients, AutoRollback(c) \/ ManualRollback(c)
  PROVE  EvidenceInv'
<1>1. ASSUME NEW v \in Models, NEW S \in SUBSET Earlier(v), S # {}
      PROVE  Max(S) \in S /\ Max(S) \in Models
  <2>1. v \in Nat /\ S \subseteq 0 .. v /\ S \subseteq Models
    BY EvidenceAssumption DEF Earlier
  <2> QED BY <1>1, <2>1, MaxIsMember
<1>2. CASE AutoRollback(c)
  <2>1. PICK v \in Models : Eligible(v) # {} /\ Decides(c, "rollback", Max(Eligible(v)))
    BY <1>2 DEF AutoRollback, Active
  <2>2. /\ Max(Eligible(v)) \in Eligible(v) /\ Max(Eligible(v)) \in Models
    BY <1>1, <2>1 DEF Eligible
  <2>3. ~ Degraded(Max(Eligible(v)), AuditRows)
    BY <2>2 DEF Eligible
  <2> QED BY <2>1, <2>2, <2>3, DecidesStep
<1>3. CASE ManualRollback(c)
  <2>1. PICK v \in Models : Earlier(v) # {} /\ Decides(c, "manual", Max(Earlier(v)))
    BY <1>3 DEF ManualRollback, Active
  <2> QED BY <1>1, <2>1, DecidesStep
<1> QED BY <1>2, <1>3

LEMMA DriftStep ==
  ASSUME EvidenceInv, NEW c \in Clients,
         CheckDrift(c) \/ \E found \in {0, 1} : RecordDrift(c, found)
  PROVE  EvidenceInv'
<1>1. standing' = standing /\ standing \in [Models -> Statuses]
  BY DEF CheckDrift, RecordDrift, EvidenceInv, EvidenceTyped
<1>2. CASE CheckDrift(c)
  <2>1. PICK v \in Models : request' = [request EXCEPT ![c] = [at |-> "drift", version |-> v]]
    BY <1>2 DEF CheckDrift, Active
  <2>2. [at |-> "drift", version |-> v] \in Request
    BY DEF Request
  <2> QED BY <1>1, <1>2, <2>1, <2>2, MoveStep DEF CheckDrift
<1>3. ASSUME NEW found \in {0, 1}, RecordDrift(c, found)
      PROVE  EvidenceInv'
  <2>1. request[c] \in Request /\ request[c].at = "drift"
    BY <1>3 DEF RecordDrift, EvidenceInv, EvidenceTyped
  <2>2. request[c].version \in Models
    BY <2>1 DEF Request, NoRequest
  <2>3. \E event \in Row : event.kind # "feedback" /\ Recorded(event)
    <3>1. Recorded(Event("drift", request[c].version, found, 0))
      BY <1>3 DEF RecordDrift
    <3> QED BY <2>2, <3>1, OtherRow
  <2>4. NoRequest \in Request /\ NoRequest.at = "idle"
    BY DEF Request, NoRequest
  <2> QED BY <1>1, <1>3, <2>3, <2>4, MoveStep DEF RecordDrift, Ends
<1> QED BY <1>2, <1>3

LEMMA PromoteStep ==
  ASSUME EvidenceInv, NEW c \in Clients, NEW v \in Models, Promote(c, v)
  PROVE  EvidenceInv'
<1>1. [at |-> "gate", version |-> v] \in Request
  BY DEF Request
<1> QED BY <1>1, MoveStep DEF Promote, EvidenceInv, EvidenceTyped

(* The version that is activated, and what the others become.              *)
LEMMA ActivateTyped ==
  ASSUME EvidenceInv, NEW c \in Clients, Activate(c)
  PROVE  standing' \in [Models -> Statuses] /\ request[c].version \in Models
<1>1. request[c] \in Request /\ request[c].at = "activate" /\ standing \in [Models -> Statuses]
  BY DEF Activate, EvidenceInv, EvidenceTyped
<1>2. request[c].version \in Models
  BY <1>1 DEF Request, NoRequest
<1> QED BY <1>1, <1>2 DEF Activate, Written, Statuses

LEMMA ActivateStep ==
  ASSUME EvidenceInv, NEW c \in Clients, Activate(c)
  PROVE  EvidenceInv'
<1>1. standing' \in [Models -> Statuses] /\ request[c].version \in Models
  BY ActivateTyped
<1>2. /\ NoRequest \in Request /\ NoRequest.at = "idle"
      /\ [at |-> "audit", version |-> request[c].version] \in Request
  BY <1>1 DEF Request, NoRequest
<1>3. CASE request[c].op = "rollback"
  BY <1>1, <1>2, <1>3, MoveStep DEF Activate
<1>4. CASE request[c].op # "rollback"
  BY <1>1, <1>2, <1>4, MoveStep DEF Activate, Ends
<1> QED BY <1>3, <1>4

LEMMA AuditRollbackStep ==
  ASSUME EvidenceInv, NEW c \in Clients, AuditRollback(c)
  PROVE  EvidenceInv'
<1>1. request[c] \in Request /\ request[c].at = "audit"
  BY DEF AuditRollback, EvidenceInv, EvidenceTyped
<1>2. request[c].version \in Models
  BY <1>1 DEF Request, NoRequest
<1>3. \E event \in Row : event.kind # "feedback" /\ Recorded(event)
  <2>1. Recorded(Event("rollback", request[c].version, 0, 0))
    BY DEF AuditRollback
  <2> QED BY <1>2, <2>1, OtherRow
<1>4. NoRequest \in Request /\ NoRequest.at = "idle"
  BY DEF Request, NoRequest
<1> QED BY <1>3, <1>4, MoveStep DEF AuditRollback, Ends, EvidenceInv, EvidenceTyped

LEMMA DroppedStep ==
  ASSUME EvidenceInv, NEW c \in Clients, Dropped(c)
  PROVE  EvidenceInv'
<1>1. NoRequest \in Request /\ NoRequest.at = "idle"
  BY DEF Request, NoRequest
<1> QED BY <1>1, MoveStep DEF Dropped, Ends, EvidenceInv, EvidenceTyped

(* A version is retired, or the alerts move.                               *)
LEMMA RestStep ==
  ASSUME EvidenceInv,
         (\E v \in Models : Retire(v)) \/ AlarmStep \/ UNCHANGED evidenceVars
  PROVE  EvidenceInv'
<1>1. request' = request /\ log' = log /\ answer' = answer
  BY DEF Retire, AlarmStep, EvaluationStep, EvaluateQuiet, EvaluateTells, EvaluateFails, TryAgain,
         EvaluateRoute, Schedule, JobLost, Signal, UpsertPolicy, Acknowledge, Resolve, evidenceVars
<1>2. standing' \in [Models -> Statuses]
  BY DEF Retire, AlarmStep, EvaluationStep, EvaluateQuiet, EvaluateTells, EvaluateFails, TryAgain,
         EvaluateRoute, Schedule, JobLost, Signal, UpsertPolicy, Acknowledge, Resolve, evidenceVars,
         EvidenceInv, EvidenceTyped, Statuses
<1>3. \A c \in Clients : Fresh(c)
  BY <1>1 DEF Fresh
<1>4. AnswersServed' /\ request' \in [Clients -> Request]
  BY <1>1 DEF EvidenceInv, AnswersServed, EvidenceTyped
<1> QED BY <1>1, <1>2, <1>3, <1>4, OrdinaryStep

LEMMA NextInv == EvidenceInv /\ [EvidenceNext]_evidenceVars => EvidenceInv'
<1> SUFFICES ASSUME EvidenceInv, [EvidenceNext]_evidenceVars PROVE EvidenceInv'
  OBVIOUS
<1>1. CASE FeedbackStep
  BY <1>1, RowStep, InsertStep, LookUpStep DEF FeedbackStep
<1>2. CASE CheckStep
  BY <1>2, RowStep, DriftStep DEF CheckStep
<1>3. CASE ServingStep
  BY <1>3, RowStep DEF ServingStep
<1>4. CASE DecisionStep
  <2>1. ASSUME NEW c \in Clients, PromoteGate(c)
        PROVE  EvidenceInv'
    <3>1. request[c] \in Request /\ request[c].at = "gate"
      BY <2>1 DEF PromoteGate, EvidenceInv, EvidenceTyped
    <3>2. request[c].version \in Models
      BY <3>1 DEF Request, NoRequest
    <3> QED BY <2>1, <3>2, GateStep DEF PromoteGate
  <2>2. ASSUME NEW c \in Clients, NEW v \in Models, GateRoute(c, v)
        PROVE  EvidenceInv'
    BY <2>2, GateStep DEF GateRoute
  <2> QED BY <1>4, <2>1, <2>2, PromoteStep, RollbackStep, ActivateStep, AuditRollbackStep,
             DroppedStep, RestStep DEF DecisionStep
<1>5. CASE AlarmStep \/ UNCHANGED evidenceVars
  BY <1>5, RestStep
<1> QED BY <1>1, <1>2, <1>3, <1>4, <1>5 DEF EvidenceNext

LEMMA Invariance == EvidenceSpec => []EvidenceInv
<1> QED BY InitInv, NextInv, PTL DEF EvidenceSpec
-----------------------------------------------------------------------------
(* The rows of the log, the versions and what the requests have in hand    *)
(* keep their types, and no request points beyond the log.                 *)
THEOREM EvidenceTypeCorrect == EvidenceSpec => []EvidenceTyped
<1>1. EvidenceInv => EvidenceTyped
  BY DEF EvidenceInv
<1> QED BY <1>1, Invariance, PTL

(* The outcome of a prediction counts no more than as many times as there  *)
(* are clients: record_prediction_feedback looks for one before it         *)
(* inserts another, and only requests that overlap can both find none.     *)
THEOREM FeedbackAlwaysRationed == EvidenceSpec => []FeedbackIsRationed
<1>1. EvidenceInv => FeedbackIsRationed
  <2> SUFFICES ASSUME EvidenceInv, NEW i \in DOMAIN log
               PROVE  Cardinality(FeedbackOf(i)) <= Cardinality(Clients)
    BY DEF FeedbackIsRationed
  <2>1. log \in Seq(Row) /\ i \in Nat
    BY DEF EvidenceInv, EvidenceTyped
  <2> QED BY <2>1, FeedbackFinite, PendingFinite DEF EvidenceInv, Rationed
<1> QED BY <1>1, Invariance, PTL

(* Every answer that serving_predict has given without a reason for a      *)
(* review is that of a single model, sure of it and near to those that it  *)
(* is compared with, of the same class where all artifacts have the        *)
(* default threshold; every critical one has another model against it.     *)
THEOREM AnswersAlwaysReviewed == EvidenceSpec => []AnswersAreReviewed
<1>1. EvidenceInv => AnswersAreReviewed
  BY UnreviewedAnswer, CriticalAnswer DEF EvidenceInv, AnswersServed, AnswersAreReviewed
<1> QED BY <1>1, Invariance, PTL

(* Gates, promotions and automatic rollbacks activate a version only on a  *)
(* record that did not show it degraded when they decided, whatever was    *)
(* recorded and activated since.                                           *)
THEOREM ActivationsOnTheirRecord == EvidenceSpec => ActivatedOnItsRecord
<1>1. EvidenceInv /\ [EvidenceNext]_evidenceVars =>
        [\A v \in Models : Becomes(v) =>
           \E c \in Clients :
             /\ request[c].at = "activate" /\ request[c].version = v
             /\ request[c].op # "manual" =>
                  /\ ~ Degraded(v, Shown(request[c].op, request[c].seen))
                  /\ Fits(request[c].seen) => ~ Degraded(v, Before(request[c].seen))]_evidenceVars
  <2> SUFFICES ASSUME EvidenceInv, EvidenceNext, NEW v \in Models, Becomes(v)
               PROVE  \E c \in Clients :
                        /\ request[c].at = "activate" /\ request[c].version = v
                        /\ OnRecord(request[c]) /\ request[c].seen \in 0 .. Len(log)
    BY ReadersSeeAll DEF OnRecord, EvidenceInv, EvidenceTyped
  <2>1. standing' # standing
    BY DEF Becomes
  <2>2. CASE \E c \in Clients : Activate(c)
    <3>1. PICK c \in Clients : Activate(c)
      BY <2>2
    <3>2. request[c].version = v
      BY <3>1 DEF Activate, Becomes, Active
    <3> QED BY <3>1, <3>2 DEF Activate, EvidenceInv, EvidenceTyped, DecidedOnRecord
  <2>3. CASE \E w \in Models : Retire(w)
    BY <2>3 DEF Retire, Becomes, EvidenceInv, EvidenceTyped
  <2>4. \/ \E c \in Clients : Activate(c)
        \/ \E w \in Models : Retire(w)
    BY <2>1 DEF EvidenceNext, FeedbackStep, CheckStep, ServingStep, DecisionStep, AlarmStep,
         Predict, LookUp, Insert, CheckDrift, RecordDrift, Other, Serve, GateRoute, PromoteGate,
         Gate, Promote, AutoRollback, ManualRollback, Decides, AuditRollback, Dropped,
         EvaluationStep, EvaluateQuiet, EvaluateTells, EvaluateFails, TryAgain,
         EvaluateRoute, Schedule, JobLost, Signal, UpsertPolicy, Acknowledge, Resolve
  <2> QED BY <2>2, <2>3, <2>4
<1> QED BY <1>1, Invariance, PTL DEF EvidenceSpec, ActivatedOnItsRecord
=============================================================================
