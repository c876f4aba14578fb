-------------------------- MODULE FoundationProofs --------------------------
(***************************************************************************)
(* What missions, releases, the impact of a failure and flows guarantee,   *)
(* for any tasks, manifests, systems, subscribers and numbers.             *)
(***************************************************************************)
EXTENDS Missions, Releases, DependencyImpact, Flows, FiniteSetTheorems, TLAPS

-----------------------------------------------------------------------------
(***************************************************************************)
(* Missions.                                                               *)
(***************************************************************************)
MissionInv == MissionTypeOK /\ BegunOnCompletedWork

LEMMA MissionInitInv == MissionInit => MissionInv
<1>1. SUFFICES ASSUME MissionInit PROVE MissionInv
  OBVIOUS
<1>2. Begun = {}
  BY <1>1 DEF MissionInit, Begun
<1> QED BY <1>1, <1>2 DEF MissionInit, MissionInv, MissionTypeOK, BegunOnCompletedWork

(* A step is harmless when whatever is begun after it rests on what was    *)
(* completed before it: a group that waits for itself would have had to    *)
(* be completed first.                                                     *)
LEMMA BegunStep ==
  ASSUME MissionInv, MissionTypeOK',
         \A t \in Begun' : \A d \in depends'[t] : task[d] = "completed",
         \A t \in Tasks : task[t] = "completed" => task'[t] = "completed",
         \A t \in Begun : depends'[t] = depends[t],
         brought \subseteq brought'
  PROVE  BegunOnCompletedWork'
<1>1. \A t \in Begun' : \A d \in depends'[t] : d \in Tasks
  BY DEF Begun, MissionTypeOK
<1>2. ASSUME NEW group \in (SUBSET Begun') \ {{}}
      PROVE  \E t \in group : depends'[t] \cap group = {}
  <2>1. SUFFICES ASSUME \A t \in group : depends'[t] \cap group # {} PROVE FALSE
    OBVIOUS
  <2>2. ASSUME NEW t \in group PROVE \E d \in group \cap Begun : d \in depends'[t]
    <3>1. PICK d \in group : d \in depends'[t]
      BY <2>1
    <3>2. d \in Tasks /\ task[d] = "completed"
      BY <1>1, <1>2, <3>1
    <3> QED BY <3>1, <3>2 DEF Begun
  <2>3. group \cap Begun # {}
    BY <1>2, <2>2
  <2>4. PICK t \in group \cap Begun : depends[t] \cap (group \cap Begun) = {}
    BY <2>3 DEF MissionInv, BegunOnCompletedWork
  <2> QED BY <2>2, <2>4
<1> QED BY <1>1, <1>2 DEF BegunOnCompletedWork

LEMMA MissionStepInv == MissionInv /\ [MissionNext]_missionVars => MissionInv'
<1> SUFFICES ASSUME MissionInv, [MissionNext]_missionVars PROVE MissionInv'
  OBVIOUS
<1> USE DEF MissionInv
<1>1. ASSUME NEW t \in Tasks, NEW needed \in SUBSET Tasks, NEW given \in TaskState,
             AddTask(t, needed, given)
      PROVE  MissionInv'
  <2>1. MissionTypeOK'
    BY <1>1 DEF AddTask, MissionTypeOK, TaskState
  <2>2. /\ \A u \in Begun' : u \in Begun /\ depends'[u] = depends[u]
        /\ \A u \in Begun : depends'[u] = depends[u]
        /\ \A u \in Tasks : task[u] = "completed" => task'[u] = "completed"
        /\ brought \subseteq brought'
    BY <1>1 DEF AddTask, MissionTypeOK, Begun
  <2>3. \A u \in Begun' : \A d \in depends'[u] : task[d] = "completed"
    BY <2>2 DEF BegunOnCompletedWork
  <2> QED BY <2>1, <2>2, <2>3, BegunStep
<1>2. CASE RefreshReadiness
  <2>1. MissionTypeOK'
    BY <1>2 DEF RefreshReadiness, MissionTypeOK, TaskState
  <2>2. /\ \A u \in Begun' : u \in Begun \/ Met(u)
        /\ \A u \in Begun : depends'[u] = depends[u]
        /\ \A u \in Tasks : task[u] = "completed" => task'[u] = "completed"
        /\ brought \subseteq brought'
    BY <1>2 DEF RefreshReadiness, MissionTypeOK, Begun
  <2>3. \A u \in Begun' : \A d \in depends'[u] : task[d] = "completed"
    BY <1>2, <2>2 DEF BegunOnCompletedWork, RefreshReadiness, Met
  <2> QED BY <2>1, <2>2, <2>3, BegunStep
<1>3. ASSUME NEW t \in Tasks, NEW target \in TaskState, Transition(t, target) PROVE MissionInv'
  <2>1. MissionTypeOK'
    BY <1>3 DEF Transition, MissionTypeOK
  <2>2. /\ task[t] # "completed"
        /\ target \in {"ready", "running", "paused", "completed", "failed"} =>
             t \in Begun \cup brought
    BY <1>3 DEF Transition, AllowedTransitions, MissionTypeOK, TaskState, Begun
  <2>3. /\ \A u \in Begun' : u \in Begun
        /\ \A u \in Begun : depends'[u] = depends[u]
        /\ \A u \in Tasks : task[u] = "completed" => task'[u] = "completed"
        /\ brought \subseteq brought'
    BY <1>3, <2>2 DEF Transition, MissionTypeOK, Begun
  <2>4. \A u \in Begun' : \A d \in depends'[u] : task[d] = "completed"
    BY <2>3 DEF BegunOnCompletedWork
  <2> QED BY <2>1, <2>3, <2>4, BegunStep
<1>4. CASE UNCHANGED missionVars
  BY <1>4 DEF missionVars, MissionTypeOK, BegunOnCompletedWork, Begun
<1> QED BY <1>1, <1>2, <1>3, <1>4 DEF MissionNext

(* What the engine begins rests on completed work, and no group of tasks   *)
(* it began waits for itself, for any number of tasks, brought in with any *)
(* states and any dependencies.                                            *)
THEOREM MissionsOnSolidGround == MissionSpec => [](MissionTypeOK /\ BegunOnCompletedWork)
BY MissionInitInv, MissionStepInv, PTL DEF MissionSpec, MissionInv
-----------------------------------------------------------------------------
(***************************************************************************)
(* Releases.                                                               *)
(***************************************************************************)
StagedIsAManifest ==
  update.state \in {"staged", "pending_reboot", "verifying"} => update.staged \in Manifests

ReleaseInv == ReleaseTypeOK /\ StagedIsAManifest /\ WhatRunsWasReleased

LEMMA ReleaseStepInv == ReleaseInv /\ [ReleaseNext]_releaseVars => ReleaseInv'
<1> SUFFICES ASSUME ReleaseInv, [ReleaseNext]_releaseVars PROVE ReleaseInv'
  OBVIOUS
<1> USE DEF ReleaseInv, ReleaseTypeOK, StagedIsAManifest, WhatRunsWasReleased
<1>1. ASSUME NEW m \in Manifests, Stage(m), UNCHANGED mlopsVars PROVE ReleaseInv'
  BY <1>1 DEF Stage, StageVerified, StageRejected, mlopsVars, UpdateState
<1>2. CASE MarkRebootPending /\ UNCHANGED mlopsVars
  BY <1>2, ReleasesAssumption DEF MarkRebootPending, mlopsVars, UpdateState, Running
<1>3. CASE BeginBootVerification /\ UNCHANGED mlopsVars
  BY <1>3 DEF BeginBootVerification, mlopsVars, UpdateState
<1>4. ASSUME NEW healthy \in BOOLEAN, CompleteBootVerification(healthy), UNCHANGED mlopsVars
      PROVE  ReleaseInv'
  BY <1>4 DEF CompleteBootVerification, mlopsVars, UpdateState, Running
<1>5. ASSUME NEW r \in ModelReleases, NEW given \in ModelStage, RegisterRelease(r, given),
             UNCHANGED otaVars
      PROVE  ReleaseInv'
  BY <1>5 DEF RegisterRelease, otaVars, ModelStage
<1>6. ASSUME NEW r \in ModelReleases, NEW target \in ModelStage, Promote(r, target),
             UNCHANGED otaVars
      PROVE  ReleaseInv'
  <2>1. stage[r] = "production" => target \in {"rolled_back", "retired"}
    BY <1>6 DEF Promote, AllowedStages
  <2>2. production' # NoRelease => stage'[production'] = "production"
    BY <1>6, <2>1 DEF Promote, ModelStage
  <2>3. /\ stage' \in [ModelReleases -> ModelStage \cup {"absent"}]
        /\ production' \in ModelReleases \cup {NoRelease}
    BY <1>6 DEF Promote
  <2> QED BY <1>6, <2>2, <2>3 DEF otaVars
<1>7. CASE UNCHANGED releaseVars
  BY <1>7 DEF releaseVars, otaVars, mlopsVars
<1> QED BY <1>1, <1>2, <1>3, <1>4, <1>5, <1>6, <1>7 DEF ReleaseNext, OtaNext, MlopsNext

(* A boot verifies and commits the manifest that was staged when the       *)
(* reboot was marked, a failed one returns to what ran before, and the     *)
(* release in production is in that stage, for any manifests and releases. *)
THEOREM ReleasesAreWhatTheySeem == ReleaseSpec => [](ReleaseTypeOK /\ WhatRunsWasReleased)
<1>1. ReleaseInit => ReleaseInv
  BY DEF ReleaseInit, ReleaseInv, ReleaseTypeOK, StagedIsAManifest, WhatRunsWasReleased,
         UpdateState, Running
<1> QED BY <1>1, ReleaseStepInv, PTL DEF ReleaseSpec, ReleaseInv
-----------------------------------------------------------------------------
(***************************************************************************)
(* The impact of a failure.                                                *)
(***************************************************************************)
(* What depends on the failing system, or on one already visited, has been *)
(* found; and nothing else has.                                            *)
WalkIsOnTrack ==
  /\ Direct(failing) \subseteq impacted
  /\ \A s \in impacted \ frontier : Direct(s) \subseteq impacted
  /\ \A S \in SUBSET Nodes : Closed(S) => impacted \subseteq S

ImpactInv == ImpactTypeOK /\ WalkIsOnTrack

LEMMA ImpactStepInv == ImpactInv /\ [ImpactNext]_impactVars => ImpactInv'
<1> SUFFICES ASSUME ImpactInv, [ImpactNext]_impactVars PROVE ImpactInv'
  OBVIOUS
<1>1. CASE WalkStep
  <2>1. PICK s \in frontier : /\ impacted' = impacted \cup Found(s)
                              /\ frontier' = (frontier \ {s}) \cup Found(s)
    BY <1>1 DEF WalkStep
  <2>2. edges' = edges /\ failing' = failing
    BY <1>1 DEF WalkStep
  <2>3. ImpactTypeOK'
    BY <2>1, <2>2 DEF ImpactInv, ImpactTypeOK, Found, Direct
  <2>4. \A t \in impacted' \ frontier' : Direct(t) \subseteq impacted'
    BY <2>1 DEF ImpactInv, WalkIsOnTrack, Found
  <2>5. ASSUME NEW S \in SUBSET Nodes, Closed(S) PROVE impacted' \subseteq S
    <3>1. s \in S /\ s \in Nodes
      BY <2>5 DEF ImpactInv, ImpactTypeOK, WalkIsOnTrack
    <3>2. Direct(s) \subseteq S
      BY <2>5, <3>1 DEF Closed, Direct
    <3> QED BY <2>1, <2>5, <3>2 DEF ImpactInv, WalkIsOnTrack, Found
  <2> QED BY <2>1, <2>2, <2>3, <2>4, <2>5 DEF ImpactInv, WalkIsOnTrack, Direct, Closed
<1>2. CASE UNCHANGED impactVars
  BY <1>2 DEF ImpactInv, ImpactTypeOK, WalkIsOnTrack, Direct, Closed, impactVars
<1> QED BY <1>1, <1>2 DEF ImpactNext

(* A walk that has ended holds the least set that is closed under          *)
(* dependency, for any systems and dependencies, cycles included.          *)
THEOREM WalkFindsTheImpact == ImpactSpec => [](ImpactTypeOK /\ ImpactIsLeastClosed)
<1>1. ImpactInit => ImpactInv
  BY DEF ImpactInit, ImpactInv, ImpactTypeOK, WalkIsOnTrack, Direct, Closed
<1>2. ImpactInv => ImpactTypeOK /\ ImpactIsLeastClosed
  BY DEF ImpactInv, ImpactTypeOK, WalkIsOnTrack, ImpactIsLeastClosed, Closed, Direct
<1> QED BY <1>1, <1>2, ImpactStepInv, PTL DEF ImpactSpec
-----------------------------------------------------------------------------
(***************************************************************************)
(* The flows.                                                              *)
(***************************************************************************)
FlowShapes ==
  /\ subscribed \subseteq Subscribers
  /\ sequence \in 0 .. MaxEvents
  /\ inbox \in [Subscribers -> Seq(Nat)] /\ received \in [Subscribers -> Seq(Nat)]
  /\ \A s \in Subscribers : Len(inbox[s]) <= MaxQueue
  /\ owed \subseteq Subscribers \X (1 .. sequence)
  /\ now \in 0 .. MaxTime
  /\ allowed \in Seq(Nat) /\ bucket \subseteq 1 .. Len(allowed)

InOrder ==
  \A s \in Subscribers :
    \A i, j \in 1 .. Len(Seen(s)) : i < j => Seen(s)[i] < Seen(s)[j]

Accounted == Reached \subseteq owed /\ droppedEvents = Cardinality(owed \ Reached)

(* The bucket holds every time of the last minute, and no minute is        *)
(* overfull, whenever it begins.                                           *)
Limited ==
  /\ \A i \in 1 .. Len(allowed) : allowed[i] <= now
  /\ \A i \in 1 .. Len(allowed) : allowed[i] >= now - Minute => i \in bucket
  /\ \A t \in Nat : Cardinality(Within(t)) <= PerMinute

BusInv == InOrder /\ Accounted
FlowInv == FlowShapes /\ BusInv /\ Limited

LEMMA FlowInitInv == FlowInit => FlowInv
<1> SUFFICES ASSUME FlowInit PROVE FlowInv
  OBVIOUS
<1> USE FlowsAssumption
<1>1. FlowShapes
  BY DEF FlowInit, FlowShapes
<1>2. \A s \in Subscribers : Seen(s) = <<>>
  BY DEF FlowInit, Seen
<1>3. InOrder /\ Reached = {}
  BY <1>2 DEF InOrder, Reached
<1>4. Accounted
  BY <1>3, FS_EmptySet DEF FlowInit, Accounted
<1>5. \A t \in Nat : Within(t) = {}
  BY DEF FlowInit, Within
<1>6. Limited
  BY <1>5, FS_EmptySet DEF FlowInit, Limited
<1> QED BY <1>1, <1>3, <1>4, <1>6 DEF FlowInv, BusInv

(* What a subscriber has seen is a sequence of events that were due.       *)
LEMMA SeenFacts ==
  ASSUME FlowShapes, NEW s \in Subscribers
  PROVE  /\ Seen(s) \in Seq(Nat) /\ Len(Seen(s)) \in Nat
         /\ Len(Seen(s)) = Len(received[s]) + Len(inbox[s])
         /\ \A i \in 1 .. Len(Seen(s)) : Seen(s)[i] \in Nat
BY DEF Seen, FlowShapes

LEMMA ReachedIs ==
  ASSUME NEW s \in Subscribers, NEW n
  PROVE  <<s, n>> \in Reached <=> \E i \in 1 .. Len(Seen(s)) : Seen(s)[i] = n
BY DEF Reached

LEMMA SeenAreOwed ==
  ASSUME FlowInv, NEW s \in Subscribers, NEW i \in 1 .. Len(Seen(s))
  PROVE  <<s, Seen(s)[i]>> \in owed /\ Seen(s)[i] \in 1 .. sequence
<1>1. <<s, Seen(s)[i]>> \in Reached
  BY ReachedIs
<1> QED BY <1>1 DEF FlowInv, BusInv, Accounted, FlowShapes

LEMMA OwedFinite ==
  ASSUME FlowShapes
  PROVE  IsFiniteSet(owed) /\ IsFiniteSet(subscribed)
<1>1. IsFiniteSet(1 .. sequence)
  BY FlowsAssumption, FS_Interval DEF FlowShapes
<1>2. IsFiniteSet(Subscribers \X (1 .. sequence))
  BY <1>1, FlowsAssumption, FS_Product
<1> QED BY <1>2, FlowsAssumption, FS_Subset DEF FlowShapes

(* A step of the bus that shows no subscriber anything else.               *)
LEMMA BusKept ==
  ASSUME FlowInv, FlowShapes', UNCHANGED <<owed, droppedEvents, policyVars>>,
         \A s \in Subscribers : Seen(s)' = Seen(s)
  PROVE  FlowInv'
<1>1. InOrder' /\ Reached' = Reached
  BY DEF FlowInv, BusInv, InOrder, Reached
<1>2. Limited'
  BY DEF FlowInv, Limited, policyVars, Within
<1> QED BY <1>1, <1>2 DEF FlowInv, BusInv, Accounted

LEMMA SubscribeStep ==
  ASSUME FlowInv, UNCHANGED policyVars, NEW s \in Subscribers, Subscribe(s) \/ Unsubscribe(s)
  PROVE  FlowInv'
<1>1. FlowShapes'
  BY DEF FlowInv, FlowShapes, Subscribe, Unsubscribe, policyVars
<1>2. \A r \in Subscribers : Seen(r)' = Seen(r)
  BY DEF Subscribe, Unsubscribe, Seen
<1> QED BY <1>1, <1>2, BusKept DEF Subscribe, Unsubscribe

(* What leaves the queue is seen where it was.                             *)
LEMMA TakeOne ==
  ASSUME NEW a \in Seq(Nat), NEW b \in Seq(Nat), b # <<>>
  PROVE  Append(a, Head(b)) \o Tail(b) = a \o b
<1>1. /\ Append(a, Head(b)) \in Seq(Nat) /\ Tail(b) \in Seq(Nat)
      /\ Len(Append(a, Head(b))) = Len(a) + 1 /\ Len(Tail(b)) = Len(b) - 1
  OBVIOUS
<1>2. /\ Append(a, Head(b)) \o Tail(b) \in Seq(Nat) /\ a \o b \in Seq(Nat)
      /\ Len(Append(a, Head(b)) \o Tail(b)) = Len(a \o b)
  BY <1>1
<1>3. \A i \in 1 .. Len(a \o b) : (Append(a, Head(b)) \o Tail(b))[i] = (a \o b)[i]
  BY <1>1
<1> QED BY <1>2, <1>3

LEMMA TakeStep ==
  ASSUME FlowInv, UNCHANGED policyVars, NEW s \in Subscribers, Take(s)
  PROVE  FlowInv'
<1>1. inbox[s] \in Seq(Nat) /\ received[s] \in Seq(Nat) /\ inbox[s] # <<>>
  BY DEF FlowInv, FlowShapes, Take
<1>2. /\ Head(inbox[s]) \in Nat /\ Tail(inbox[s]) \in Seq(Nat)
      /\ Len(Tail(inbox[s])) <= Len(inbox[s]) /\ Len(Tail(inbox[s])) \in Nat
      /\ Len(inbox[s]) \in Nat
  BY <1>1
<1>3. /\ inbox' = [inbox EXCEPT ![s] = Tail(inbox[s])]
      /\ received' = [received EXCEPT ![s] = Append(received[s], Head(inbox[s]))]
      /\ UNCHANGED <<subscribed, sequence, droppedEvents, owed>>
  BY DEF Take
<1>4. FlowShapes'
  <2>1. inbox' \in [Subscribers -> Seq(Nat)] /\ received' \in [Subscribers -> Seq(Nat)]
    BY <1>1, <1>2, <1>3 DEF FlowInv, FlowShapes
  <2>2. \A r \in Subscribers : Len(inbox'[r]) <= MaxQueue
    BY <1>2, <1>3, FlowsAssumption DEF FlowInv, FlowShapes
  <2> QED BY <1>3, <2>1, <2>2 DEF FlowInv, FlowShapes, policyVars
<1>5. ASSUME NEW r \in Subscribers
      PROVE  Seen(r)' = Seen(r)
  <2>1. CASE r = s
    BY <1>1, <1>3, <2>1, TakeOne DEF Seen, FlowInv, FlowShapes
  <2>2. CASE r # s
    BY <1>3, <2>2 DEF Seen, FlowInv, FlowShapes
  <2> QED BY <2>1, <2>2
<1> QED BY <1>3, <1>4, <1>5, BusKept

(* Who has room sees the event after all the others, and nobody else does. *)
LEMMA AppendSeen ==
  ASSUME NEW a \in Seq(Nat), NEW b \in Seq(Nat), NEW n \in Nat
  PROVE  a \o Append(b, n) = Append(a \o b, n)
<1>1. /\ a \o Append(b, n) \in Seq(Nat) /\ Append(a \o b, n) \in Seq(Nat)
      /\ Len(a \o Append(b, n)) = Len(Append(a \o b, n))
  OBVIOUS
<1>2. \A i \in 1 .. Len(Append(a \o b, n)) : (a \o Append(b, n))[i] = Append(a \o b, n)[i]
  OBVIOUS
<1> QED BY <1>1, <1>2

LEMMA DisjointSum ==
  ASSUME NEW A, NEW B, IsFiniteSet(A), IsFiniteSet(B), A \cap B = {}
  PROVE  Cardinality(A \cup B) = Cardinality(A) + Cardinality(B)
<1>1. Cardinality(A \cup B) = Cardinality(A) + Cardinality(B) - Cardinality(A \cap B)
  BY FS_Union
<1>2. Cardinality(A \cap B) = 0
  BY FS_EmptySet
<1> QED BY <1>1, <1>2, FS_CardinalityType

LEMMA PublishEventStep ==
  ASSUME FlowInv, UNCHANGED policyVars, PublishNowait
  PROVE  FlowInv'
<1> DEFINE n == sequence + 1
<1> USE FlowsAssumption
<1>1. /\ sequence \in Nat /\ n \in 1 .. MaxEvents /\ sequence' = n /\ received' = received
      /\ subscribed' = subscribed /\ Full \subseteq subscribed /\ subscribed \subseteq Subscribers
      /\ inbox' = [s \in Subscribers |->
                     IF s \in subscribed \ Full THEN Append(inbox[s], n) ELSE inbox[s]]
      /\ owed' = owed \cup (subscribed \X {n})
      /\ droppedEvents' = droppedEvents + Cardinality(Full)
  BY DEF PublishNowait, FlowInv, FlowShapes, Full
<1> HIDE DEF n
<1>2. FlowShapes'
  <2>1. \A s \in Subscribers : inbox'[s] \in Seq(Nat) /\ Len(inbox'[s]) <= MaxQueue
    <3> SUFFICES ASSUME NEW s \in Subscribers
                 PROVE  inbox'[s] \in Seq(Nat) /\ Len(inbox'[s]) <= MaxQueue
      OBVIOUS
    <3>1. inbox[s] \in Seq(Nat) /\ Len(inbox[s]) \in Nat /\ Len(inbox[s]) <= MaxQueue
      BY DEF FlowInv, FlowShapes
    <3>2. CASE s \in subscribed \ Full
      BY <1>1, <3>1, <3>2 DEF Full
    <3>3. CASE s \notin subscribed \ Full
      BY <1>1, <3>1, <3>3
    <3> QED BY <3>2, <3>3
  <2>2. owed' \subseteq Subscribers \X (1 .. sequence')
    BY <1>1 DEF FlowInv, FlowShapes, n
  <2> QED BY <1>1, <2>1, <2>2 DEF FlowInv, FlowShapes, policyVars
<1>3. ASSUME NEW s \in Subscribers
      PROVE  Seen(s)' = IF s \in subscribed \ Full THEN Append(Seen(s), n) ELSE Seen(s)
  <2>1. received[s] \in Seq(Nat) /\ inbox[s] \in Seq(Nat) /\ n \in Nat
    BY <1>1 DEF FlowInv, FlowShapes
  <2> QED BY <1>1, <2>1, AppendSeen DEF Seen
<1>4. \A s \in Subscribers : \A i \in 1 .. Len(Seen(s)) : Seen(s)[i] \in 1 .. sequence
  BY SeenAreOwed
<1>5. InOrder'
  <2> SUFFICES ASSUME NEW s \in Subscribers,
                      NEW i \in 1 .. Len(Seen(s)'), NEW j \in 1 .. Len(Seen(s)'), i < j
               PROVE  Seen(s)'[i] < Seen(s)'[j]
    BY DEF InOrder
  <2>1. /\ Seen(s) \in Seq(Nat) /\ Len(Seen(s)) \in Nat
        /\ \A k, l \in 1 .. Len(Seen(s)) : k < l => Seen(s)[k] < Seen(s)[l]
    BY SeenFacts DEF FlowInv, BusInv, InOrder
  <2>2. CASE s \in subscribed \ Full
    <3>1. Seen(s)' = Append(Seen(s), n) /\ n \in Nat
      BY <1>1, <1>3, <2>2
    <3>2. /\ Len(Seen(s)') = Len(Seen(s)) + 1 /\ Seen(s)'[Len(Seen(s)) + 1] = n
          /\ \A k \in 1 .. Len(Seen(s)) : Seen(s)'[k] = Seen(s)[k]
      BY <2>1, <3>1
    <3>3. i \in 1 .. Len(Seen(s)) /\ j \in 1 .. Len(Seen(s)) + 1
      BY <2>1, <3>2
    <3>4. CASE j = Len(Seen(s)) + 1
      <4>1. Seen(s)[i] \in 1 .. sequence
        BY <1>4, <3>3
      <4> QED BY <1>1, <3>2, <3>3, <3>4, <4>1 DEF n
    <3>5. CASE j # Len(Seen(s)) + 1
      BY <2>1, <3>2, <3>3, <3>5
    <3> QED BY <3>4, <3>5
  <2>3. CASE s \notin subscribed \ Full
    BY <1>3, <2>1, <2>3
  <2> QED BY <2>2, <2>3
<1>6. Reached' = Reached \cup ((subscribed \ Full) \X {n})
  <2>1. ASSUME NEW s \in Subscribers, NEW e
        PROVE  <<s, e>> \in Reached' <=>
                 <<s, e>> \in Reached \/ (s \in subscribed \ Full /\ e = n)
    <3>1. <<s, e>> \in Reached' <=> \E i \in 1 .. Len(Seen(s)') : Seen(s)'[i] = e
      BY DEF Reached
    <3>2. Seen(s) \in Seq(Nat) /\ Len(Seen(s)) \in Nat
      BY SeenFacts DEF FlowInv
    <3>3. CASE s \in subscribed \ Full
      <4>1. Seen(s)' = Append(Seen(s), n) /\ n \in Nat
        BY <1>1, <1>3, <3>3
      <4>2. /\ Len(Seen(s)') = Len(Seen(s)) + 1 /\ Seen(s)'[Len(Seen(s)) + 1] = n
            /\ \A k \in 1 .. Len(Seen(s)) : Seen(s)'[k] = Seen(s)[k]
        BY <3>2, <4>1
      <4>3. (\E i \in 1 .. Len(Seen(s)') : Seen(s)'[i] = e)
              <=> (\E i \in 1 .. Len(Seen(s)) : Seen(s)[i] = e) \/ e = n
        BY <3>2, <4>2
      <4> QED BY <3>1, <3>3, <4>3, ReachedIs
    <3>4. CASE s \notin subscribed \ Full
      BY <1>3, <3>1, <3>4, ReachedIs
    <3> QED BY <3>3, <3>4
  <2>2. /\ \A pair \in Reached' : \E s \in Subscribers : \E e : pair = <<s, e>>
        /\ \A pair \in Reached : \E s \in Subscribers : \E e : pair = <<s, e>>
    BY DEF Reached
  <2> QED BY <1>1, <2>1, <2>2
<1>7. Accounted'
  <2>1. Reached \subseteq owed /\ droppedEvents = Cardinality(owed \ Reached)
    BY DEF FlowInv, BusInv, Accounted
  <2>2. \A pair \in owed : pair[2] # n
    BY <1>1 DEF FlowInv, FlowShapes, n
  <2>3. Reached' \subseteq owed'
    BY <1>1, <1>6, <2>1
  <2>4. owed' \ Reached' = (owed \ Reached) \cup (Full \X {n})
    BY <1>1, <1>6, <2>1, <2>2
  <2>5. (owed \ Reached) \cap (Full \X {n}) = {}
    BY <2>2
  <2>6. /\ IsFiniteSet(owed \ Reached) /\ Cardinality(owed \ Reached) \in Nat
        /\ IsFiniteSet(Full) /\ Cardinality(Full) \in Nat
    BY <1>1, OwedFinite, FS_Subset, FS_CardinalityType DEF FlowInv
  <2>7. IsFiniteSet(Full \X {n}) /\ Cardinality(Full \X {n}) = Cardinality(Full)
    <3>1. IsFiniteSet({n}) /\ Cardinality({n}) = 1
      BY FS_Singleton
    <3> QED BY <2>6, <3>1, FS_Product
  <2>8. Cardinality(owed' \ Reached') = Cardinality(owed \ Reached) + Cardinality(Full)
    <3>1. Cardinality((owed \ Reached) \cup (Full \X {n}))
            = Cardinality(owed \ Reached) + Cardinality(Full \X {n})
      BY <2>5, <2>6, <2>7, DisjointSum
    <3> QED BY <2>4, <2>7, <3>1
  <2> QED BY <1>1, <2>1, <2>3, <2>8 DEF Accounted
<1>8. Limited'
  BY DEF FlowInv, Limited, policyVars, Within
<1> QED BY <1>2, <1>5, <1>7, <1>8 DEF FlowInv, BusInv

(* A request that is allowed now is in a minute whose requests are all     *)
(* still in the bucket.                                                    *)
LEMMA EvaluateStep ==
  ASSUME FlowInv, UNCHANGED busVars, Evaluate
  PROVE  FlowInv'
<1> USE FlowsAssumption
<1> DEFINE kept == Recent(bucket)
           n == Len(allowed)
<1>1. /\ now \in Nat /\ now' = now /\ allowed \in Seq(Nat) /\ n \in Nat
      /\ kept \subseteq 1 .. n /\ \A i \in 1 .. n : allowed[i] \in Nat /\ allowed[i] <= now
      /\ \A i \in 1 .. n : allowed[i] >= now - Minute => i \in kept
  <2>1. now \in Nat /\ now' = now /\ allowed \in Seq(Nat) /\ n \in Nat /\ bucket \subseteq 1 .. n
    BY DEF Evaluate, FlowInv, FlowShapes
  <2>2. \A i \in 1 .. n : allowed[i] \in Nat /\ allowed[i] <= now
    BY <2>1 DEF FlowInv, Limited
  <2>3. \A i \in 1 .. n : allowed[i] >= now - Minute => i \in bucket
    BY DEF FlowInv, Limited
  <2> QED BY <2>1, <2>2, <2>3 DEF Recent
<1>2. \A s \in Subscribers : Seen(s)' = Seen(s)
  BY DEF busVars, Seen
<1>3. BusInv'
  <2>1. InOrder' /\ Reached' = Reached
    BY <1>2 DEF FlowInv, BusInv, InOrder, Reached
  <2> QED BY <2>1 DEF FlowInv, BusInv, Accounted, busVars
<1>4. CASE bucket' = kept /\ allowed' = allowed
  <2>1. FlowShapes'
    BY <1>1, <1>4 DEF FlowInv, FlowShapes, busVars
  <2>2. Limited'
    BY <1>1, <1>4 DEF FlowInv, Limited, Within
  <2> QED BY <1>3, <2>1, <2>2 DEF FlowInv
<1>5. CASE /\ ~ (Cardinality(kept) >= PerMinute)
           /\ allowed' = Append(allowed, now) /\ bucket' = kept \cup {n + 1}
  <2>1. /\ allowed' \in Seq(Nat) /\ Len(allowed') = n + 1 /\ allowed'[n + 1] = now
        /\ \A i \in 1 .. n : allowed'[i] = allowed[i]
    BY <1>1, <1>5
  <2>2. FlowShapes'
    BY <1>1, <1>5, <2>1 DEF FlowInv, FlowShapes, busVars
  <2> HIDE DEF kept, n
  <2>3. /\ \A i \in 1 .. Len(allowed') : allowed'[i] <= now'
        /\ \A i \in 1 .. Len(allowed') : allowed'[i] >= now' - Minute => i \in bucket'
    BY <1>1, <1>5, <2>1
  <2>4. ASSUME NEW t \in Nat
        PROVE  Cardinality(Within(t)') <= PerMinute
    <3>1. CASE now <= t + Minute
      <4>1. Within(t)' \subseteq kept \cup {n + 1}
        BY <1>1, <2>1, <3>1 DEF Within
      <4>2. IsFiniteSet(kept) /\ Cardinality(kept) \in Nat /\ Cardinality(kept) < PerMinute
        <5>1. IsFiniteSet(1 .. n)
          BY <1>1, FS_Interval
        <5>2. IsFiniteSet(kept) /\ Cardinality(kept) \in Nat
          BY <1>1, <5>1, FS_Subset, FS_CardinalityType
        <5> QED BY <1>5, <5>2
      <4>3. n + 1 \notin kept
        BY <1>1
      <4>4. IsFiniteSet(kept \cup {n + 1}) /\ Cardinality(kept \cup {n + 1}) = Cardinality(kept) + 1
        BY <4>2, <4>3, FS_AddElement
      <4>5. /\ Cardinality(Within(t)') <= Cardinality(kept \cup {n + 1})
            /\ Cardinality(Within(t)') \in Nat
        BY <4>1, <4>4, FS_Subset, FS_CardinalityType
      <4> QED BY <4>2, <4>4, <4>5
    <3>2. CASE ~ (now <= t + Minute)
      <4>1. Within(t)' = Within(t)
        BY <1>1, <2>1, <3>2 DEF Within, n
      <4> QED BY <4>1 DEF FlowInv, Limited
    <3> QED BY <3>1, <3>2
  <2>5. Limited'
    BY <2>3, <2>4 DEF Limited
  <2> QED BY <1>3, <2>2, <2>5 DEF FlowInv
<1> QED BY <1>4, <1>5 DEF Evaluate

LEMMA TimeStep ==
  ASSUME FlowInv, TimePasses, UNCHANGED busVars
  PROVE  FlowInv'
<1> USE FlowsAssumption
<1>1. FlowShapes'
  BY DEF TimePasses, busVars, FlowInv, FlowShapes
<1>2. \A s \in Subscribers : Seen(s)' = Seen(s)
  BY DEF busVars, Seen
<1>3. BusInv'
  <2>1. InOrder' /\ Reached' = Reached
    BY <1>2 DEF FlowInv, BusInv, InOrder, Reached
  <2> QED BY <2>1 DEF FlowInv, BusInv, Accounted, busVars
<1>4. \A i \in 1 .. Len(allowed) : allowed[i] \in Nat
  BY DEF FlowInv, FlowShapes
<1>5. Limited'
  <2>1. now \in Nat /\ now' = now + 1 /\ allowed' = allowed /\ bucket' = bucket
    BY DEF TimePasses, FlowInv, FlowShapes
  <2>2. \A i \in 1 .. Len(allowed') : allowed'[i] <= now'
    <3> SUFFICES ASSUME NEW i \in 1 .. Len(allowed) PROVE allowed[i] <= now + 1
      BY <2>1
    <3> QED BY <1>4, <2>1 DEF FlowInv, Limited
  <2>3. \A i \in 1 .. Len(allowed') : allowed'[i] >= now' - Minute => i \in bucket'
    <3> SUFFICES ASSUME NEW i \in 1 .. Len(allowed), allowed[i] >= now + 1 - Minute
                 PROVE  i \in bucket
      BY <2>1
    <3> QED BY <1>4, <2>1 DEF FlowInv, Limited
  <2>4. \A t \in Nat : Cardinality(Within(t)') <= PerMinute
    <3>1. \A t \in Nat : Within(t)' = Within(t)
      BY <2>1 DEF Within
    <3> QED BY <3>1 DEF FlowInv, Limited
  <2> QED BY <2>2, <2>3, <2>4, Zenon DEF Limited
<1> QED BY <1>1, <1>3, <1>5 DEF FlowInv

LEMMA FlowStepInv == FlowInv /\ [FlowNext]_flowVars => FlowInv'
<1> SUFFICES ASSUME FlowInv, [FlowNext]_flowVars PROVE FlowInv'
  OBVIOUS
<1>1. CASE BusNext /\ UNCHANGED policyVars
  BY <1>1, SubscribeStep, TakeStep, PublishEventStep DEF BusNext
<1>2. CASE (Evaluate \/ TimePasses) /\ UNCHANGED busVars
  BY <1>2, EvaluateStep, TimeStep
<1>3. CASE UNCHANGED flowVars
  <2>1. FlowShapes'
    BY <1>3 DEF flowVars, busVars, policyVars, FlowInv, FlowShapes
  <2>2. \A s \in Subscribers : Seen(s)' = Seen(s)
    BY <1>3 DEF flowVars, busVars, Seen
  <2> QED BY <1>3, <2>1, <2>2, BusKept DEF flowVars, busVars
<1> QED BY <1>1, <1>2, <1>3 DEF FlowNext

LEMMA FlowInvariance == FlowSpec => []FlowInv
BY FlowInitInv, FlowStepInv, PTL DEF FlowSpec

(* No queue of the bus holds more than it may.                             *)
THEOREM FlowTypeCorrect == FlowSpec => []FlowTypeOK
<1>1. FlowInv => FlowTypeOK
  BY DEF FlowInv, FlowShapes, FlowTypeOK
<1> QED BY <1>1, FlowInvariance, PTL

(* For any number of subscribers, queues, events and requests, a delivery  *)
(* that was due is taken, waiting or counted as dropped, readers see       *)
(* events in their order, and no minute holds more requests than           *)
(* requests_per_minute.                                                    *)
THEOREM FlowsAlwaysAccounted == FlowSpec => []FlowsAreAccounted
<1>1. FlowInv => FlowsAreAccounted
  BY FlowsAssumption DEF FlowInv, FlowShapes, BusInv, InOrder, Accounted, Limited, FlowsAreAccounted
<1> QED BY <1>1, FlowInvariance, PTL
=============================================================================
