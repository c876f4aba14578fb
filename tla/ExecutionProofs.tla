-------------------------- MODULE ExecutionProofs --------------------------
(***************************************************************************)
(* What holds of executed actions for every number of jobs, keys, loops    *)
(* and sessions: the queue is still the queue of module Scheduler, nothing *)
(* is performed twice under one key, and every key that was begun is       *)
(* accounted for.                                                          *)
(***************************************************************************)
EXTENDS Execution, SchedulerProofs, SequenceTheorems, FiniteSetTheorems

-----------------------------------------------------------------------------
(***************************************************************************)
(* The inductive invariant.                                                *)
(***************************************************************************)

(* A loop is in the adapter exactly while it executes a job.               *)
StageOK ==
  /\ stage \in [Workers -> Stages]
  /\ \A w \in Workers : stage[w] = "none" <=> pc[w] # "executing"

(* A letter holds the payload of a job: its own key, or one that was in    *)
(* the payload.                                                            *)
LettersOK ==
  /\ dead \in Seq(Letter)
  /\ \A d \in Letters : Owns(dead[d].job, dead[d])
  /\ replay \in [Replayers -> [phase : {"none", "read", "queued"}, letter : Nat, count : Nat]]
  /\ \A h \in Replayers : replay[h].phase # "none" => replay[h].letter \in Letters
  /\ replayJobs \subseteq Nat \X Jobs

InAdapter == {"send", "complete", "unencoded", "closed", "bury"}

(* The records: a loop that performs an action holds its key, alone, and   *)
(* the key is closed before its loop is done only when the failure to      *)
(* encode the result was recorded.                                         *)
RecordsOK ==
  /\ started \subseteq Keys
  /\ completed \subseteq Keys
  /\ lost \subseteq Keys
  /\ started \cap completed = {}
  /\ \A w \in Workers : stage[w] \in Open => Key(w) \in started
  /\ \A w \in Workers : stage[w] = "closed" => Key(w) \in completed
  /\ \A v, w \in Workers :
       stage[v] \in InAdapter /\ stage[w] \in InAdapter /\ Key(v) = Key(w) => v = w

EffectsOK ==
  /\ effects \in Seq(Keys)
  /\ \A n \in 1 .. Len(effects) : effects[n] \in started \cup completed
  /\ \A w \in Workers : stage[w] = "send" =>
       \A n \in 1 .. Len(effects) : effects[n] # Key(w)
  /\ \A w \in Workers : stage[w] \in {"complete", "unencoded"} =>
       \E n \in 1 .. Len(effects) : effects[n] = Key(w)
  /\ \A k \in completed : \E n \in 1 .. Len(effects) : effects[n] = k
  /\ \A m, n \in 1 .. Len(effects) : effects[m] = effects[n] => m = n

(* The letters: nobody works on the key of a letter, which stays started   *)
(* or, if its result could not be encoded, is completed; a started key has *)
(* a loop, a letter, or was lost.                                          *)
BurialOK ==
  /\ \A d \in 1 .. Len(dead) :
       /\ dead[d].key \in IF dead[d].error = "action" THEN started ELSE completed
       /\ \A w \in Workers : stage[w] \in InAdapter => Key(w) # dead[d].key
  /\ \A d, e \in 1 .. Len(dead) : dead[d].key = dead[e].key => d = e
  /\ \A k \in started :
       \/ \E w \in Workers : stage[w] \in Open /\ Key(w) = k
       \/ \E d \in 1 .. Len(dead) : dead[d].key = k
       \/ k \in lost

ExecutionInv ==
  SchedulerInv /\ OwnKeys /\ StageOK /\ LettersOK /\ RecordsOK /\ EffectsOK /\ BurialOK

LEMMA InitExecutionInv == ExecutionInit => ExecutionInv
<1> SUFFICES ASSUME ExecutionInit PROVE ExecutionInv
  OBVIOUS
<1>1. SchedulerInv /\ OwnKeys
  BY InitInv, InitOwnKeys DEF ExecutionInit
<1>2. StageOK
  BY DEF ExecutionInit, Init, StageOK, Stages
<1>3. LettersOK
  BY DEF ExecutionInit, LettersOK, NoReplay, Letters
<1>4. RecordsOK
  BY DEF ExecutionInit, Init, RecordsOK, InAdapter, Open
<1>5. EffectsOK
  BY DEF ExecutionInit, EffectsOK
<1>6. BurialOK
  BY DEF ExecutionInit, BurialOK
<1> QED BY <1>1, <1>2, <1>3, <1>4, <1>5, <1>6 DEF ExecutionInv
-----------------------------------------------------------------------------
(***************************************************************************)
(* The steps as steps of the scheduler.                                    *)
(***************************************************************************)

(* A replayed job is an enqueued job.                                      *)
LEMMA ReplayEnqueues ==
  ASSUME ExecutionInv, NEW h \in Replayers, NEW j \in Jobs, ReplayEnqueue(h, j)
  PROVE  Enqueue(j)
<1> DEFINE d == replay[h].letter
           key == IF dead[d].key = dead[d].job THEN j ELSE dead[d].key
<1>1. d \in Letters
  BY DEF ReplayEnqueue, ExecutionInv, LettersOK
<1>2. Owns(dead[d].job, dead[d])
  BY <1>1 DEF ExecutionInv, LettersOK
<1>3. dead[d].repeat \in Repeats /\ key \in {j} \cup ClientKeys \cup minted
  BY <1>2 DEF Owns, OwnAmong
<1>4. Inserted(j, "queued", ReplayLimit, dead[d].repeat, key)
  BY DEF ReplayEnqueue
<1> HIDE DEF d, key
<1> QED BY <1>3, <1>4, ReplayLimitAssumption DEF ReplayEnqueue, Enqueue, d

LEMMA StepIsSchedulerStep ==
  ASSUME ExecutionInv, [ExecutionNext]_executionVars
  PROVE  [Next]_queueVars
<1>1. CASE QueueStep
  BY <1>1 DEF Next
<1>2. ASSUME NEW w \in Workers, AdapterStep(w) PROVE [Next]_queueVars
  <2>1. ASSUME NEW j \in Jobs, Execute(w, j) PROVE Next
    BY <2>1 DEF Execute, Next
  <2>2. CASE BeginKnown(w) \/ Complete(w) \/ Bury(w)
    <3>1. AdapterEnds(w, TRUE) \/ AdapterEnds(w, FALSE)
      <4>1. CASE Complete(w) \/ Bury(w)
        BY <4>1 DEF Complete, Bury
      <4>2. CASE BeginKnown(w)
        BY <4>2 DEF BeginKnown, AdapterEnds
      <4> QED BY <2>2, <4>1, <4>2
    <3> QED BY <3>1 DEF Next
  <2>3. CASE InsertFails(w)
    BY <2>3 DEF InsertFails, Next
  <2>4. CASE \/ BeginNew(w) \/ Insert(w) \/ SendRefused(w) \/ Send(w, TRUE) \/ Send(w, FALSE)
             \/ CompleteFails(w) \/ RecordFailure(w)
    BY <2>4 DEF BeginNew, Insert, SendRefused, Send, CompleteFails, RecordFailure
  <2> QED BY <1>2, <2>1, <2>2, <2>3, <2>4 DEF AdapterStep
<1>3. ASSUME NEW w \in Workers, Die(w) PROVE Next
  BY <1>3 DEF Die, Next
<1>4. ASSUME NEW h \in Replayers, ReplayStep(h) PROVE [Next]_queueVars
  <2>1. ASSUME NEW j \in Jobs, ReplayEnqueue(h, j) PROVE Next
    BY <2>1, ReplayEnqueues DEF Next, QueueStep
  <2>2. ASSUME NEW d \in Letters, ReplayRead(h, d) PROVE UNCHANGED queueVars
    BY <2>2 DEF ReplayRead
  <2>3. CASE ReplayMark(h) \/ ReplayDropped(h)
    BY <2>3 DEF ReplayMark, ReplayDropped
  <2> QED BY <1>4, <2>1, <2>2, <2>3 DEF ReplayStep
<1>5. CASE UNCHANGED executionVars
  BY <1>5 DEF executionVars
<1> QED BY <1>1, <1>2, <1>3, <1>4, <1>5 DEF ExecutionNext
-----------------------------------------------------------------------------
(***************************************************************************)
(* The invariant is kept by every step.                                    *)
(***************************************************************************)

LEMMA MintedGrows ==
  ASSUME [Next]_queueVars
  PROVE  minted \subseteq minted'
  BY DEF Next, QueueStep, Enqueue, BecomeDue, ClaimRead, ClaimCommit, Settle,
         SettleRaises, CommitMark, CancelCommit, ReportCommit, RequestDropped, CancelRead,
         ReportRead, Read, Start, AdapterEnds, Escape, Crash, queueVars

(* The queue does not touch the session of a loop that executes a job, and *)
(* starts no execution.                                                    *)
LEMMA QueueFrame ==
  ASSUME SchedulerInv, QueueStep, NEW w \in Workers
  PROVE  /\ pc[w] = "executing" <=> pc'[w] = "executing"
         /\ pc[w] = "executing" => current'[w] = current[w] /\ loaded'[w] = loaded[w]
<1> USE DEF SchedulerInv, TypeOK
<1>1. ASSUME NEW v \in Workers, ClaimRead(v) \/ ClaimCommit(v) \/ Settle(v) \/ SettleRaises(v)
      PROVE  /\ pc[v] # "executing" /\ pc'[v] # "executing"
             /\ v # w => /\ pc'[w] = pc[w] /\ current'[w] = current[w]
                         /\ loaded'[w] = loaded[w]
  <2>1. CASE ClaimRead(v)
    BY <2>1 DEF ClaimRead
  <2>2. CASE ClaimCommit(v)
    BY <2>2 DEF ClaimCommit
  <2>3. CASE Settle(v)
    BY <2>3 DEF Settle
  <2>4. CASE SettleRaises(v)
    BY <2>4 DEF SettleRaises, Drop
  <2> QED BY <1>1, <2>1, <2>2, <2>3, <2>4
<1>2. CASE UNCHANGED <<pc, current, loaded>>
  BY <1>2
<1> QED BY <1>1, <1>2 DEF QueueStep, Enqueue, BecomeDue, CancelCommit, ReportCommit,
                          RequestDropped, CancelRead, ReportRead, Read

(* A loop keeps its key from one stage to the next.                        *)
KeyKept == \A w \in Workers : stage[w] # "none" /\ stage'[w] # "none" => Key(w)' = Key(w)

LEMMA KeyFrame ==
  ASSUME ExecutionInv, [ExecutionNext]_executionVars
  PROVE  KeyKept
<1> USE DEF ExecutionInv
<1>1. CASE QueueStep /\ UNCHANGED <<stage, adapterVars, replayVars>>
  BY <1>1, QueueFrame DEF KeyKept, Key, StageOK
<1>2. ASSUME NEW w \in Workers, AdapterStep(w) \/ Die(w) PROVE KeyKept
  <2>1. \A v \in Workers : v # w => current'[v] = current[v] /\ loaded'[v] = loaded[v]
    BY <1>2 DEF AdapterStep, Die, Crash, Execute, Start, BeginKnown, BeginNew, Insert,
                InsertFails, Escape, Drop, SendRefused, Send, Complete, CompleteFails,
                RecordFailure, FlushMark, Bury, AdapterEnds,
                queueVars, SchedulerInv, TypeOK
  <2>2. stage[w] = "none" \/ stage'[w] = "none" \/ UNCHANGED queueVars
    BY <1>2 DEF AdapterStep, Die, Crash, Execute, Start, BeginKnown, BeginNew, Insert,
                InsertFails, SendRefused, Send, Complete, CompleteFails,
                RecordFailure, FlushMark, Bury, GoTo, StageOK
  <2> QED BY <2>1, <2>2 DEF KeyKept, Key, queueVars
<1>3. ASSUME NEW h \in Replayers, ReplayStep(h) PROVE KeyKept
  BY <1>3 DEF ReplayStep, ReplayRead, ReplayEnqueue, ReplayMark, ReplayDropped, KeyKept, Key,
              queueVars
<1>4. CASE UNCHANGED executionVars
  BY <1>4 DEF executionVars, queueVars, KeyKept, Key
<1> QED BY <1>1, <1>2, <1>3, <1>4 DEF ExecutionNext

LEMMA StageStep ==
  ASSUME ExecutionInv, [ExecutionNext]_executionVars
  PROVE  StageOK'
<1> USE DEF ExecutionInv, StageOK
<1>1. CASE QueueStep /\ UNCHANGED <<stage, adapterVars, replayVars>>
  BY <1>1, QueueFrame
<1>2. ASSUME NEW w \in Workers, AdapterStep(w) \/ Die(w) PROVE StageOK'
  BY <1>2 DEF AdapterStep, Die, Crash, Execute, Start, BeginKnown, BeginNew, Insert,
              InsertFails, Escape, Drop, SendRefused, Send, Complete, CompleteFails,
              RecordFailure, FlushMark, Bury, AdapterEnds,
              GoTo, Stages, queueVars, SchedulerInv, TypeOK
<1>3. ASSUME NEW h \in Replayers, ReplayStep(h) PROVE StageOK'
  BY <1>3 DEF ReplayStep, ReplayRead, ReplayEnqueue, ReplayMark, ReplayDropped, queueVars
<1>4. CASE UNCHANGED executionVars
  BY <1>4 DEF executionVars, queueVars
<1> QED BY <1>1, <1>2, <1>3, <1>4 DEF ExecutionNext

(* The key of a loop in the adapter is a key.                              *)
LEMMA KeyType ==
  ASSUME ExecutionInv, NEW w \in Workers, stage[w] # "none"
  PROVE  Key(w) \in Keys /\ current[w] \in Jobs /\ loaded[w][current[w]] \in JobRow
<1>1. current[w] \in batch[w] /\ current[w] \in Jobs
  BY DEF ExecutionInv, StageOK, SchedulerInv, LoopsOK, TypeOK
<1>2. loaded[w][current[w]] \in JobRow
  BY <1>1 DEF ExecutionInv, SchedulerInv, TypeOK
<1> QED BY <1>1, <1>2 DEF Key, JobRow

(* The steps that complete a record: complete_idempotent, or the commit    *)
(* that finds its mark in the session.                                     *)
Closing(w) ==
  /\ stage[w] \in {"complete", "unencoded"}
  /\ stage' \in {[stage EXCEPT ![w] = "none"], [stage EXCEPT ![w] = "closed"]}
  /\ started' = started \ {Key(w)}
  /\ completed' = completed \cup {Key(w)}
  /\ UNCHANGED <<effects, lost>>

LEMMA RecordsChange ==
  ASSUME ExecutionInv, NEW w \in Workers, AdapterStep(w) \/ Die(w)
  PROVE  /\ \/ Insert(w)
            \/ Closing(w)
            \/ UNCHANGED <<started, completed>>
         /\ Complete(w) \/ RecordFailure(w) => Closing(w)
         /\ Bury(w) => IF stage[w] = "unencoded" THEN Closing(w)
                       ELSE UNCHANGED <<started, completed>>
<1>1. Complete(w) => Closing(w)
  BY DEF Complete, Closing, GoTo
<1>2. RecordFailure(w) => Closing(w)
  BY DEF RecordFailure, FlushMark, Closing, GoTo
<1>3. Bury(w) => IF stage[w] = "unencoded" THEN Closing(w) ELSE UNCHANGED <<started, completed>>
  BY DEF Bury, FlushMark, Closing, GoTo
<1>4. \/ Insert(w) \/ Complete(w) \/ RecordFailure(w) \/ Bury(w)
      \/ UNCHANGED <<started, completed>>
  BY DEF AdapterStep, Die, Execute, BeginKnown, BeginNew, InsertFails, SendRefused, Send,
         CompleteFails, adapterVars
<1> QED BY <1>1, <1>2, <1>3, <1>4

(* Who is in the adapter after a step was there before, but for the loop   *)
(* that inserts a record.                                                  *)
LEMMA PerformersKept ==
  ASSUME ExecutionInv, [ExecutionNext]_executionVars, NEW w \in Workers,
         stage'[w] \in InAdapter
  PROVE  /\ Key(w)' = Key(w)
         /\ stage[w] \in InAdapter \/ Insert(w)
         /\ stage'[w] = "closed" => stage[w] = "closed" \/ Closing(w)
         /\ stage'[w] = "unencoded" => stage[w] \in {"complete", "unencoded"}
<1> DEFINE Traced == /\ stage[w] \in InAdapter \/ Insert(w)
                     /\ stage'[w] = "closed" => stage[w] = "closed" \/ RecordFailure(w)
                     /\ stage'[w] = "unencoded" => stage[w] \in {"complete", "unencoded"}
<1>1. Traced
  <2>1. ASSUME NEW v \in Workers, AdapterStep(v) \/ Die(v) PROVE Traced
    BY <2>1 DEF AdapterStep, Die, Execute, BeginKnown, BeginNew, Insert, InsertFails,
                SendRefused, Send, Complete, CompleteFails,
                RecordFailure, FlushMark, Bury, GoTo, InAdapter, ExecutionInv, StageOK
  <2>2. CASE UNCHANGED stage
    BY <2>2
  <2> QED BY <2>1, <2>2 DEF ExecutionNext, executionVars, ReplayStep, ReplayRead,
                             ReplayEnqueue, ReplayMark, ReplayDropped
<1>2. stage[w] # "none" /\ stage'[w] # "none"
  BY <1>1 DEF InAdapter, Insert
<1>3. RecordFailure(w) => Closing(w)
  BY DEF RecordFailure, FlushMark, Closing, GoTo
<1> QED BY <1>1, <1>2, <1>3, KeyFrame DEF KeyKept

LEMMA RecordsStep ==
  ASSUME ExecutionInv, [ExecutionNext]_executionVars
  PROVE  RecordsOK'
<1> USE DEF RecordsOK
<1>0. RecordsOK
  BY DEF ExecutionInv
<1>1. ASSUME NEW w \in Workers, Insert(w) PROVE RecordsOK'
  <2>1. Key(w) \in Keys
    BY <1>1, KeyType DEF Insert
  <2>2. \A v \in Workers : stage'[v] \in InAdapter =>
          /\ Key(v)' = Key(v) /\ (v = w \/ stage[v] \in InAdapter)
          /\ stage'[v] = IF v = w THEN "send" ELSE stage[v]
    BY <1>1, PerformersKept DEF Insert, GoTo, ExecutionInv, StageOK
  <2>3. /\ started' = started \cup {Key(w)} /\ completed' = completed /\ lost' = lost
        /\ Key(w) \notin started \cup completed
    BY <1>1 DEF Insert
  <2> QED BY <1>0, <2>1, <2>2, <2>3 DEF InAdapter, Open
<1>2. ASSUME NEW w \in Workers, Closing(w) PROVE RecordsOK'
  <2>1. Key(w) \in Keys /\ stage[w] \in Open /\ stage[w] # "none"
    BY <1>2, KeyType DEF Closing, Open
  <2>2. \A v \in Workers : stage'[v] \in InAdapter =>
          Key(v)' = Key(v) /\ stage[v] \in InAdapter
    BY <1>2, PerformersKept DEF Closing, Insert, InAdapter, ExecutionInv, StageOK
  <2>3. \A v \in Workers : v # w => stage'[v] = stage[v]
    BY <1>2 DEF Closing, ExecutionInv, StageOK
  <2>4. stage'[w] \in {"none", "closed"}
    BY <1>2 DEF Closing, ExecutionInv, StageOK
  <2>5. \A v \in Workers : v # w /\ stage[v] \in InAdapter => Key(v) # Key(w)
    BY <1>0, <2>1 DEF InAdapter, Open
  <2> QED BY <1>0, <1>2, <2>1, <2>2, <2>3, <2>4, <2>5 DEF Closing, InAdapter, Open
<1>3. CASE /\ UNCHANGED <<started, completed>>
           /\ lost' \subseteq Keys
           /\ ~\E w \in Workers : Insert(w) \/ Closing(w)
  <2>1. \A v \in Workers : stage'[v] \in InAdapter =>
          /\ Key(v)' = Key(v) /\ stage[v] \in InAdapter
          /\ stage'[v] = "closed" => stage[v] = "closed"
    BY <1>3, PerformersKept
  <2>2. ASSUME NEW v \in Workers, stage'[v] \in Open PROVE stage[v] \in Open
    <3>1. ASSUME NEW w \in Workers, AdapterStep(w) \/ Die(w) PROVE stage[v] \in Open
      BY <1>3, <2>2, <3>1
         DEF AdapterStep, Die, Execute, BeginKnown, BeginNew, InsertFails, SendRefused, Send,
             Complete, CompleteFails, RecordFailure, Bury, GoTo, Open, ExecutionInv, StageOK
    <3>2. CASE UNCHANGED stage
      BY <2>2, <3>2
    <3> QED BY <3>1, <3>2 DEF ExecutionNext, executionVars, ReplayStep, ReplayRead,
                              ReplayEnqueue, ReplayMark, ReplayDropped
  <2> QED BY <1>0, <1>3, <2>1, <2>2 DEF InAdapter, Open
<1>4. ASSUME NEW w \in Workers, AdapterStep(w) \/ Die(w)
      PROVE  lost' \subseteq Keys
  <2>1. lost' = lost \/ (stage[w] \in Open /\ lost' = lost \cup {Key(w)})
    BY <1>4 DEF AdapterStep, Die, Execute, BeginKnown, BeginNew, Insert, InsertFails,
                SendRefused, Send, Complete, CompleteFails, RecordFailure, Bury, adapterVars
  <2> QED BY <1>0, <2>1, KeyType DEF Open
<1>5. ASSUME NEW h \in Replayers, ReplayStep(h) PROVE UNCHANGED <<started, completed, lost>>
  BY <1>5 DEF ReplayStep, ReplayRead, ReplayEnqueue, ReplayMark, ReplayDropped, adapterVars
<1>6. CASE UNCHANGED adapterVars
  BY <1>0, <1>1, <1>2, <1>3, <1>6 DEF adapterVars
<1>7. ASSUME NEW w \in Workers, AdapterStep(w) \/ Die(w) PROVE RecordsOK'
  BY <1>1, <1>2, <1>3, <1>4, <1>7, RecordsChange
<1>8. ASSUME NEW h \in Replayers, ReplayStep(h) PROVE RecordsOK'
  BY <1>0, <1>1, <1>2, <1>3, <1>5, <1>8
<1> QED BY <1>6, <1>7, <1>8 DEF ExecutionNext, executionVars, adapterVars

LEMMA EffectsStep ==
  ASSUME ExecutionInv, [ExecutionNext]_executionVars
  PROVE  EffectsOK'
<1> USE DEF EffectsOK
<1>0. EffectsOK /\ RecordsOK
  BY DEF ExecutionInv
<1>1. ASSUME NEW w \in Workers, Insert(w) PROVE EffectsOK'
  <2>1. /\ stage'[w] = "send" /\ Key(w) \notin started \cup completed
        /\ effects' = effects /\ completed' = completed /\ started' = started \cup {Key(w)}
    BY <1>1 DEF Insert, GoTo, ExecutionInv, StageOK
  <2>2. \A v \in Workers : stage'[v] \in InAdapter =>
          Key(v)' = Key(v) /\ (v = w \/ stage'[v] = stage[v])
    BY <1>1, PerformersKept DEF Insert, GoTo, ExecutionInv, StageOK
  <2> QED BY <1>0, <2>1, <2>2 DEF InAdapter
<1>2. ASSUME NEW w \in Workers, NEW ok \in BOOLEAN, Send(w, ok) PROVE EffectsOK'
  <2>1. Key(w) \in Keys /\ stage[w] \in InAdapter /\ stage[w] = "send"
    BY <1>2, KeyType DEF Send, InAdapter
  <2>2. /\ effects' = Append(effects, Key(w))
        /\ stage'[w] \in {"complete", "bury"}
        /\ started' = started /\ completed' = completed
    BY <1>2 DEF Send, GoTo, ExecutionInv, StageOK
  <2>3. /\ effects' \in Seq(Keys)
        /\ Len(effects') = Len(effects) + 1
        /\ Len(effects) \in Nat
        /\ effects'[Len(effects) + 1] = Key(w)
        /\ \A n \in 1 .. Len(effects) : effects'[n] = effects[n]
    BY <1>0, <2>1, <2>2
  <2>4. \A v \in Workers : stage'[v] \in InAdapter =>
          Key(v)' = Key(v) /\ stage[v] \in InAdapter /\ (v = w \/ stage'[v] = stage[v])
    BY <1>2, PerformersKept DEF Send, Insert, GoTo, ExecutionInv, StageOK, InAdapter
  <2>5. \A v \in Workers : v # w /\ stage[v] \in InAdapter => Key(v) # Key(w)
    BY <1>0, <2>1 DEF RecordsOK
  <2>6. \A v \in Workers : stage'[v] = "send" =>
          \A n \in 1 .. Len(effects') : effects'[n] # Key(v)'
    BY <1>0, <2>2, <2>3, <2>4, <2>5 DEF InAdapter
  <2>7. \A v \in Workers : stage'[v] \in {"complete", "unencoded"} =>
          \E n \in 1 .. Len(effects') : effects'[n] = Key(v)'
    BY <1>0, <2>2, <2>3, <2>4 DEF InAdapter
  <2>8. \A n \in 1 .. Len(effects') : effects'[n] \in started' \cup completed'
    BY <1>0, <2>1, <2>2, <2>3 DEF RecordsOK, Open
  <2>9. \A k \in completed' : \E n \in 1 .. Len(effects') : effects'[n] = k
    BY <1>0, <2>2, <2>3
  <2>10. \A m, n \in 1 .. Len(effects') : effects'[m] = effects'[n] => m = n
    BY <1>0, <2>1, <2>3
  <2> QED BY <2>3, <2>6, <2>7, <2>8, <2>9, <2>10
<1>3. ASSUME NEW w \in Workers, Closing(w) PROVE EffectsOK'
  <2>1. /\ stage[w] \in {"complete", "unencoded"} /\ stage'[w] \in {"none", "closed"}
        /\ effects' = effects
        /\ completed' = completed \cup {Key(w)} /\ started' = started \ {Key(w)}
    BY <1>3 DEF Closing, ExecutionInv, StageOK
  <2>2. \A v \in Workers : stage'[v] \in InAdapter /\ v # w =>
          Key(v)' = Key(v) /\ stage'[v] = stage[v]
    BY <1>3, PerformersKept DEF Closing, ExecutionInv, StageOK
  <2> QED BY <1>0, <2>1, <2>2 DEF InAdapter
<1>4. CASE /\ UNCHANGED <<started, completed, effects>>
           /\ \A v \in Workers : stage'[v] \in {"send", "complete", "unencoded"} =>
                \/ stage[v] = stage'[v] /\ ~Insert(v)
                \/ stage[v] = "complete" /\ stage'[v] = "unencoded"
  <2>1. \A v \in Workers : stage'[v] \in {"send", "complete", "unencoded"} => Key(v)' = Key(v)
    BY PerformersKept DEF InAdapter
  <2> QED BY <1>0, <1>4, <2>1
<1>5. ASSUME NEW w \in Workers, AdapterStep(w) \/ Die(w)
      PROVE  \/ Insert(w) \/ Closing(w) \/ Send(w, TRUE) \/ Send(w, FALSE)
             \/ /\ UNCHANGED <<started, completed, effects>>
                /\ \A v \in Workers : stage'[v] \in {"send", "complete", "unencoded"} =>
                     \/ stage[v] = stage'[v] /\ ~Insert(v)
                     \/ stage[v] = "complete" /\ stage'[v] = "unencoded"
  <2>1. CASE Complete(w) \/ RecordFailure(w)
    BY <2>1, <1>5, RecordsChange
  <2>2. CASE Bury(w)
    <3>1. stage' = [stage EXCEPT ![w] = "none"] /\ effects' = effects
      BY <2>2 DEF Bury, GoTo
    <3> QED BY <1>5, <2>2, <3>1, RecordsChange DEF Insert, GoTo, ExecutionInv, StageOK
  <2>3. CASE ~(Complete(w) \/ RecordFailure(w) \/ Bury(w))
    BY <1>5, <2>3
       DEF AdapterStep, Die, Execute, BeginKnown, BeginNew, InsertFails, SendRefused,
           CompleteFails, Insert, GoTo, adapterVars, ExecutionInv, StageOK
  <2> QED BY <2>1, <2>2, <2>3
<1>6. CASE UNCHANGED <<stage, started, completed, effects>>
  BY <1>4, <1>6 DEF Insert, GoTo, ExecutionInv, StageOK
<1> QED BY <1>1, <1>2, <1>3, <1>4, <1>5, <1>6
     DEF ExecutionNext, executionVars, adapterVars, ReplayStep, ReplayRead, ReplayEnqueue,
         ReplayMark, ReplayDropped

(* Marking a letter edits its status and its count, and no other letter.   *)
LEMMA ReplayMarkFacts ==
  ASSUME ExecutionInv, NEW h \in Replayers, ReplayMark(h)
  PROVE  LET d == replay[h].letter IN
           /\ d \in 1 .. Len(dead)
           /\ dead' \in Seq(Letter) /\ Len(dead') = Len(dead)
           /\ dead'[d] = Replayed(dead[d], replay[h].count)
           /\ \A e \in 1 .. Len(dead) :
                /\ dead'[e].key = dead[e].key
                /\ dead'[e].job = dead[e].job /\ dead'[e].error = dead[e].error
                /\ dead'[e].repeat = dead[e].repeat
                /\ e # d => dead'[e] = dead[e]
<1> DEFINE d == replay[h].letter
           letter == Replayed(dead[d], replay[h].count)
<1>1. dead \in Seq(Letter) /\ Len(dead) \in Nat /\ replay[h].count \in Nat
  BY DEF ExecutionInv, LettersOK
<1>2. dead' = [dead EXCEPT ![d] = letter] /\ d \in 1 .. Len(dead)
  BY <1>1 DEF ReplayMark, ExecutionInv, LettersOK, Letters
<1>3. dead[d] \in Letter
  BY <1>1, <1>2
<1>4. /\ letter \in Letter
      /\ letter.key = dead[d].key /\ letter.job = dead[d].job
      /\ letter.repeat = dead[d].repeat /\ letter.error = dead[d].error
  <2> DEFINE c == Written(dead[d].count, replay[h].count, replay[h].count + 1)
  <2>1. c \in Nat
    BY <1>1, <1>3 DEF Letter, Written
  <2>2. letter = [dead[d] EXCEPT !.status = "replayed", !.count = c]
    BY DEF Replayed
  <2> HIDE DEF c, d, letter
  <2> QED BY <1>3, <2>1, <2>2 DEF Letter
<1> HIDE DEF letter, d
<1>5. /\ dead' \in Seq(Letter) /\ Len(dead') = Len(dead)
      /\ dead'[d] = letter
      /\ \A e \in 1 .. Len(dead) : e # d => dead'[e] = dead[e]
  BY <1>1, <1>2, <1>4
<1>6. \A e \in 1 .. Len(dead) :
        /\ dead'[e].key = dead[e].key
        /\ dead'[e].job = dead[e].job /\ dead'[e].error = dead[e].error
        /\ dead'[e].repeat = dead[e].repeat
  BY <1>4, <1>5
<1> QED BY <1>2, <1>5, <1>6 DEF d, letter

LEMMA BurialStep ==
  ASSUME ExecutionInv, [ExecutionNext]_executionVars
  PROVE  BurialOK'
<1> USE DEF BurialOK
<1>0. /\ BurialOK /\ RecordsOK
      /\ dead \in Seq(Letter) /\ Len(dead) \in Nat
  BY DEF ExecutionInv, LettersOK
<1>1. \A v \in Workers : stage'[v] \in InAdapter => Key(v)' = Key(v)
  BY PerformersKept
<1>2. ASSUME NEW w \in Workers, Insert(w) PROVE BurialOK'
  <2>1. /\ stage'[w] = "send" /\ Key(w) \notin started \cup completed
        /\ dead' = dead /\ lost' = lost /\ started' = started \cup {Key(w)}
        /\ completed' = completed
    BY <1>2 DEF Insert, GoTo, ExecutionInv, StageOK
  <2>2. \A v \in Workers : v # w => stage'[v] = stage[v]
    BY <1>2 DEF Insert, GoTo, ExecutionInv, StageOK
  <2>3. \A k \in started : \/ \E v \in Workers : stage'[v] \in Open /\ Key(v)' = k
                           \/ \E d \in 1 .. Len(dead) : dead[d].key = k
                           \/ k \in lost
    BY <1>0, <1>1, <1>2, <2>2 DEF Insert, InAdapter, Open
  <2> QED BY <1>0, <1>1, <2>1, <2>2, <2>3 DEF InAdapter, Open
<1>3. ASSUME NEW w \in Workers, Closing(w), UNCHANGED dead PROVE BurialOK'
  <2>1. /\ stage[w] \in Open /\ stage'[w] \in {"none", "closed"}
        /\ lost' = lost /\ started' = started \ {Key(w)}
        /\ completed' = completed \cup {Key(w)}
    BY <1>3 DEF Closing, ExecutionInv, StageOK, Open
  <2>2. \A v \in Workers : v # w => stage'[v] = stage[v]
    BY <1>3 DEF Closing, ExecutionInv, StageOK
  <2>3. \A d \in 1 .. Len(dead) : dead[d].key # Key(w)
    BY <1>0, <2>1 DEF InAdapter, Open
  <2>4. \A v \in Workers : stage'[v] \in InAdapter => stage[v] \in InAdapter
    BY <2>1, <2>2 DEF InAdapter, Open
  <2>5. ASSUME NEW k \in started, k # Key(w)
        PROVE  \/ \E v \in Workers : stage'[v] \in Open /\ Key(v)' = k
               \/ \E d \in 1 .. Len(dead) : dead[d].key = k
               \/ k \in lost
    BY <1>0, <1>1, <2>2, <2>5 DEF InAdapter, Open
  <2> QED BY <1>0, <1>1, <1>3, <2>1, <2>3, <2>4, <2>5
<1>4. ASSUME NEW w \in Workers, Bury(w) PROVE BurialOK'
  <2> DEFINE letter == [job |-> current[w], key |-> Key(w),
                        repeat |-> loaded[w][current[w]].repeat,
                        error |-> IF stage[w] = "bury" THEN "action" ELSE "result",
                        status |-> "dead", count |-> 0]
  <2>1. /\ stage[w] \in {"bury", "unencoded", "closed"} /\ stage'[w] = "none"
        /\ dead' = Append(dead, letter) /\ lost' = lost
        /\ IF stage[w] = "unencoded"
           THEN started' = started \ {Key(w)} /\ completed' = completed \cup {Key(w)}
           ELSE started' = started /\ completed' = completed
    BY <1>4 DEF Bury, FlushMark, GoTo, ExecutionInv, StageOK
  <2>2. \A v \in Workers : v # w => stage'[v] = stage[v]
    BY <1>4 DEF Bury, GoTo, ExecutionInv, StageOK
  <2>3. letter.key = Key(w) /\ (letter.error = "action" <=> stage[w] = "bury")
    BY <2>1
  <2> HIDE DEF letter
  <2>4. /\ Len(dead') = Len(dead) + 1
        /\ dead'[Len(dead) + 1] = letter
        /\ \A d \in 1 .. Len(dead) : dead'[d] = dead[d]
    BY <1>0, <2>1
  <2>5. /\ stage[w] = "bury" => Key(w) \in started
        /\ stage[w] = "closed" => Key(w) \in completed
        /\ \A d \in 1 .. Len(dead) : dead[d].key # Key(w)
    BY <1>0, <2>1 DEF RecordsOK, InAdapter, Open
  <2>6. \A v \in Workers : v # w /\ stage[v] \in InAdapter => Key(v) # Key(w)
    BY <1>0, <2>1 DEF RecordsOK, InAdapter
  <2>7. Key(w) \in IF letter.error = "action" THEN started' ELSE completed'
    BY <2>1, <2>3, <2>5
  <2>8. \A d \in 1 .. Len(dead) :
          dead[d].key \in IF dead[d].error = "action" THEN started' ELSE completed'
    BY <1>0, <2>1, <2>5
  <2>9. \A d \in 1 .. Len(dead') :
          dead'[d].key \in IF dead'[d].error = "action" THEN started' ELSE completed'
    BY <1>0, <2>3, <2>4, <2>7, <2>8
  <2>10. \A d \in 1 .. Len(dead'), v \in Workers :
           stage'[v] \in InAdapter => Key(v)' # dead'[d].key
    BY <1>0, <1>1, <2>1, <2>2, <2>3, <2>4, <2>6 DEF InAdapter
  <2>11. \A d, e \in 1 .. Len(dead') : dead'[d].key = dead'[e].key => d = e
    BY <1>0, <2>3, <2>4, <2>5
  <2>12. ASSUME NEW k \in started'
         PROVE  \/ \E v \in Workers : stage'[v] \in Open /\ Key(v)' = k
                \/ \E d \in 1 .. Len(dead') : dead'[d].key = k
                \/ k \in lost
    <3>0. k \in started
      BY <2>1
    <3>1. CASE k = Key(w)
      BY <1>0, <2>3, <2>4, <3>1
    <3>2. CASE \E v \in Workers : v # w /\ stage[v] \in Open /\ Key(v) = k
      BY <1>1, <2>2, <3>2 DEF InAdapter, Open
    <3>3. CASE \E d \in 1 .. Len(dead) : dead[d].key = k
      BY <1>0, <2>4, <3>3
    <3> QED BY <1>0, <3>0, <3>1, <3>2, <3>3
  <2> QED BY <2>1, <2>9, <2>10, <2>11, <2>12
<1>5. ASSUME NEW w \in Workers, Die(w) PROVE BurialOK'
  <2>1. /\ stage'[w] = "none" /\ dead' = dead /\ started' = started /\ completed' = completed
        /\ lost' = IF stage[w] \in Open THEN lost \cup {Key(w)} ELSE lost
    BY <1>5 DEF Die, GoTo, ExecutionInv, StageOK
  <2>2. \A v \in Workers : v # w => stage'[v] = stage[v]
    BY <1>5 DEF Die, GoTo, ExecutionInv, StageOK
  <2>3. ASSUME NEW k \in started
        PROVE  \/ \E v \in Workers : stage'[v] \in Open /\ Key(v)' = k
               \/ \E d \in 1 .. Len(dead) : dead[d].key = k
               \/ k \in lost'
    BY <1>0, <1>1, <2>1, <2>2 DEF InAdapter, Open
  <2> QED BY <1>0, <1>1, <2>1, <2>2, <2>3 DEF InAdapter
<1>6. CASE /\ UNCHANGED <<started, completed, lost>>
           /\ Len(dead') = Len(dead)
           /\ \A d \in 1 .. Len(dead) : /\ dead'[d].key = dead[d].key
                                        /\ dead'[d].error = dead[d].error
           /\ \A v \in Workers : /\ stage'[v] \in InAdapter <=> stage[v] \in InAdapter
                                 /\ stage'[v] \in Open <=> stage[v] \in Open
  <2>1. \A k \in started : \/ \E v \in Workers : stage'[v] \in Open /\ Key(v)' = k
                           \/ \E d \in 1 .. Len(dead) : dead[d].key = k
                           \/ k \in lost
    BY <1>0, <1>1, <1>6 DEF InAdapter, Open
  <2> QED BY <1>0, <1>1, <1>6, <2>1
<1>7. ASSUME NEW w \in Workers, AdapterStep(w)
      PROVE  \/ Insert(w) \/ Bury(w) \/ (Closing(w) /\ UNCHANGED dead)
             \/ /\ UNCHANGED <<started, completed, lost, dead>>
                /\ \A v \in Workers : /\ stage'[v] \in InAdapter <=> stage[v] \in InAdapter
                                      /\ stage'[v] \in Open <=> stage[v] \in Open
  <2>1. CASE Complete(w) \/ RecordFailure(w)
    <3>1. UNCHANGED dead
      BY <2>1 DEF Complete, RecordFailure
    <3> QED BY <1>7, <2>1, <3>1, RecordsChange
  <2>2. CASE ~(Complete(w) \/ RecordFailure(w))
    BY <1>7, <2>2
       DEF AdapterStep, Execute, Start, BeginKnown, BeginNew, InsertFails, SendRefused, Send,
           CompleteFails, GoTo, InAdapter, Open, adapterVars, ExecutionInv, StageOK
  <2> QED BY <2>1, <2>2
<1>8. ASSUME NEW h \in Replayers, ReplayMark(h)
      PROVE  /\ UNCHANGED <<started, completed, lost, stage>>
             /\ Len(dead') = Len(dead)
             /\ \A d \in 1 .. Len(dead) : /\ dead'[d].key = dead[d].key
                                          /\ dead'[d].error = dead[d].error
  BY <1>8, ReplayMarkFacts DEF ReplayMark
<1>9. CASE UNCHANGED <<stage, started, completed, lost, dead>>
  BY <1>6, <1>9
<1> QED BY <1>2, <1>3, <1>4, <1>5, <1>6, <1>7, <1>8, <1>9
     DEF ExecutionNext, executionVars, adapterVars, ReplayStep, ReplayRead, ReplayEnqueue,
         ReplayDropped

LEMMA LettersStep ==
  ASSUME ExecutionInv, [ExecutionNext]_executionVars
  PROVE  LettersOK'
<1> USE DEF LettersOK, Letters
<1>0. LettersOK /\ Len(dead) \in Nat /\ DOMAIN dead = 1 .. Len(dead)
  BY DEF ExecutionInv
<1>1. minted \subseteq minted'
  BY StepIsSchedulerStep, MintedGrows
<1>2. ASSUME NEW w \in Workers, Bury(w) PROVE LettersOK'
  <2> DEFINE letter == [job |-> current[w], key |-> Key(w),
                        repeat |-> loaded[w][current[w]].repeat,
                        error |-> IF stage[w] = "bury" THEN "action" ELSE "result",
                        status |-> "dead", count |-> 0]
  <2>1. /\ Key(w) \in Keys /\ current[w] \in Jobs
        /\ loaded[w][current[w]] \in JobRow
    BY <1>2, KeyType DEF Bury
  <2>2. letter \in Letter
    BY <2>1 DEF Letter, JobRow
  <2>3. OwnAmong(minted, letter.job, letter)
    <3>1. current[w] \in batch[w]
      BY <1>2 DEF Bury, ExecutionInv, StageOK, SchedulerInv, LoopsOK
    <3> QED BY <3>1 DEF Key, ExecutionInv, OwnKeys, Owns, OwnAmong
  <2>4. dead' = Append(dead, letter) /\ UNCHANGED <<replay, replayJobs, minted>>
    BY <1>2 DEF Bury, AdapterEnds, replayVars
  <2> HIDE DEF letter
  <2>5. /\ dead' \in Seq(Letter)
        /\ DOMAIN dead' = 1 .. Len(dead) + 1
        /\ dead'[Len(dead) + 1] = letter
        /\ \A d \in 1 .. Len(dead) : dead'[d] = dead[d]
    BY <1>0, <2>2, <2>4
  <2>6. \A d \in 1 .. Len(dead) + 1 : OwnAmong(minted', dead'[d].job, dead'[d])
    <3>1. \A d \in 1 .. Len(dead) : OwnAmong(minted', dead'[d].job, dead'[d])
      BY <1>0, <1>1, <2>5 DEF Owns, OwnAmong
    <3>2. OwnAmong(minted', letter.job, letter)
      BY <1>1, <2>3 DEF OwnAmong
    <3> QED BY <1>0, <2>5, <3>1, <3>2
  <2> QED BY <1>0, <2>4, <2>5, <2>6 DEF Owns
<1>3. ASSUME NEW h \in Replayers, ReplayMark(h) PROVE LettersOK'
  <2>1. /\ dead' \in Seq(Letter) /\ Len(dead') = Len(dead)
        /\ \A d \in 1 .. Len(dead) :
             /\ dead'[d].key = dead[d].key
             /\ dead'[d].job = dead[d].job
             /\ dead'[d].repeat = dead[d].repeat
    BY <1>3, ReplayMarkFacts
  <2>2. DOMAIN dead' = 1 .. Len(dead)
    BY <2>1
  <2>3. /\ \A d \in Letters' : Owns(dead[d].job, dead[d])'
    BY <1>0, <1>1, <2>1, <2>2 DEF Owns, OwnAmong
  <2>4. /\ replay' = [replay EXCEPT ![h] = NoReplay] /\ replayJobs' = replayJobs
    BY <1>3 DEF ReplayMark
  <2> QED BY <1>0, <2>1, <2>2, <2>3, <2>4 DEF NoReplay
<1>4. CASE UNCHANGED dead
  <2>1. \A d \in Letters' : Owns(dead[d].job, dead[d])'
    BY <1>0, <1>1, <1>4 DEF Owns, OwnAmong
  <2>2. ASSUME NEW h \in Replayers, NEW d \in Letters, ReplayRead(h, d) PROVE LettersOK'
    <3>1. dead[d] \in Letter /\ d \in Nat
      BY <1>0
    <3> QED BY <1>0, <1>4, <2>1, <2>2, <3>1 DEF ReplayRead, Letter
  <2>3. ASSUME NEW h \in Replayers, NEW j \in Jobs, ReplayEnqueue(h, j) PROVE LettersOK'
    BY <1>0, <1>4, <2>1, <2>3 DEF ReplayEnqueue
  <2>4. ASSUME NEW h \in Replayers, ReplayDropped(h) PROVE LettersOK'
    BY <1>0, <1>4, <2>1, <2>4 DEF ReplayDropped, NoReplay
  <2>5. CASE UNCHANGED replayVars
    BY <1>0, <1>4, <2>1, <2>5 DEF replayVars
  <2>6. ASSUME NEW h \in Replayers, ReplayMark(h) PROVE LettersOK'
    BY <1>3, <2>6
  <2> QED BY <2>2, <2>3, <2>4, <2>5, <2>6
       DEF ExecutionNext, executionVars, ReplayStep, AdapterStep, Execute, BeginKnown,
           BeginNew, Insert, InsertFails, SendRefused, Send, Complete, CompleteFails,
           RecordFailure, FlushMark, Bury, Die
<1>5. ASSUME NEW w \in Workers, AdapterStep(w) \/ Die(w) PROVE Bury(w) \/ UNCHANGED dead
  BY <1>5 DEF AdapterStep, Die, Execute, BeginKnown, BeginNew, Insert, InsertFails,
              SendRefused, Send, Complete, CompleteFails, RecordFailure, adapterVars
<1>6. ASSUME NEW h \in Replayers, ReplayStep(h) PROVE ReplayMark(h) \/ UNCHANGED dead
  BY <1>6 DEF ReplayStep, ReplayRead, ReplayEnqueue, ReplayDropped, adapterVars
<1> QED BY <1>2, <1>3, <1>4, <1>5, <1>6 DEF ExecutionNext, executionVars, adapterVars

LEMMA ExecutionInvariance == ExecutionSpec => []ExecutionInv
<1>1. ExecutionInv /\ [ExecutionNext]_executionVars => ExecutionInv'
  <2> SUFFICES ASSUME ExecutionInv, [ExecutionNext]_executionVars PROVE ExecutionInv'
    OBVIOUS
  <2>1. SchedulerInv' /\ OwnKeys'
    BY StepIsSchedulerStep, StepInv, OwnKeysStep DEF ExecutionInv
  <2> QED BY <2>1, StageStep, LettersStep, RecordsStep, EffectsStep, BurialStep
          DEF ExecutionInv
<1> QED BY <1>1, InitExecutionInv, PTL DEF ExecutionSpec
-----------------------------------------------------------------------------
(***************************************************************************)
(* What follows.                                                           *)
(***************************************************************************)

(* The adapter's tables and locals always hold what they may hold.         *)
THEOREM ExecutionTypeCorrect == ExecutionSpec => []ExecutionTypeOK
<1>1. ExecutionInv => ExecutionTypeOK
  BY DEF ExecutionInv, ExecutionTypeOK, StageOK, LettersOK, RecordsOK, EffectsOK
<1> QED BY <1>1, ExecutionInvariance, PTL

(* Whatever is retried, claimed twice, replayed, reported or crashed, no   *)
(* two calls leave the process under one idempotency key.                  *)
THEOREM EffectAtMostOnce == ExecutionSpec => []AtMostOnceEffect
<1>1. ExecutionInv => AtMostOnceEffect
  BY DEF ExecutionInv, EffectsOK, AtMostOnceEffect
<1> QED BY <1>1, ExecutionInvariance, PTL

(* A started record has its loop, its dead letter, or a crash behind it.   *)
THEOREM StartedAccounted == ExecutionSpec => []StartedIsAccounted
<1>1. ExecutionInv => StartedIsAccounted
  BY DEF ExecutionInv, BurialOK, LettersOK, Letters, StartedIsAccounted, Performing
<1> QED BY <1>1, ExecutionInvariance, PTL

(* A key has one dead letter at most; about a failed action, its record    *)
(* stays started, and about a result, the action was performed and its     *)
(* record is completed.                                                    *)
THEOREM KeyEndsOnce == ExecutionSpec => []EachKeyEndsOnce
<1>1. ExecutionInv => EachKeyEndsOnce
  <2> SUFFICES ASSUME ExecutionInv PROVE EachKeyEndsOnce
    OBVIOUS
  <2>1. DOMAIN effects = 1 .. Len(effects) /\ DOMAIN dead = 1 .. Len(dead)
    BY DEF ExecutionInv, EffectsOK, LettersOK
  <2> QED BY <2>1 DEF ExecutionInv, BurialOK, EffectsOK, Letters, EachKeyEndsOnce
<1> QED BY <1>1, ExecutionInvariance, PTL

(* With the adapter filled in, the queue is still the queue of module      *)
(* Scheduler, so what is proved there holds of it.                         *)
THEOREM ExecutionImplementsScheduler == ExecutionSpec => ImplementsScheduler
<1>1. ExecutionInit => Init
  BY DEF ExecutionInit
<1> QED BY <1>1, ExecutionInvariance, StepIsSchedulerStep, PTL
        DEF ExecutionSpec, Spec, ImplementsScheduler

(* So a row is left running only when a pass ended without settling it,    *)
(* also with the adapter filled in.                                        *)
COROLLARY ExecutedRunningIsHeld == ExecutionSpec => []RunningIsHeld
  BY ExecutionImplementsScheduler, RunningAlwaysHeld, PTL DEF ImplementsScheduler

(* The records and the calls implement the ledger of module OnceLedger.    *)
LEMMA StepIsLedgerStep ==
  ASSUME ExecutionInv, [ExecutionNext]_executionVars
  PROVE  [Ledger!Next]_(Ledger!vars)
<1>1. RecordsOK /\ EffectsOK
  BY DEF ExecutionInv
<1>2. Ledger!Performed = {effects[n] : n \in 1 .. Len(effects)}
  BY <1>1 DEF EffectsOK, Ledger!Performed
<1>3. ASSUME NEW w \in Workers, Insert(w) PROVE Ledger!Next
  <2>1. Key(w) \in Keys
    BY <1>3, KeyType DEF Insert
  <2>2. Ledger!Open(Key(w))
    BY <1>3 DEF Insert, Ledger!Open
  <2> QED BY <2>1, <2>2 DEF Ledger!Next
<1>4. ASSUME NEW w \in Workers, NEW ok \in BOOLEAN, Send(w, ok) PROVE Ledger!Next
  <2>1. Key(w) \in Keys /\ stage[w] = "send"
    BY <1>4, KeyType DEF Send
  <2>2. Key(w) \in started /\ Key(w) \notin Ledger!Performed
    BY <1>1, <1>2, <2>1 DEF RecordsOK, EffectsOK, Open
  <2>3. Ledger!Perform(Key(w))
    BY <1>4, <2>2 DEF Send, Ledger!Perform
  <2> QED BY <2>1, <2>3 DEF Ledger!Next
<1>5. ASSUME NEW w \in Workers, Closing(w) PROVE Ledger!Next
  <2>1. Key(w) \in Keys /\ stage[w] \in {"complete", "unencoded"}
    BY <1>5, KeyType DEF Closing
  <2>2. Key(w) \in started /\ Key(w) \in Ledger!Performed
    BY <1>1, <1>2, <2>1 DEF RecordsOK, EffectsOK, Open
  <2>3. Ledger!Close(Key(w))
    BY <1>5, <2>2 DEF Closing, Ledger!Close
  <2> QED BY <2>1, <2>3 DEF Ledger!Next
<1>6. ASSUME NEW w \in Workers, AdapterStep(w) \/ Die(w)
      PROVE  \/ Insert(w) \/ Closing(w) \/ Send(w, TRUE) \/ Send(w, FALSE)
             \/ UNCHANGED <<started, completed, effects>>
  <2>1. CASE Complete(w) \/ RecordFailure(w)
    BY <1>6, <2>1, RecordsChange
  <2>2. CASE Bury(w)
    <3>1. effects' = effects
      BY <2>2 DEF Bury
    <3> QED BY <1>6, <2>2, <3>1, RecordsChange
  <2>3. CASE ~(Complete(w) \/ RecordFailure(w) \/ Bury(w))
    BY <1>6, <2>3
       DEF AdapterStep, Die, Execute, BeginKnown, BeginNew, InsertFails, SendRefused,
           CompleteFails, adapterVars
  <2> QED BY <2>1, <2>2, <2>3
<1> QED BY <1>3, <1>4, <1>5, <1>6
     DEF ExecutionNext, executionVars, adapterVars, ReplayStep, ReplayRead, ReplayEnqueue,
         ReplayMark, ReplayDropped, Ledger!vars

THEOREM ExecutionImplementsLedger == ExecutionSpec => ImplementsLedger
<1>1. ExecutionInit => Ledger!Init
  BY DEF ExecutionInit, Ledger!Init
<1> QED BY <1>1, ExecutionInvariance, StepIsLedgerStep, PTL
        DEF ExecutionSpec, ImplementsLedger, Ledger!Spec
-----------------------------------------------------------------------------
(***************************************************************************)
(* A job keeps its key, as long as it does not recur, and succeeds in one  *)
(* way only.                                                               *)
(***************************************************************************)

LEMMA FlushKey ==
  ASSUME NEW stored \in JobRow, NEW row \in JobRow, NEW edited \in JobRow
  PROVE  FlushJob(stored, row, edited).key = Written(stored.key, row.key, edited.key)
  BY DEF FlushJob, JobRow

LEMMA CommitMarkKey ==
  ASSUME TypeOK, NEW j \in Jobs, NEW row \in JobRow, NEW ok \in BOOLEAN,
         CommitMark(j, row, ok), ~Recurs(row, ok)
  PROVE  jobs'[j].key = jobs[j].key
<1>1. jobs' = [jobs EXCEPT ![j] = FlushJob(jobs[j], row, Marked(row, ok))]
  BY CommitMarkFacts
<1>2. Marked(row, ok) \in JobRow /\ Marked(row, ok).key = row.key
  BY EditTypes DEF Marked, JobRow
<1>3. jobs[j] \in JobRow /\ jobs'[j] = FlushJob(jobs[j], row, Marked(row, ok))
  BY <1>1 DEF TypeOK
<1>4. jobs'[j].key = Written(jobs[j].key, row.key, row.key)
  BY <1>2, <1>3, FlushKey
<1> QED BY <1>4 DEF Written

(* A row that exists goes on existing, and its key changes only when it    *)
(* recurs.                                                                 *)
Steady(j) ==
  /\ jobs'[j].status # "absent"
  /\ jobs'[j].repeat = jobs[j].repeat
  /\ jobs[j].repeat # "minutes" => jobs'[j].key = jobs[j].key

LEMMA MarkSteady ==
  ASSUME TypeOK, NEW i \in Jobs, NEW row \in JobRow, NEW ok \in BOOLEAN, CommitMark(i, row, ok),
         row.repeat = jobs[i].repeat, NEW j \in Jobs, jobs[j].status # "absent"
  PROVE  Steady(j)
<1>1. Kept
  BY CommitMarkKept
<1>2. j = i /\ jobs[j].repeat # "minutes" => jobs'[j].key = jobs[j].key
  BY CommitMarkKey DEF Recurs
<1>3. j # i => jobs'[j] = jobs[j]
  BY CommitMarkStatus
<1> QED BY <1>1, <1>2, <1>3 DEF Kept, Steady

LEMMA EditSteady ==
  ASSUME NEW stored \in JobRow, NEW row \in JobRow, NEW status \in {"running", "cancelled"}
  PROVE  /\ FlushJob(stored, row, [row EXCEPT !.status = status]).status \in {stored.status, status}
         /\ FlushJob(stored, row, [row EXCEPT !.status = status]).repeat = stored.repeat
         /\ FlushJob(stored, row, [row EXCEPT !.status = status]).key = stored.key
<1> DEFINE edited == [row EXCEPT !.status = status]
<1>1. edited \in JobRow /\ edited.status = status /\ edited.key = row.key
  BY EditTypes DEF JobRow
<1> HIDE DEF edited
<1>2. /\ FlushJob(stored, row, edited).status \in {stored.status, edited.status}
      /\ FlushJob(stored, row, edited).repeat = stored.repeat
      /\ FlushJob(stored, row, edited).key = Written(stored.key, row.key, edited.key)
  BY <1>1, FlushKeeps, FlushKey
<1> QED BY <1>1, <1>2 DEF Written, edited

LEMMA ClaimCommitRows ==
  ASSUME TypeOK, NEW w \in Workers, ClaimCommit(w), NEW j \in Jobs
  PROVE  /\ jobs'[j].status \in {jobs[j].status, "running"}
         /\ jobs'[j].repeat = jobs[j].repeat /\ jobs'[j].key = jobs[j].key
         /\ \A v \in Workers : loaded'[v][j].key = loaded[v][j].key
                               /\ loaded'[v][j].repeat = loaded[v][j].repeat
<1>1. jobs[j] \in JobRow /\ \A v \in Workers : loaded[v][j] \in JobRow
  BY DEF TypeOK
<1>2. \A v \in Workers :
        loaded'[v][j] = IF v = w /\ j \in batch[w]
                        THEN [loaded[w][j] EXCEPT !.status = "running"] ELSE loaded[v][j]
  BY DEF ClaimCommit, TypeOK
<1>3. CASE j \in batch[w]
  <2>1. PICK row \in JobRow : row = loaded[w][j]
    BY <1>1
  <2>2. jobs'[j] = FlushJob(jobs[j], row, [row EXCEPT !.status = "running"])
    BY <1>2, <1>3, <2>1 DEF ClaimCommit, TypeOK
  <2>3. /\ [row EXCEPT !.status = "running"].key = row.key
        /\ [row EXCEPT !.status = "running"].repeat = row.repeat
    BY DEF JobRow
  <2>4. \A v \in Workers : /\ loaded'[v][j].key = loaded[v][j].key
                          /\ loaded'[v][j].repeat = loaded[v][j].repeat
    BY <1>2, <1>3, <2>1, <2>3
  <2>5. "running" \in {"running", "cancelled"}
    OBVIOUS
  <2>6. /\ FlushJob(jobs[j], row, [row EXCEPT !.status = "running"]).status
             \in {jobs[j].status, "running"}
        /\ FlushJob(jobs[j], row, [row EXCEPT !.status = "running"]).repeat = jobs[j].repeat
        /\ FlushJob(jobs[j], row, [row EXCEPT !.status = "running"]).key = jobs[j].key
    BY <1>1, <2>5, EditSteady
  <2> QED BY <2>2, <2>4, <2>6
<1>4. CASE j \notin batch[w]
  BY <1>2, <1>4 DEF ClaimCommit, TypeOK
<1> QED BY <1>3, <1>4

LEMMA CancelRows ==
  ASSUME SchedulerInv, NEW h \in Handlers, CancelCommit(h), NEW j \in Jobs
  PROVE  /\ jobs'[j].status \in {jobs[j].status, "cancelled"}
         /\ jobs'[j].repeat = jobs[j].repeat /\ jobs'[j].key = jobs[j].key
<1>1. request[h] # NoRequest
  BY DEF CancelCommit, NoRequest
<1>2. PICK i \in Jobs, row \in JobRow : i = request[h].job /\ row = request[h].row
  BY <1>1, RequestType DEF SchedulerInv
<1>3. /\ jobs' = [jobs EXCEPT ![i] = FlushJob(jobs[i], row, [row EXCEPT !.status = "cancelled"])]
      /\ jobs[i] \in JobRow
  BY <1>2 DEF CancelCommit, SchedulerInv, TypeOK
<1>4. /\ FlushJob(jobs[i], row, [row EXCEPT !.status = "cancelled"]).status
           \in {jobs[i].status, "cancelled"}
      /\ FlushJob(jobs[i], row, [row EXCEPT !.status = "cancelled"]).repeat = jobs[i].repeat
      /\ FlushJob(jobs[i], row, [row EXCEPT !.status = "cancelled"]).key = jobs[i].key
  BY <1>3, EditSteady
<1> QED BY <1>3, <1>4 DEF SchedulerInv, TypeOK

LEMMA TableStep ==
  ASSUME SchedulerInv, [Next]_queueVars, NEW j \in Jobs, jobs[j].status # "absent"
  PROVE  Steady(j)
<1> USE DEF SchedulerInv
<1>1. ASSUME NEW i \in Jobs, Enqueue(i) PROVE Steady(j)
  BY <1>1 DEF Enqueue, Inserted, Steady, TypeOK
<1>2. ASSUME NEW w \in Workers, ClaimCommit(w) PROVE Steady(j)
  BY <1>2, ClaimCommitRows DEF Steady
<1>3. ASSUME NEW w \in Workers, Settle(w) PROVE Steady(j)
  BY <1>3, SettleFacts, MarkSteady DEF Agrees
<1>4. ASSUME NEW h \in Handlers, CancelCommit(h) PROVE Steady(j)
  BY <1>4, CancelRows DEF Steady
<1>5. ASSUME NEW h \in Handlers, ReportCommit(h) PROVE Steady(j)
  <2>1. request[h].row.repeat = jobs[request[h].job].repeat
    BY <1>5 DEF ReportCommit, NoRequest, RowsOK, Agrees
  <2> QED BY <1>5, <2>1, ReportFacts, MarkSteady
<1>6. CASE UNCHANGED jobs
  BY <1>6 DEF Steady
<1> QED
  BY <1>1, <1>2, <1>3, <1>4, <1>5, <1>6
     DEF Next, QueueStep, BecomeDue, ClaimRead, SettleRaises, Escape, Crash, Start,
         AdapterEnds, CancelRead, ReportRead, Read, RequestDropped, queueVars
-----------------------------------------------------------------------------
(***************************************************************************)
(* A letter counts no more replays than jobs were made from it.            *)
(***************************************************************************)

JobsOf(d, made) == {j \in Jobs : <<d, j>> \in made}

(* A session that is about to mark its letter has made a job from it, and  *)
(* the job was not there before.                                           *)
ReplaysOK ==
  /\ \A d \in Nat : /\ IsFiniteSet(JobsOf(d, replayJobs))
                    /\ \A j \in JobsOf(d, replayJobs) : jobs[j].status # "absent"
  /\ \A h \in Replayers :
       LET made == Cardinality(JobsOf(replay[h].letter, replayJobs)) IN
         /\ replay[h].phase = "read" => replay[h].count <= made
         /\ replay[h].phase = "queued" => replay[h].count < made
  /\ \A d \in 1 .. Len(dead) :
       /\ dead[d].count <= Cardinality(JobsOf(d, replayJobs))
       /\ dead[d].status = "replayed" <=> dead[d].count > 0

(* The jobs of a letter only grow, by jobs that were absent.               *)
LEMMA JobsOfGrow ==
  ASSUME ExecutionInv, ReplaysOK, [ExecutionNext]_executionVars, NEW d \in Nat,
         NEW Before, Before = JobsOf(d, replayJobs), NEW After, After = JobsOf(d, replayJobs')
  PROVE  /\ IsFiniteSet(After) /\ \A j \in After : jobs'[j].status # "absent"
         /\ Cardinality(Before) \in Nat /\ Cardinality(After) \in Nat
         /\ Cardinality(Before) <= Cardinality(After)
         /\ \A h \in Replayers, j \in Jobs :
              ReplayEnqueue(h, j) /\ d = replay[h].letter =>
                Cardinality(After) = Cardinality(Before) + 1
<1>1. IsFiniteSet(Before) /\ \A j \in Before : jobs[j].status # "absent"
  BY DEF ReplaysOK
<1>2. \A j \in Before : j \in Jobs /\ jobs'[j].status # "absent"
  <2>1. Before \subseteq Jobs
    BY DEF JobsOf
  <2> QED BY <1>1, <2>1, TableStep, StepIsSchedulerStep DEF ExecutionInv, Steady
<1>3. Cardinality(Before) \in Nat
  BY <1>1, FS_CardinalityType
<1>4. ASSUME NEW h \in Replayers, NEW j \in Jobs, ReplayEnqueue(h, j)
      PROVE  /\ IsFiniteSet(After) /\ \A i \in After : jobs'[i].status # "absent"
             /\ Cardinality(After) = IF d = replay[h].letter THEN Cardinality(Before) + 1
                                     ELSE Cardinality(Before)
  <2>1. /\ jobs[j].status = "absent"
        /\ replayJobs' = replayJobs \cup {<<replay[h].letter, j>>}
    BY <1>4 DEF ReplayEnqueue, Inserted
  <2>2. jobs'[j].status # "absent"
    BY <1>4 DEF ReplayEnqueue, Inserted, ExecutionInv, SchedulerInv, TypeOK
  <2>3. j \notin Before
    BY <1>1, <2>1
  <2>4. CASE d = replay[h].letter
    <3>1. After = Before \cup {j}
      BY <2>1, <2>4 DEF JobsOf
    <3> QED BY <1>1, <1>2, <2>2, <2>3, <2>4, <3>1, FS_AddElement
  <2>5. CASE d # replay[h].letter
    <3>1. After = Before
      BY <2>1, <2>5 DEF JobsOf
    <3> QED BY <1>1, <1>2, <2>5, <3>1
  <2> QED BY <2>4, <2>5
<1>5. CASE UNCHANGED replayJobs
  <2>1. After = Before
    BY <1>5
  <2>2. ASSUME NEW h \in Replayers, NEW j \in Jobs, ReplayEnqueue(h, j) PROVE d # replay[h].letter
    <3>1. jobs[j].status = "absent" /\ <<replay[h].letter, j>> \in replayJobs
      BY <1>5, <2>2 DEF ReplayEnqueue, Inserted
    <3> QED BY <1>1, <3>1 DEF JobsOf
  <2> QED BY <1>1, <1>2, <1>3, <2>1, <2>2
<1>6. (\E h \in Replayers, j \in Jobs : ReplayEnqueue(h, j)) \/ UNCHANGED replayJobs
  BY DEF ExecutionNext, executionVars, replayVars, ReplayStep, ReplayRead, ReplayMark,
         ReplayDropped, AdapterStep, Execute, BeginKnown, BeginNew, Insert, InsertFails,
         SendRefused, Send, Complete, CompleteFails,
         RecordFailure, FlushMark, Bury, Die
<1>7. CASE \E h \in Replayers, j \in Jobs : ReplayEnqueue(h, j)
  <2>1. PICK h \in Replayers, j \in Jobs : ReplayEnqueue(h, j)
    BY <1>7
  <2>2. IsFiniteSet(After) /\ \A i \in After : jobs'[i].status # "absent"
    BY <1>4, <2>1
  <2>3. Cardinality(After) \in Nat /\ Cardinality(Before) <= Cardinality(After)
    BY <1>3, <1>4, <2>1
  <2> QED BY <1>3, <1>4, <2>2, <2>3
<1> QED BY <1>5, <1>6, <1>7

LEMMA ReplaysStep ==
  ASSUME ExecutionInv, ReplaysOK, [ExecutionNext]_executionVars
  PROVE  ReplaysOK'
<1>1. /\ dead \in Seq(Letter) /\ Len(dead) \in Nat /\ DOMAIN dead = 1 .. Len(dead)
      /\ replay \in [Replayers -> [phase : {"none", "read", "queued"}, letter : Nat, count : Nat]]
      /\ \A h \in Replayers : replay[h].phase # "none" => replay[h].letter \in 1 .. Len(dead)
      /\ \A d \in 1 .. Len(dead) : dead[d].count \in Nat /\ d \in Nat
  <2>1. dead \in Seq(Letter)
    BY DEF ExecutionInv, LettersOK
  <2>2. \A d \in 1 .. Len(dead) : dead[d] \in Letter
    BY <2>1
  <2>3. \A d \in 1 .. Len(dead) : dead[d].count \in Nat
    BY <2>2 DEF Letter
  <2> QED BY <2>1, <2>3 DEF ExecutionInv, LettersOK, Letters
<1>2. \A h \in Replayers : replay[h].letter \in Nat /\ replay[h].count \in Nat
  BY <1>1
<1>3. PICK made : made = [d \in Nat |-> Cardinality(JobsOf(d, replayJobs))]
  OBVIOUS
<1>4. PICK now : now = [d \in Nat |-> Cardinality(JobsOf(d, replayJobs'))]
  OBVIOUS
<1>5. /\ \A d \in Nat : made[d] \in Nat /\ now[d] \in Nat /\ made[d] <= now[d]
      /\ \A h \in Replayers, j \in Jobs :
           ReplayEnqueue(h, j) => now[replay[h].letter] = made[replay[h].letter] + 1
  BY <1>2, <1>3, <1>4, JobsOfGrow
<1>6. \A d \in Nat : /\ IsFiniteSet(JobsOf(d, replayJobs'))
                     /\ \A j \in JobsOf(d, replayJobs') : jobs'[j].status # "absent"
  BY JobsOfGrow
<1>7. /\ \A h \in Replayers :
           /\ replay[h].phase = "read" => replay[h].count <= made[replay[h].letter]
           /\ replay[h].phase = "queued" => replay[h].count < made[replay[h].letter]
      /\ \A d \in 1 .. Len(dead) :
           /\ dead[d].count <= made[d]
           /\ dead[d].status = "replayed" <=> dead[d].count > 0
  BY <1>1, <1>2, <1>3 DEF ReplaysOK
<1> DEFINE SessionsOK ==
             \A h \in Replayers :
               /\ replay'[h].phase = "read" => replay'[h].count <= now[replay'[h].letter]
               /\ replay'[h].phase = "queued" => replay'[h].count < now[replay'[h].letter]
           CountsOK ==
             \A d \in 1 .. Len(dead') :
               /\ dead'[d].count <= now[d]
               /\ dead'[d].status = "replayed" <=> dead'[d].count > 0
<1>8. ASSUME NEW g \in Replayers, replay'[g] = replay[g]
      PROVE  /\ replay'[g].phase = "read" => replay'[g].count <= now[replay'[g].letter]
             /\ replay'[g].phase = "queued" => replay'[g].count < now[replay'[g].letter]
  <2>1. replay[g].letter \in Nat /\ replay[g].count \in Nat
    BY <1>2
  <2>2. /\ made[replay[g].letter] \in Nat /\ now[replay[g].letter] \in Nat
        /\ made[replay[g].letter] <= now[replay[g].letter]
    BY <1>5, <2>1
  <2> QED BY <1>7, <1>8, <2>1, <2>2
<1>9. UNCHANGED replay => SessionsOK
  BY <1>8
<1>10. UNCHANGED dead => CountsOK
  BY <1>1, <1>5, <1>7
<1>11. ASSUME NEW h \in Replayers, NEW d \in Letters, ReplayRead(h, d) PROVE SessionsOK
  <2>1. /\ replay' = [replay EXCEPT
                         ![h] = [phase |-> "read", letter |-> d, count |-> dead[d].count]]
        /\ d \in 1 .. Len(dead)
    BY <1>1, <1>11 DEF ReplayRead, Letters
  <2>2. dead[d].count <= made[d] /\ made[d] <= now[d] /\ dead[d].count \in Nat
        /\ made[d] \in Nat /\ now[d] \in Nat
    BY <1>1, <1>5, <1>7, <2>1
  <2>3. replay'[h].phase = "read" /\ replay'[h].letter = d /\ replay'[h].count = dead[d].count
    BY <1>1, <2>1
  <2>4. replay'[h].count <= now[replay'[h].letter]
    BY <2>2, <2>3
  <2>5. \A g \in Replayers : g # h => replay'[g] = replay[g]
    BY <1>1, <2>1
  <2> QED BY <1>8, <2>3, <2>4, <2>5
<1>12. ASSUME NEW h \in Replayers, NEW j \in Jobs, ReplayEnqueue(h, j) PROVE SessionsOK
  <2>1. replay[h].phase = "read" /\ replay' = [replay EXCEPT ![h].phase = "queued"]
    BY <1>12 DEF ReplayEnqueue
  <2>2. now[replay[h].letter] = made[replay[h].letter] + 1
    BY <1>5, <1>12
  <2>3. /\ replay'[h].phase = "queued" /\ replay'[h].letter = replay[h].letter
        /\ replay'[h].count = replay[h].count
    BY <1>1, <2>1
  <2>4. replay'[h].count < now[replay'[h].letter]
    <3>1. made[replay[h].letter] \in Nat /\ replay[h].count <= made[replay[h].letter]
      BY <1>2, <1>5, <1>7, <2>1
    <3> QED BY <1>2, <2>2, <2>3, <3>1
  <2>5. \A g \in Replayers : g # h => replay'[g] = replay[g]
    BY <1>1, <2>1
  <2> QED BY <1>8, <2>3, <2>4, <2>5
<1>13. ASSUME NEW h \in Replayers, replay' = [replay EXCEPT ![h] = NoReplay] PROVE SessionsOK
  <2>1. replay'[h].phase = "none" /\ \A g \in Replayers : g # h => replay'[g] = replay[g]
    BY <1>1, <1>13 DEF NoReplay
  <2> QED BY <1>8, <2>1
<1>14. ASSUME NEW h \in Replayers, ReplayMark(h) PROVE CountsOK
  <2>1. PICK d \in 1 .. Len(dead), count \in Nat : d = replay[h].letter /\ count = replay[h].count
    BY <1>1, <1>2, <1>14 DEF ReplayMark
  <2>2. /\ Len(dead') = Len(dead) /\ dead'[d] = Replayed(dead[d], count)
        /\ \A e \in 1 .. Len(dead) : e # d => dead'[e] = dead[e]
    BY <1>14, <2>1, ReplayMarkFacts
  <2>3. dead'[d].status = "replayed" /\ dead'[d].count = count + 1
    <3>1. dead[d] \in Letter
      BY <1>1
    <3>2. Written(dead[d].count, count, count + 1) = count + 1
      BY DEF Written
    <3> QED BY <2>2, <3>1, <3>2 DEF Replayed, Letter
  <2>4. count < made[d]
    BY <1>7, <1>14, <2>1 DEF ReplayMark
  <2>5. dead'[d].count <= now[d]
    <3>1. made[d] \in Nat /\ now[d] \in Nat /\ made[d] <= now[d]
      BY <1>1, <1>5
    <3> QED BY <2>1, <2>3, <2>4, <3>1
  <2>6. dead'[d].status = "replayed" /\ dead'[d].count > 0
    BY <2>1, <2>3
  <2>7. ASSUME NEW e \in 1 .. Len(dead), e # d
        PROVE  dead'[e].count <= now[e] /\ (dead'[e].status = "replayed" <=> dead'[e].count > 0)
    <3>1. dead'[e] = dead[e] /\ dead[e].count \in Nat
      BY <1>1, <2>2, <2>7
    <3>2. made[e] \in Nat /\ now[e] \in Nat /\ made[e] <= now[e]
      BY <1>1, <1>5
    <3> QED BY <1>7, <3>1, <3>2
  <2> QED BY <2>2, <2>5, <2>6, <2>7
<1>15. ASSUME NEW w \in Workers, Bury(w) PROVE CountsOK
  <2> DEFINE letter == [job |-> current[w], key |-> Key(w),
                        repeat |-> loaded[w][current[w]].repeat,
                        error |-> IF stage[w] = "bury" THEN "action" ELSE "result",
                        status |-> "dead", count |-> 0]
  <2>1. dead' = Append(dead, letter) /\ letter.status = "dead" /\ letter.count = 0
    BY <1>15 DEF Bury
  <2> HIDE DEF letter
  <2>2. /\ Len(dead') = Len(dead) + 1 /\ dead'[Len(dead) + 1] = letter
        /\ \A d \in 1 .. Len(dead) : dead'[d] = dead[d]
    BY <1>1, <2>1
  <2> QED BY <1>1, <1>5, <1>7, <2>1, <2>2
<1>16. ASSUME NEW w \in Workers, AdapterStep(w) \/ Die(w)
       PROVE  UNCHANGED replay /\ (Bury(w) \/ UNCHANGED dead)
  BY <1>16 DEF AdapterStep, Die, Execute, BeginKnown, BeginNew, Insert, InsertFails,
               SendRefused, Send, Complete, CompleteFails,
               RecordFailure, FlushMark, Bury, adapterVars, replayVars
<1>17. ASSUME NEW h \in Replayers, ReplayStep(h) PROVE SessionsOK /\ CountsOK
  <2>1. \/ ReplayMark(h) /\ replay' = [replay EXCEPT ![h] = NoReplay]
        \/ ReplayDropped(h) /\ replay' = [replay EXCEPT ![h] = NoReplay] /\ UNCHANGED dead
        \/ UNCHANGED dead /\ \E d \in Letters : ReplayRead(h, d)
        \/ UNCHANGED dead /\ \E j \in Jobs : ReplayEnqueue(h, j)
    BY <1>17 DEF ReplayStep, ReplayRead, ReplayEnqueue, ReplayMark, ReplayDropped, adapterVars
  <2> QED BY <1>10, <1>11, <1>12, <1>13, <1>14, <2>1
<1>18. ASSUME UNCHANGED <<replay, dead>> PROVE SessionsOK /\ CountsOK
  BY <1>9, <1>10, <1>18
<1>19. SessionsOK /\ CountsOK
  <2>1. \/ UNCHANGED <<replay, dead>>
        \/ \E w \in Workers : AdapterStep(w) \/ Die(w)
        \/ \E h \in Replayers : ReplayStep(h)
    BY DEF ExecutionNext, executionVars, adapterVars, replayVars
  <2>2. ASSUME NEW w \in Workers, AdapterStep(w) \/ Die(w) PROVE SessionsOK /\ CountsOK
    <3>1. UNCHANGED replay /\ (Bury(w) \/ UNCHANGED dead)
      BY <1>16, <2>2
    <3>2. CountsOK
      BY <1>10, <1>15, <3>1
    <3> QED BY <1>9, <3>1, <3>2
  <2>3. ASSUME NEW h \in Replayers, ReplayStep(h) PROVE SessionsOK /\ CountsOK
    BY <1>17, <2>3
  <2> QED BY <1>18, <2>1, <2>2, <2>3
<1>20. \A h \in Replayers : replay'[h].phase # "none" => replay'[h].letter \in Nat
  BY LettersStep DEF LettersOK
<1>21. Len(dead') \in Nat
  BY LettersStep DEF LettersOK
<1> QED BY <1>4, <1>6, <1>19, <1>20, <1>21 DEF ReplaysOK

(* However replays of one letter overlap, and whenever they are dropped,   *)
(* its count is backed by jobs, and it says "replayed" only if there is    *)
(* one.                                                                    *)
THEOREM ReplaysAreBacked == ExecutionSpec => []ReplayCountIsBacked
<1>1. ExecutionInit => ReplaysOK
  <2> SUFFICES ASSUME ExecutionInit PROVE ReplaysOK
    OBVIOUS
  <2>1. \A d \in Nat : JobsOf(d, replayJobs) = {}
    BY DEF ExecutionInit, JobsOf
  <2>2. IsFiniteSet({})
    BY FS_EmptySet
  <2>3. Len(dead) = 0 /\ \A h \in Replayers : replay[h].phase = "none"
    BY DEF ExecutionInit, NoReplay
  <2>4. \A d \in 1 .. Len(dead) : FALSE
    BY <2>3
  <2> QED BY <2>1, <2>2, <2>3, <2>4 DEF ReplaysOK
<1>2. ExecutionInv /\ ReplaysOK => ReplayCountIsBacked
  <2> SUFFICES ASSUME ExecutionInv, ReplaysOK, NEW d \in Letters
               PROVE  /\ dead[d].count <= Cardinality({j \in Jobs : <<d, j>> \in replayJobs})
                      /\ dead[d].status = "replayed" <=> dead[d].count > 0
    BY DEF ReplayCountIsBacked
  <2>1. d \in 1 .. Len(dead)
    BY DEF ExecutionInv, LettersOK, Letters
  <2>2. /\ dead[d].count <= Cardinality(JobsOf(d, replayJobs))
        /\ dead[d].status = "replayed" <=> dead[d].count > 0
    BY <2>1 DEF ReplaysOK
  <2> QED BY <2>2 DEF JobsOf
<1>3. ExecutionInv /\ ReplaysOK /\ [ExecutionNext]_executionVars => ReplaysOK'
  BY ReplaysStep
<1> QED BY <1>1, <1>2, <1>3, ExecutionInvariance, PTL DEF ExecutionSpec
-----------------------------------------------------------------------------
(***************************************************************************)
(* A succeeded job was performed.                                          *)
(***************************************************************************)

(* A loop holds the key the table has, knows its action is completed when  *)
(* it reports success, and is the only one that reports.                   *)
SuccessOK ==
  /\ \A w \in Workers : \A j \in batch[w] :
       jobs[j].repeat # "minutes" => loaded[w][j].key = jobs[j].key
  /\ \A w \in Workers : pc[w] = "returned" => Key(w) \in completed
  /\ Reporters = {} =>
       \A j \in Jobs : jobs[j].status = "succeeded" =>
         jobs[j].repeat # "minutes" /\ jobs[j].key \in completed

LEMMA BatchStep ==
  ASSUME SchedulerInv, [Next]_queueVars, NEW w \in Workers, NEW j \in batch'[w]
  PROVE  \/ ClaimRead(w) /\ jobs' = jobs /\ loaded'[w][j] = jobs[j]
         \/ j \in batch[w] /\ loaded'[w][j].key = loaded[w][j].key
<1> USE DEF SchedulerInv, TypeOK
<1>1. ASSUME NEW v \in Workers, ClaimRead(v) \/ ClaimCommit(v) \/ Settle(v) \/ SettleRaises(v)
      PROVE  \/ ClaimRead(w) /\ jobs' = jobs /\ loaded'[w][j] = jobs[j]
             \/ j \in batch[w] /\ loaded'[w][j].key = loaded[w][j].key
  <2>1. CASE ClaimRead(v)
    <3>1. PICK S \in SUBSET Claimable :
            /\ batch' = [batch EXCEPT ![v] = S]
            /\ loaded' = [loaded EXCEPT ![v] =
                            [i \in Jobs |-> IF i \in S THEN jobs[i] ELSE Absent(i)]]
            /\ jobs' = jobs
      BY <2>1 DEF ClaimRead
    <3>2. CASE v = w
      <4>1. j \in S /\ j \in Jobs
        BY <3>1, <3>2 DEF Claimable
      <4> QED BY <2>1, <3>1, <3>2, <4>1
    <3>3. CASE v # w
      BY <3>1, <3>3
    <3> QED BY <3>2, <3>3
  <2>2. CASE ClaimCommit(v)
    <3>1. j \in batch[w] /\ j \in Jobs
      BY <2>2 DEF ClaimCommit
    <3> QED BY <2>2, <3>1, ClaimCommitRows
  <2>3. CASE Settle(v)
    <3>1. j \in batch[w] /\ (v = w => j # current[w])
      BY <2>3 DEF Settle
    <3> QED BY <2>3, <3>1 DEF Settle
  <2>4. CASE SettleRaises(v)
    BY <2>4 DEF SettleRaises, Drop
  <2> QED BY <1>1, <2>1, <2>2, <2>3, <2>4
<1>2. CASE UNCHANGED <<batch, loaded>>
  BY <1>2
<1>3. ASSUME NEW v \in Workers, Drop(v)
      PROVE  j \in batch[w] /\ loaded'[w][j].key = loaded[w][j].key
  BY <1>3 DEF Drop
<1> QED
  BY <1>1, <1>2, <1>3
     DEF Next, QueueStep, Enqueue, BecomeDue, Escape, Crash, Start, AdapterEnds, CancelCommit,
         ReportCommit, CancelRead, ReportRead, Read, RequestDropped, queueVars

(* Success is reported by a loop whose action is completed.                *)
LEMMA ReturnedStep ==
  ASSUME ExecutionInv, SuccessOK, [ExecutionNext]_executionVars, NEW w \in Workers,
         pc'[w] = "returned"
  PROVE  Key(w)' \in completed'
<1> USE DEF ExecutionInv, SchedulerInv, TypeOK
<1>1. completed \subseteq completed'
  BY DEF ExecutionNext, executionVars, adapterVars, AdapterStep, ReplayStep, Execute, Insert,
         BeginKnown, BeginNew, InsertFails, SendRefused, Send, Complete, CompleteFails,
         RecordFailure, FlushMark, Bury, Die, ReplayRead,
         ReplayEnqueue, ReplayMark, ReplayDropped
<1>2. CASE UNCHANGED <<pc, current, loaded>>
  BY <1>1, <1>2 DEF SuccessOK, Key
<1>3. CASE QueueStep
  <2>1. pc[w] = "returned" /\ current'[w] = current[w] /\ loaded'[w] = loaded[w]
    <3>1. ASSUME NEW v \in Workers,
                 ClaimRead(v) \/ ClaimCommit(v) \/ Settle(v) \/ SettleRaises(v)
          PROVE  pc[w] = "returned" /\ current'[w] = current[w] /\ loaded'[w] = loaded[w]
      BY <3>1 DEF ClaimRead, ClaimCommit, Settle, SettleRaises, Drop
    <3>2. CASE UNCHANGED <<pc, current, loaded>>
      BY <3>2
    <3> QED BY <1>3, <3>1, <3>2
         DEF QueueStep, Enqueue, BecomeDue, CancelCommit, ReportCommit, RequestDropped,
             CancelRead, ReportRead, Read
  <2> QED BY <1>1, <2>1 DEF SuccessOK, Key
<1>4. ASSUME NEW v \in Workers, AdapterStep(v) \/ Die(v) PROVE Key(w)' \in completed'
  <2>1. \/ Complete(v)
        \/ BeginKnown(v) /\ v = w
        \/ pc[w] = "returned" /\ current'[w] = current[w] /\ loaded'[w] = loaded[w]
    BY <1>4 DEF AdapterStep, Die, Crash, Execute, Start, BeginKnown, BeginNew, Insert,
                InsertFails, Escape, Drop, SendRefused, Send, CompleteFails, RecordFailure,
                FlushMark, Bury, AdapterEnds, queueVars
  <2>2. CASE Complete(v)
    BY <1>1, <2>2 DEF Complete, AdapterEnds, SuccessOK, Key
  <2>3. CASE BeginKnown(v) /\ v = w
    BY <1>1, <2>3 DEF BeginKnown, AdapterEnds, Key, adapterVars
  <2> QED BY <1>1, <2>1, <2>2, <2>3 DEF SuccessOK, Key
<1>5. ASSUME NEW h \in Replayers, ReplayStep(h) PROVE UNCHANGED <<pc, current, loaded>>
  BY <1>5 DEF ReplayStep, ReplayRead, ReplayEnqueue, ReplayMark, ReplayDropped, queueVars
<1> QED BY <1>2, <1>3, <1>4, <1>5 DEF ExecutionNext, executionVars, queueVars

(* A job becomes succeeded only as the settlement of a loop's success.     *)
LEMMA SucceedsBySettling ==
  ASSUME SchedulerInv, [Next]_queueVars, Reporters = {}, NEW j \in Jobs,
         jobs'[j].status = "succeeded", jobs[j].status # "succeeded"
  PROVE  \E w \in Workers : /\ pc[w] = "returned" /\ current[w] = j /\ j \in batch[w]
                           /\ jobs[j].repeat # "minutes"
<1> USE DEF SchedulerInv
<1>1. ASSUME NEW i \in Jobs, Enqueue(i) PROVE FALSE
  BY <1>1 DEF Enqueue, Inserted, TypeOK
<1>2. ASSUME NEW w \in Workers, ClaimCommit(w) PROVE FALSE
  BY <1>2, ClaimCommitRows
<1>3. ASSUME NEW h \in Handlers, CancelCommit(h) PROVE FALSE
  BY <1>3, CancelRows
<1>4. ASSUME NEW h \in Handlers, ReportCommit(h) PROVE FALSE
  BY <1>4, ReportFacts
<1>5. ASSUME NEW w \in Workers, Settle(w)
      PROVE  /\ pc[w] = "returned" /\ current[w] = j /\ j \in batch[w]
             /\ jobs[j].repeat # "minutes"
  <2>1. PICK i \in Jobs, row \in JobRow, ok \in BOOLEAN :
          /\ i = current[w] /\ row = loaded[w][current[w]] /\ ok = (pc[w] = "returned")
          /\ i \in batch[w] /\ Agrees(i, row) /\ CommitMark(i, row, ok)
    BY <1>5, SettleFacts
  <2>2. i = j
    BY <2>1, CommitMarkStatus
  <2>3. PICK edited \in JobRow :
          /\ ~Recurs(row, ok) => edited = Marked(row, ok)
          /\ jobs' = [jobs EXCEPT ![j] = FlushJob(jobs[j], row, edited)]
          /\ Recurs(row, ok) => edited.status = "scheduled"
    <3>1. CASE Recurs(row, ok)
      <4>1. PICK uuid \in Uuids : Mark(j, row, Rescheduled(row, uuid))
        BY <2>1, <2>2, <3>1 DEF CommitMark
      <4>2. Rescheduled(row, uuid) \in JobRow /\ Rescheduled(row, uuid).status = "scheduled"
        BY EditTypes DEF Rescheduled, JobRow
      <4> QED BY <3>1, <4>1, <4>2 DEF Mark
    <3>2. CASE ~Recurs(row, ok)
      <4>1. TypeOK /\ CommitMark(j, row, ok)
        BY <2>1, <2>2
      <4>2. PICK edited \in JobRow :
              /\ ~Recurs(row, ok) => edited = Marked(row, ok)
              /\ jobs' = [jobs EXCEPT ![j] = FlushJob(jobs[j], row, edited)]
        BY <4>1, CommitMarkFacts
      <4> QED BY <3>2, <4>2
    <3> QED BY <3>1, <3>2
  <2>4. edited.status = "succeeded"
    <3>1. jobs[j] \in JobRow /\ jobs'[j] = FlushJob(jobs[j], row, edited)
      BY <2>3 DEF TypeOK
    <3> QED BY <3>1, FlushKeeps
  <2>5. ~Recurs(row, ok) /\ Marked(row, ok).status = "succeeded"
    BY <2>3, <2>4
  <2>6. ok
    BY <2>5 DEF Marked, JobRow
  <2> QED BY <2>1, <2>2, <2>5, <2>6 DEF Recurs, Agrees
<1>6. CASE UNCHANGED jobs
  BY <1>6
<1> QED
  BY <1>1, <1>2, <1>3, <1>4, <1>5, <1>6
     DEF Next, QueueStep, BecomeDue, ClaimRead, SettleRaises, Escape, Crash, Start,
         AdapterEnds, CancelRead, ReportRead, Read, RequestDropped, queueVars

LEMMA SuccessStep ==
  ASSUME ExecutionInv, SuccessOK, [ExecutionNext]_executionVars
  PROVE  SuccessOK'
<1>1. SchedulerInv /\ [Next]_queueVars
  BY StepIsSchedulerStep DEF ExecutionInv
<1>2. completed \subseteq completed'
  BY DEF ExecutionNext, executionVars, adapterVars, AdapterStep, ReplayStep, Execute, Insert,
         BeginKnown, BeginNew, InsertFails, SendRefused, Send, Complete, CompleteFails,
         RecordFailure, FlushMark, Bury, Die, ReplayRead,
         ReplayEnqueue, ReplayMark, ReplayDropped
<1>3. ASSUME NEW w \in Workers, NEW j \in batch'[w], jobs'[j].repeat # "minutes"
      PROVE  loaded'[w][j].key = jobs'[j].key
  <2>1. CASE ClaimRead(w) /\ jobs' = jobs /\ loaded'[w][j] = jobs[j]
    BY <2>1
  <2>2. CASE j \in batch[w] /\ loaded'[w][j].key = loaded[w][j].key
    <3>1. j \in Jobs /\ jobs[j].status # "absent"
      BY <1>1, <2>2 DEF SchedulerInv, RowsOK, TypeOK, Agrees
    <3>2. Steady(j)
      BY <1>1, <3>1, TableStep
    <3> QED BY <1>3, <2>2, <3>2 DEF Steady, SuccessOK
  <2> QED BY <1>1, <2>1, <2>2, BatchStep
<1>4. ASSUME Reporters = {}, NEW j \in Jobs, jobs'[j].status = "succeeded"
      PROVE  jobs'[j].repeat # "minutes" /\ jobs'[j].key \in completed'
  <2>1. CASE jobs[j].status = "succeeded"
    <3>1. Steady(j)
      BY <1>1, <2>1, TableStep
    <3> QED BY <1>2, <1>4, <2>1, <3>1 DEF Steady, SuccessOK
  <2>2. CASE jobs[j].status # "succeeded"
    <3>1. PICK w \in Workers : /\ pc[w] = "returned" /\ current[w] = j /\ j \in batch[w]
                               /\ jobs[j].repeat # "minutes"
      BY <1>1, <1>4, <2>2, SucceedsBySettling
    <3>2. jobs[j].key \in completed
      BY <3>1 DEF SuccessOK, Key
    <3>3. Steady(j)
      <4>1. jobs[j].status # "absent"
        BY <1>1, <3>1 DEF SchedulerInv, RowsOK, Agrees
      <4> QED BY <1>1, <4>1, TableStep
    <3> QED BY <1>2, <3>1, <3>2, <3>3 DEF Steady
  <2> QED BY <2>1, <2>2
<1>5. \A w \in Workers : pc'[w] = "returned" => Key(w)' \in completed'
  BY ReturnedStep
<1> QED BY <1>3, <1>4, <1>5 DEF SuccessOK

(* When only the loops report results, whatever was cancelled, retried,    *)
(* replayed or crashed meanwhile, "succeeded" means that the call was made *)
(* and its record is completed.                                            *)
THEOREM SuccessIsReal == ExecutionSpec => []SucceededMeansCompleted
<1>1. ExecutionInit => SuccessOK
  BY DEF ExecutionInit, Init, SuccessOK, Absent
<1>2. ExecutionInv /\ SuccessOK => SucceededMeansCompleted
  <2> SUFFICES ASSUME ExecutionInv, SuccessOK, Reporters = {}, NEW j \in Jobs,
                      jobs[j].status = "succeeded"
               PROVE  /\ jobs[j].key \in completed
                      /\ \E n \in DOMAIN effects : effects[n] = jobs[j].key
    BY DEF SucceededMeansCompleted
  <2>1. jobs[j].key \in completed
    BY DEF SuccessOK
  <2>2. \E n \in 1 .. Len(effects) : effects[n] = jobs[j].key
    BY <2>1 DEF ExecutionInv, EffectsOK
  <2>3. DOMAIN effects = 1 .. Len(effects)
    BY DEF ExecutionInv, EffectsOK
  <2> QED BY <2>1, <2>2, <2>3
<1>3. ExecutionInv /\ SuccessOK /\ [ExecutionNext]_executionVars => SuccessOK'
  BY SuccessStep
<1> QED BY <1>1, <1>2, <1>3, ExecutionInvariance, PTL DEF ExecutionSpec
=============================================================================
