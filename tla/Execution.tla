----------------------------- MODULE Execution -----------------------------
(***************************************************************************)
(* What a scheduler loop does with a claimed job: execute_adapter          *)
(* (app/services/execution_adapters.py) with the idempotency records and   *)
(* dead letters of app/services/security_resilience.py, and the replay of  *)
(* a dead letter (app/api/recovery_routes.py).                             *)
(*                                                                         *)
(* The module fills in the "executing" phase of module Scheduler: `stage`  *)
(* is the statement of execute_adapter a loop is about to run, and each    *)
(* step ends at an await.  Whether the circuit of the target system lets a *)
(* call through is left open: a send may always be refused.  The database  *)
(* returns the time zones it was given, as PostgreSQL does, so reading a   *)
(* circuit row raises nothing.                                             *)
(***************************************************************************)
EXTENDS Scheduler, Sequences

CONSTANTS
  Replayers,     (* sessions of POST /v1/recovery/dead-letters/{id}/replay *)
  ReplayLimit    (* max_attempts of a replay job                           *)

ASSUME ReplayLimitAssumption == ReplayLimit \in Limits

VARIABLES
  stage,         (* where each loop is in execute_adapter                  *)
  started,       (* idempotency keys whose record says "started"           *)
  completed,     (* idempotency keys whose record says "completed"         *)
  dead,          (* table dead_letters, in the order of insertion          *)
  replay,        (* what each replay session has done so far               *)
  effects,       (* history: keys of the calls made to the outside         *)
  lost,          (* history: started keys whose loop died                  *)
  replayJobs     (* history: <<letter, job>> for each replay job           *)

adapterVars == <<started, completed, dead, effects, lost>>
replayVars  == <<replay, replayJobs>>
executionVars == <<queueVars, stage, adapterVars, replayVars>>

Stages == {"none", "begin", "insert", "send", "complete", "unencoded", "closed", "bury"}

(* The stages of a loop that inserted a record which still says "started". *)
Open == {"send", "complete", "unencoded", "bury"}

(* idempotency_key of the payload the loop executes, or the derived one.   *)
Key(w) == loaded[w][current[w]].key

(* The loops between the insertion of the record of k and their last word  *)
(* on it.                                                                  *)
Performing(w, k) == stage[w] \in Open /\ Key(w) = k
-----------------------------------------------------------------------------
NoReplay == [phase |-> "none", letter |-> 0, count |-> 0]

Letters == DOMAIN dead

ExecutionInit ==
  /\ Init
  /\ stage = [w \in Workers |-> "none"]
  /\ started = {}
  /\ completed = {}
  /\ dead = << >>
  /\ replay = [h \in Replayers |-> NoReplay]
  /\ effects = << >>
  /\ lost = {}
  /\ replayJobs = {}

GoTo(w, s) == stage' = [stage EXCEPT ![w] = s]

(* execute_claimed_job calls execute_adapter.                              *)
Execute(w, j) ==
  /\ Start(w, j)
  /\ GoTo(w, "begin")
  /\ UNCHANGED <<adapterVars, replayVars>>

(* (Here, too, a definition named for what it does wrong is a mutant of    *)
(* the one after it.)                                                      *)
BeginKnownAsDone(w) ==
  /\ stage[w] = "begin"
  /\ Key(w) \in started \cup completed
  /\ AdapterEnds(w, TRUE)
  /\ GoTo(w, "none")
  /\ UNCHANGED <<adapterVars, replayVars>>

BeginKnownWaits(w) ==
  /\ stage[w] = "begin"
  /\ Key(w) \in completed
  /\ AdapterEnds(w, TRUE)
  /\ GoTo(w, "none")
  /\ UNCHANGED <<adapterVars, replayVars>>

(* begin_idempotent, the SELECT.  A completed record is answered with its  *)
(* result; a started one is refused, before the try block.                 *)
BeginKnown(w) ==
  /\ stage[w] = "begin"
  /\ Key(w) \in started \cup completed
  /\ AdapterEnds(w, Key(w) \in completed)
  /\ GoTo(w, "none")
  /\ UNCHANGED <<adapterVars, replayVars>>

BeginNew(w) ==
  /\ stage[w] = "begin"
  /\ Key(w) \notin started \cup completed
  /\ GoTo(w, "insert")
  /\ UNCHANGED <<queueVars, adapterVars, replayVars>>

InsertTwice(w) ==
  /\ stage[w] = "insert"
  /\ started' = started \cup {Key(w)}
  /\ GoTo(w, "send")
  /\ UNCHANGED <<queueVars, completed, dead, effects, lost, replayVars>>

(* begin_idempotent, the INSERT, under the unique key.                     *)
Insert(w) ==
  /\ stage[w] = "insert"
  /\ Key(w) \notin started \cup completed
  /\ started' = started \cup {Key(w)}
  /\ GoTo(w, "send")
  /\ UNCHANGED <<queueVars, completed, dead, effects, lost, replayVars>>

InsertFailsAlone(w) ==
  /\ stage[w] = "insert"
  /\ Key(w) \in started \cup completed
  /\ batch' = [batch EXCEPT ![w] = @ \ {current[w]}]
  /\ current' = [current EXCEPT ![w] = NoJob]
  /\ pc' = [pc EXCEPT ![w] = "holding"]
  /\ GoTo(w, "none")
  /\ UNCHANGED <<jobs, due, loaded, request, minted, crashes, stranded, adapterVars, replayVars>>

(* Another session inserted the key first: the IntegrityError leaves the   *)
(* session unusable, so that mark_job_result raises too and ends the pass. *)
InsertFails(w) ==
  /\ stage[w] = "insert"
  /\ Key(w) \in started \cup completed
  /\ Escape(w)
  /\ GoTo(w, "none")
  /\ UNCHANGED <<adapterVars, replayVars>>

SendRefusedUnnoticed(w) ==
  /\ stage[w] = "send"
  /\ GoTo(w, "complete")
  /\ UNCHANGED <<queueVars, adapterVars, replayVars>>

(* The body of the try block up to complete_idempotent: refused before     *)
(* anything leaves the process, answered with an error, or answered well.  *)
SendRefused(w) ==
  /\ stage[w] = "send"
  /\ GoTo(w, "bury")
  /\ UNCHANGED <<queueVars, adapterVars, replayVars>>

Send(w, ok) ==
  /\ stage[w] = "send"
  /\ effects' = Append(effects, Key(w))
  /\ GoTo(w, IF ok THEN "complete" ELSE "bury")
  /\ UNCHANGED <<queueVars, started, completed, dead, lost, replayVars>>

(* complete_idempotent, and execute_adapter returns.                       *)
Complete(w) ==
  /\ stage[w] = "complete"
  /\ started' = started \ {Key(w)}
  /\ completed' = completed \cup {Key(w)}
  /\ AdapterEnds(w, TRUE)
  /\ GoTo(w, "none")
  /\ UNCHANGED <<dead, effects, lost, replayVars>>

(* complete_idempotent marks its record before it encodes the result.  The *)
(* result of ml.health.evaluate cannot be encoded when an alert was raised *)
(* (it holds a datetime): the exception leaves the mark in the session.    *)
CompleteFails(w) ==
  /\ stage[w] = "complete"
  /\ GoTo(w, "unencoded")
  /\ UNCHANGED <<queueVars, adapterVars, replayVars>>

(* The next commit of the session writes the mark, if there is one.        *)
FlushMark(w) ==
  IF stage[w] = "unencoded"
  THEN started' = started \ {Key(w)} /\ completed' = completed \cup {Key(w)}
  ELSE UNCHANGED <<started, completed>>

(* The except clause, record_circuit_failure of a job with a system: it    *)
(* commits before the letter.  (A record that is not marked is not touched *)
(* by it.)                                                                 *)
RecordFailure(w) ==
  /\ stage[w] = "unencoded"
  /\ FlushMark(w)
  /\ GoTo(w, "closed")
  /\ UNCHANGED <<queueVars, dead, effects, lost, replayVars>>

BuryNothing(w) ==
  /\ stage[w] \in {"bury", "unencoded", "closed"}
  /\ FlushMark(w)
  /\ AdapterEnds(w, FALSE)
  /\ GoTo(w, "none")
  /\ UNCHANGED <<dead, effects, lost, replayVars>>

(* The except clause: one INSERT of the payload and the error into         *)
(* dead_letters, and the exception goes on.  The record of the key stays   *)
(* "started", unless it was marked.                                        *)
Bury(w) ==
  /\ stage[w] \in {"bury", "unencoded", "closed"}
  /\ dead' = Append(dead, [job |-> current[w], key |-> Key(w),
                           repeat |-> loaded[w][current[w]].repeat,
                           error |-> IF stage[w] = "bury" THEN "action" ELSE "result",
                           status |-> "dead", count |-> 0])
  /\ FlushMark(w)
  /\ AdapterEnds(w, FALSE)
  /\ GoTo(w, "none")
  /\ UNCHANGED <<effects, lost, replayVars>>

Die(w) ==
  /\ Crash(w)
  /\ lost' = IF stage[w] \in Open THEN lost \cup {Key(w)} ELSE lost
  /\ GoTo(w, "none")
  /\ UNCHANGED <<started, completed, dead, effects, replayVars>>
-----------------------------------------------------------------------------
(***************************************************************************)
(* POST /v1/recovery/dead-letters/{id}/replay.                             *)
(***************************************************************************)

ReplayReadEnqueuesLater(h, d) ==
  /\ replay[h] = NoReplay
  /\ d \in Letters
  /\ dead[d].status = "dead"
  /\ replay' = [replay EXCEPT ![h] = [phase |-> "queued", letter |-> d, count |-> dead[d].count]]
  /\ UNCHANGED <<queueVars, stage, adapterVars, replayJobs>>

(* The letters are listed and the status of the one asked for is checked.  *)
ReplayRead(h, d) ==
  /\ replay[h] = NoReplay
  /\ d \in Letters
  /\ dead[d].status = "dead"
  /\ replay' = [replay EXCEPT ![h] = [phase |-> "read", letter |-> d, count |-> dead[d].count]]
  /\ UNCHANGED <<queueVars, stage, adapterVars, replayJobs>>

(* enqueue_job with the payload of the letter.  A derived key was never in *)
(* the payload, so the replay job derives its own.                         *)
ReplayEnqueue(h, j) ==
  LET d == replay[h].letter
      letter == dead[d]
  IN /\ replay[h].phase = "read"
     /\ Inserted(j, "queued", ReplayLimit, letter.repeat,
                 IF letter.key = letter.job THEN j ELSE letter.key)
     /\ replay' = [replay EXCEPT ![h].phase = "queued"]
     /\ replayJobs' = replayJobs \cup {<<d, j>>}
     /\ UNCHANGED <<pc, batch, current, loaded, request, minted, crashes, stranded,
                    stage, adapterVars>>

(* mark_dead_letter_replayed on the object the handler holds.              *)
Replayed(letter, count) ==
  [letter EXCEPT !.status = "replayed", !.count = Written(@, count, count + 1)]

ReplayMark(h) ==
  LET r == replay[h] IN
    /\ r.phase = "queued"
    /\ dead' = [dead EXCEPT ![r.letter] = Replayed(@, r.count)]
    /\ replay' = [replay EXCEPT ![h] = NoReplay]
    /\ UNCHANGED <<queueVars, stage, started, completed, effects, lost, replayJobs>>

(* The request timeout ends the handler between its statements.            *)
ReplayDropped(h) ==
  /\ replay[h] # NoReplay
  /\ replay' = [replay EXCEPT ![h] = NoReplay]
  /\ UNCHANGED <<queueVars, stage, adapterVars, replayJobs>>
-----------------------------------------------------------------------------
AdapterStep(w) ==
  \/ \E j \in Jobs : Execute(w, j)
  \/ BeginKnown(w) \/ BeginNew(w) \/ Insert(w) \/ InsertFails(w)
  \/ SendRefused(w) \/ Send(w, TRUE) \/ Send(w, FALSE)
  \/ Complete(w) \/ CompleteFails(w) \/ RecordFailure(w) \/ Bury(w)

ReplayStep(h) ==
  \/ \E d \in Letters : ReplayRead(h, d)
  \/ \E j \in Jobs : ReplayEnqueue(h, j)
  \/ ReplayMark(h) \/ ReplayDropped(h)

ExecutionNext ==
  \/ QueueStep /\ UNCHANGED <<stage, adapterVars, replayVars>>
  \/ \E w \in Workers : AdapterStep(w) \/ Die(w)
  \/ \E h \in Replayers : ReplayStep(h)

ExecutionSpec == ExecutionInit /\ [][ExecutionNext]_executionVars

(* A loop never stops polling and each of its awaits returns (the HTTP     *)
(* clients have timeouts), and next_attempt_at of a waiting job passes.    *)
LoopStep(w) ==
  \/ AdapterStep(w)
  \/ /\ ClaimRead(w) \/ ClaimCommit(w) \/ Settle(w) \/ SettleRaises(w)
     /\ UNCHANGED <<stage, adapterVars, replayVars>>

TimePasses(j) == BecomeDue(j) /\ UNCHANGED <<stage, adapterVars, replayVars>>

FairSpec ==
  /\ ExecutionSpec
  /\ \A w \in Workers : WF_executionVars(LoopStep(w))
  /\ \A j \in Jobs : WF_executionVars(TimePasses(j))
-----------------------------------------------------------------------------
(***************************************************************************)
(* Properties.                                                             *)
(***************************************************************************)

Letter == [job : Jobs, key : Keys, repeat : RepeatKinds, error : {"action", "result"},
           status : {"dead", "replayed"}, count : Nat]

(* The adapter's own tables and locals hold what they may hold, and a loop *)
(* is in a stage of the adapter exactly while it executes a job.           *)
ExecutionTypeOK ==
  /\ stage \in [Workers -> Stages]
  /\ \A w \in Workers : stage[w] = "none" <=> pc[w] # "executing"
  /\ started \subseteq Keys
  /\ completed \subseteq Keys
  /\ dead \in Seq(Letter)
  /\ replay \in [Replayers -> [phase : {"none", "read", "queued"}, letter : Nat, count : Nat]]
  /\ \A h \in Replayers : replay[h].phase # "none" => replay[h].letter \in Letters
  /\ effects \in Seq(Keys)
  /\ lost \subseteq Keys
  /\ replayJobs \subseteq Nat \X Jobs

(* Nothing leaves the process twice under one idempotency key: not when a  *)
(* job is retried, claimed by two loops, replayed from a dead letter,      *)
(* reported by hand and run again, or picked up after a crash.             *)
AtMostOnceEffect ==
  \A m, n \in DOMAIN effects : effects[m] = effects[n] => m = n

(* A record that says "started" has a loop working on it, or the dead      *)
(* letter of that work, or it lost its loop to a crash: execute_adapter    *)
(* leaves no other trace of an action it did not finish.                   *)
StartedIsAccounted ==
  \A k \in started :
    \/ \E w \in Workers : Performing(w, k)
    \/ \E d \in Letters : dead[d].key = k
    \/ k \in lost

(* A key has one dead letter at most, however often its job is retried,    *)
(* replayed or claimed, and its record is completed exactly if the error   *)
(* was that the result could not be encoded.  So a letter about a failed   *)
(* action is about one whose record blocks every other attempt, and one    *)
(* about a result is about an action that was performed.                   *)
EachKeyEndsOnce ==
  /\ \A d, e \in Letters : dead[d].key = dead[e].key => d = e
  /\ \A d \in Letters :
       /\ dead[d].error = "action" => dead[d].key \in started
       /\ dead[d].error = "result" =>
            /\ dead[d].key \in completed
            /\ \E n \in DOMAIN effects : effects[n] = dead[d].key

(* When only the scheduler reports results, a job that does not repeat is  *)
(* succeeded only if its action was really completed, under its own key or *)
(* by another job with the same key, and the call was made.                *)
SucceededMeansCompleted ==
  Reporters = {} =>
    \A j \in Jobs : jobs[j].status = "succeeded" =>
      /\ jobs[j].key \in completed
      /\ \E n \in DOMAIN effects : effects[n] = jobs[j].key

(* A dead letter counts as replayed no more often than a job was made from *)
(* it, and is marked replayed only if one was.                             *)
ReplayCountIsBacked ==
  \A d \in Letters :
    /\ dead[d].count <= Cardinality({j \in Jobs : <<d, j>> \in replayJobs})
    /\ dead[d].status = "replayed" <=> dead[d].count > 0

(* What the refusal says, "idempotent action already in progress"          *)
(* (app/services/execution_adapters.py:26): some loop is performing it.    *)
RefusedOnlyInProgress ==
  \A w \in Workers : stage[w] = "begin" /\ Key(w) \in started =>
    \E v \in Workers : Performing(v, Key(w))

(* With one loop, a claimed job is always settled.                         *)
RunningEnds == \A j \in Jobs : jobs[j].status = "running" ~> jobs[j].status # "running"

(* A job that does not repeat reaches its end, through as many attempts as *)
(* it is allowed.                                                          *)
EveryJobSettles ==
  \A j \in Jobs :
    jobs[j].status # "absent" /\ jobs[j].repeat = "no" ~> jobs[j].status \in Terminal

(* What module Scheduler says of the job table and its sessions is true of *)
(* them when the adapter is filled in.                                     *)
ImplementsScheduler == Spec
-----------------------------------------------------------------------------
(* The records and the calls implement a ledger in which an action is      *)
(* opened once, performed at most once and only while open, and closed     *)
(* only after it was performed.                                            *)
Ledger == INSTANCE OnceLedger WITH open <- started, closed <- completed, performed <- effects

ImplementsLedger == Ledger!Spec
=============================================================================
